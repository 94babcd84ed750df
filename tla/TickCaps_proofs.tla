--------------------------- MODULE TickCaps_proofs --------------------------
(***************************************************************************)
(* The caps and the catchup of a scheduler tick, for any DAGs, pools, caps *)
(* and clock: the proofs of WithinPoolSlots, WithinDagTasks,               *)
(* WithinMaxActiveRuns and NoSlotSkipped.                                  *)
(*                                                                         *)
(* The tick decides on counts taken with its listing.  SlotInv, RunsInv and*)
(* HoleInv say what these bound while the tick goes on.                    *)
(***************************************************************************)
EXTENDS Ticks_proofs

\* A run that has ended holds nothing, and the holders of a pool, of a DAG, are
\* within what the tick has counted.
SlotInv ==
  events \cap {"run", "mark"} = {} =>
    /\ \A i \in DOMAIN runs : Active(runs[i]) \/ Held(runs[i]) = {}
    /\ \A p \in Pools : PoolSlots[p] > 0 =>
         /\ Cardinality(PoolHolders(runs, p)) <= PoolSlots[p]
         /\ tick.pc = "advance" => /\ Cardinality(PoolHolders(runs, p)) <= tick.pool[p]
                                   /\ tick.pool[p] <= PoolSlots[p]
    /\ \A d \in Dags : MaxActiveTasks[d] > 0 =>
         /\ Cardinality(DagHolders(runs, d)) <= MaxActiveTasks[d]
         /\ tick.pc = "advance" => /\ Cardinality(DagHolders(runs, d)) <= tick.tasks[d]
                                   /\ tick.tasks[d] <= MaxActiveTasks[d]

\* The runs of d that are active or that the tick may make active again.
Counted(d) == {i \in RunsOf(runs, d) : Active(runs[i]) \/ i \in DOMAIN tick.listed}

Capped(d) == MaxActiveRuns[d] > 0 /\ Schedule[d] # "once" /\ d \notin raced

\* The active runs of a DAG are within what the tick has counted and created; a
\* trigger past its check has a place.
RunsInv ==
  /\ trig # NoDag => "trigger" \in events
  /\ ~({"mark", "trigger"} \subseteq events) =>
       \A d \in Dags : Capped(d) =>
         /\ ActiveRunCount(runs, d) <= MaxActiveRuns[d]
         /\ tick.pc # "idle" =>
              /\ Cardinality(Counted(d)) <= tick.activeRuns[d] + tick.created[d]
              /\ tick.activeRuns[d] + tick.created[d] <= MaxActiveRuns[d]
         /\ trig = d => ActiveRunCount(runs, d) < MaxActiveRuns[d]

Backfills(d) == Catchup[d] /\ Schedule[d] = "cron" /\ StartDate[d] # NoDate

\* The slot has its run, or one of the two causes why it has none.
Covered(d, slot) ==
  \/ slot \in ScheduledSlots(d)
  \/ "create" \in events
  \/ \E i \in RunsOf(runs, d) : runs[i].type = "manual" /\ runs[i].logical >= slot

\* What is before a scheduled run is covered; what is before a due slot is covered
\* or due.
HoleInv ==
  \A d \in Dags : Backfills(d) =>
    /\ \A s \in ScheduledSlots(d) : \A slot \in StartDate[d]..(s - 1) : Covered(d, slot)
    /\ \A x \in tick.due[d] : \A slot \in StartDate[d]..(x - 1) :
         slot \in tick.due[d] \/ Covered(d, slot)

-----------------------------------------------------------------------------
(* The slots.                                                                *)

LEMMA HoldersMember ==
  ASSUME NEW rs, NEW y
  PROVE  y \in Holders(rs) <=> \E i \in DOMAIN rs : \E t \in Held(rs[i]) : y = <<i, t>>
BY DEF Holders

\* The holders gain at most the tasks Q of run i.
Gained(i, Q) ==
  /\ \A p \in Pools : PoolHolders(runs', p) \subseteq
       PoolHolders(runs, p) \cup ({i} \X {t \in Q : PoolOf[runs[i].dag][t] = p})
  /\ \A d \in Dags : DagHolders(runs', d) \subseteq
       DagHolders(runs, d) \cup ({i} \X {t \in Q : runs[i].dag = d})

\* A run that comes to hold at most Q besides adds no other holders.
LEMMA HoldersGain ==
  ASSUME NEW i \in DOMAIN runs, NEW x, NEW Q, Later(runs[i], x),
         runs' = [runs EXCEPT ![i] = x], Held(x) \subseteq Held(runs[i]) \cup Q
  PROVE  Gained(i, Q)
<1>1. /\ DOMAIN runs' = DOMAIN runs
      /\ \A j \in DOMAIN runs : runs'[j].dag = runs[j].dag
      /\ \A j \in DOMAIN runs : runs'[j] = IF j = i THEN x ELSE runs[j]
  BY DEF Later
<1>2. ASSUME NEW y \in Holders(runs')
      PROVE  /\ y \in Holders(runs) \/ \E t \in Q : y = <<i, t>>
             /\ runs'[y[1]].dag = runs[y[1]].dag
  <2> PICK j \in DOMAIN runs' : \E t \in Held(runs'[j]) : y = <<j, t>>
    BY DEF Holders
  <2>1. PICK t \in Held(runs'[j]) : y = <<j, t>>
    OBVIOUS
  <2>2. t \in Held(runs[j]) \/ (j = i /\ t \in Q)
    BY <1>1, <2>1
  <2> QED
    BY <1>1, <2>1, <2>2, HoldersMember
<1>3. ASSUME NEW p \in Pools, NEW y \in PoolHolders(runs', p)
      PROVE  y \in PoolHolders(runs, p) \cup ({i} \X {t \in Q : PoolOf[runs[i].dag][t] = p})
  <2>1. y \in Holders(runs') /\ PoolOf[runs'[y[1]].dag][y[2]] = p
    BY Zenon DEF PoolHolders
  <2>2. CASE y \in Holders(runs)
    BY Zenon, <1>2, <2>1, <2>2 DEF PoolHolders
  <2>3. ASSUME NEW t \in Q, y = <<i, t>>
        PROVE  y \in {i} \X {u \in Q : PoolOf[runs[i].dag][u] = p}
    BY Zenon, <1>2, <2>1, <2>3
  <2> QED
    BY Zenon, <1>2, <2>1, <2>2, <2>3
<1>4. ASSUME NEW d \in Dags, NEW y \in DagHolders(runs', d)
      PROVE  y \in DagHolders(runs, d) \cup ({i} \X {t \in Q : runs[i].dag = d})
  <2>1. y \in Holders(runs') /\ runs'[y[1]].dag = d
    BY Zenon DEF DagHolders
  <2>2. CASE y \in Holders(runs)
    BY Zenon, <1>2, <2>1, <2>2 DEF DagHolders
  <2>3. ASSUME NEW t \in Q, y = <<i, t>>
        PROVE  y \in {i} \X {u \in Q : runs[i].dag = d}
    BY Zenon, <1>2, <2>1, <2>3
  <2> QED
    BY Zenon, <1>2, <2>1, <2>2, <2>3
<1> QED
  BY Zenon, <1>3, <1>4 DEF Gained

\* Adding the tasks B of one run adds at most their number.
LEMMA CountGains ==
  ASSUME NEW A, IsFiniteSet(A), NEW B, IsFiniteSet(B), NEW i, NEW C \in SUBSET (A \cup ({i} \X B))
  PROVE  /\ Cardinality(A) \in Nat /\ Cardinality(B) \in Nat /\ Cardinality(C) \in Nat
         /\ Cardinality(C) <= Cardinality(A) + Cardinality(B)
<1> DEFINE D == {i} \X B
<1>1. IsFiniteSet({i}) /\ Cardinality({i}) = 1
  BY FS_Singleton
<1>2. IsFiniteSet(D) /\ Cardinality(D) = 1 * Cardinality(B)
  BY <1>1, FS_Product
<1> HIDE DEF D
<1>3. /\ Cardinality(A) \in Nat /\ Cardinality(B) \in Nat /\ Cardinality(D) \in Nat
      /\ IsFiniteSet(A \cup D) /\ IsFiniteSet(A \cap D)
      /\ Cardinality(A \cup D) = Cardinality(A) + Cardinality(D) - Cardinality(A \cap D)
  BY Zenon, <1>2, FS_CardinalityType, FS_Union, FS_Subset
<1>4. Cardinality(A \cap D) \in Nat /\ Cardinality(A \cup D) \in Nat
  BY <1>3, FS_CardinalityType
<1>5. Cardinality(C) <= Cardinality(A \cup D) /\ Cardinality(C) \in Nat
  BY <1>3, FS_Subset, FS_CardinalityType DEF D
<1> QED
  BY <1>2, <1>3, <1>4, <1>5

\* What a plan promotes fits beside what the tick has counted.
LEMMA PromotionsFit ==
  ASSUME TicksInv, NEW i \in DOMAIN tick.listed, NEW Q \in SUBSET DOMAIN tick.listed[i].ts,
         Promotes(tick.listed[i], Q)
  PROVE  LET s == tick.listed[i] IN
         /\ \A p \in Pools : PoolSlots[p] > 0 /\ tick.pool[p] <= PoolSlots[p] =>
              tick.pool[p] + Cardinality({t \in Q : PoolOf[s.dag][t] = p}) <= PoolSlots[p]
         /\ MaxActiveTasks[s.dag] > 0 /\ tick.tasks[s.dag] <= MaxActiveTasks[s.dag] =>
              tick.tasks[s.dag] + Cardinality(Q) <= MaxActiveTasks[s.dag]
<1> DEFINE s == tick.listed[i]
           pools == PoolOf[s.dag]
<1>1. s.dag \in Dags /\ s.ts \in Seq(TaskState)
  BY Zenon, ListedRun DEF RunRecord
<1>2. IsFiniteSet(DOMAIN s.ts) /\ DOMAIN s.ts \subseteq Nat
  BY <1>1, FS_Interval
<1>3. \A T \in SUBSET Q : T \in SUBSET Nat /\ IsFiniteSet(T) /\ Cardinality(T) \in Nat
  BY <1>2, FS_Subset, FS_CardinalityType
<1>4. tick.pool \in [Pools -> Nat] /\ tick.tasks \in [Dags -> Nat]
  BY Zenon DEF TicksInv, TicksTypeOK
<1>5. ASSUME NEW t \in Q
      PROVE  /\ HasHeadroom(s.dag, Cardinality({u \in Q : u < t}))
             /\ poolHasSlot(pools[t], Cardinality({u \in {v \in Q : v < t} : pools[u] = pools[t]}))
  BY Zenon DEF Promotes
<1>6. ASSUME NEW p \in Pools, PoolSlots[p] > 0, tick.pool[p] <= PoolSlots[p]
      PROVE  tick.pool[p] + Cardinality({t \in Q : pools[t] = p}) <= PoolSlots[p]
  <2> DEFINE R == {t \in Q : pools[t] = p}
             k == PoolSlots[p] - tick.pool[p]
  <2>1. PoolSlots[p] \in Nat /\ tick.pool[p] \in Nat /\ k \in Nat
    <3>1. PoolSlots[p] \in Nat /\ tick.pool[p] \in Nat
      BY Zenon, <1>4, TicksAssumption
    <3> QED
      BY <1>6, <3>1
  <2>2. ASSUME NEW t \in R
        PROVE  Cardinality({u \in R : u < t}) < k
    <3>1. {u \in R : u < t} = {u \in {v \in Q : v < t} : pools[u] = pools[t]}
      BY Zenon
    <3>2. t \in Q /\ pools[t] = p /\ {u \in R : u < t} \in SUBSET Q
      BY Zenon
    <3>3. tick.pool[p] + Cardinality({u \in R : u < t}) < PoolSlots[p]
      <4>1. poolHasSlot(p, Cardinality({u \in R : u < t}))
        BY Zenon, <1>5, <3>1, <3>2
      <4> QED
        BY <1>6, <2>1, <4>1 DEF poolHasSlot
    <3>4. Cardinality({u \in R : u < t}) \in Nat
      BY Zenon, <1>3, <3>2
    <3> HIDE DEF R
    <3> QED
      BY <2>1, <3>3, <3>4
  <2>3. R \in SUBSET Nat /\ IsFiniteSet(R) /\ Cardinality(R) \in Nat
    BY Zenon, <1>3
  <2> HIDE DEF R
  <2>4. Cardinality(R) <= k
    BY <2>1, <2>2, <2>3, RankBound
  <2>5. tick.pool[p] + Cardinality(R) <= PoolSlots[p]
    BY <2>1, <2>3, <2>4
  <2> QED
    BY Zenon, <2>5 DEF R
<1>7. ASSUME MaxActiveTasks[s.dag] > 0, tick.tasks[s.dag] <= MaxActiveTasks[s.dag]
      PROVE  tick.tasks[s.dag] + Cardinality(Q) <= MaxActiveTasks[s.dag]
  <2> DEFINE k == MaxActiveTasks[s.dag] - tick.tasks[s.dag]
  <2>1. MaxActiveTasks[s.dag] \in Nat /\ tick.tasks[s.dag] \in Nat /\ k \in Nat
    <3>1. MaxActiveTasks[s.dag] \in Nat /\ tick.tasks[s.dag] \in Nat
      BY Zenon, <1>1, <1>4, TicksAssumption
    <3> QED
      BY <1>7, <3>1
  <2>2. ASSUME NEW t \in Q
        PROVE  Cardinality({u \in Q : u < t}) < k
    <3> DEFINE n == Cardinality({u \in Q : u < t})
    <3>1. HasHeadroom(s.dag, n)
      BY Zenon, <1>5
    <3> HIDE DEF n
    <3>2. n < k
      BY <1>7, <2>1, <3>1 DEF HasHeadroom, admissionHeadroom
    <3> QED
      BY Zenon, <3>2 DEF n
  <2>3. Q \in SUBSET Nat /\ IsFiniteSet(Q) /\ Cardinality(Q) \in Nat
    BY <1>3
  <2>4. Cardinality(Q) <= k
    BY <2>1, <2>2, <2>3, RankBound
  <2> QED
    BY <2>1, <2>3, <2>4
<1> QED
  BY <1>6, <1>7

LEMMA FiniteSlots ==
  ASSUME TicksInv
  PROVE  /\ \A p \in Pools : IsFiniteSet(PoolHolders(runs, p))
         /\ \A d \in Dags : IsFiniteSet(DagHolders(runs, d))
BY FiniteRuns, FS_Subset DEF PoolHolders, DagHolders

Clean == events \cap {"run", "mark"} = {}

\* Holders that only become fewer, under a tick that stays or no longer advances.
LEMMA SlotsShrink ==
  ASSUME TicksInv, SlotInv, Clean,
         \A p \in Pools : PoolHolders(runs', p) \subseteq PoolHolders(runs, p),
         \A d \in Dags : DagHolders(runs', d) \subseteq DagHolders(runs, d),
         \A i \in DOMAIN runs' : Active(runs'[i]) \/ Held(runs'[i]) = {},
         tick' = tick \/ tick'.pc # "advance"
  PROVE  SlotInv'
<1>1. \A p \in Pools : /\ Cardinality(PoolHolders(runs', p)) \in Nat
                       /\ Cardinality(PoolHolders(runs, p)) \in Nat
                       /\ Cardinality(PoolHolders(runs', p)) <= Cardinality(PoolHolders(runs, p))
                       /\ tick.pool[p] \in Nat /\ PoolSlots[p] \in Nat
  BY Zenon, FiniteSlots, FS_Subset, FS_CardinalityType, TicksAssumption DEF TicksInv, TicksTypeOK
<1>2. \A d \in Dags : /\ Cardinality(DagHolders(runs', d)) \in Nat
                      /\ Cardinality(DagHolders(runs, d)) \in Nat
                      /\ Cardinality(DagHolders(runs', d)) <= Cardinality(DagHolders(runs, d))
                      /\ tick.tasks[d] \in Nat /\ MaxActiveTasks[d] \in Nat
  BY Zenon, FiniteSlots, FS_Subset, FS_CardinalityType, TicksAssumption DEF TicksInv, TicksTypeOK
<1>3. ASSUME NEW p \in Pools, PoolSlots[p] > 0
      PROVE  /\ Cardinality(PoolHolders(runs', p)) <= PoolSlots[p]
             /\ tick'.pc = "advance" => /\ Cardinality(PoolHolders(runs', p)) <= tick'.pool[p]
                                        /\ tick'.pool[p] <= PoolSlots[p]
  <2>1. /\ Cardinality(PoolHolders(runs, p)) <= PoolSlots[p]
        /\ tick.pc = "advance" => /\ Cardinality(PoolHolders(runs, p)) <= tick.pool[p]
                                  /\ tick.pool[p] <= PoolSlots[p]
    BY Zenon, <1>3 DEF SlotInv, Clean
  <2> QED
    BY <1>1, <2>1
<1>4. ASSUME NEW d \in Dags, MaxActiveTasks[d] > 0
      PROVE  /\ Cardinality(DagHolders(runs', d)) <= MaxActiveTasks[d]
             /\ tick'.pc = "advance" => /\ Cardinality(DagHolders(runs', d)) <= tick'.tasks[d]
                                        /\ tick'.tasks[d] <= MaxActiveTasks[d]
  <2>1. /\ Cardinality(DagHolders(runs, d)) <= MaxActiveTasks[d]
        /\ tick.pc = "advance" => /\ Cardinality(DagHolders(runs, d)) <= tick.tasks[d]
                                  /\ tick.tasks[d] <= MaxActiveTasks[d]
    BY Zenon, <1>4 DEF SlotInv, Clean
  <2> QED
    BY <1>2, <2>1
<1> QED
  BY Zenon, <1>3, <1>4 DEF SlotInv, PoolHolders, DagHolders, Holders, Held, Active

\* A new run holds nothing.
LEMMA AppendHolds ==
  ASSUME TicksInv, SlotInv, Clean, NEW d \in Dags, NEW slot \in 1..now,
         NEW type \in {"scheduled", "manual"}, runs' = Append(runs, NewRun(d, slot, type))
  PROVE  /\ \A p \in Pools : PoolHolders(runs', p) \subseteq PoolHolders(runs, p)
         /\ \A e \in Dags : DagHolders(runs', e) \subseteq DagHolders(runs, e)
         /\ \A i \in DOMAIN runs' : Active(runs'[i]) \/ Held(runs'[i]) = {}
<1>1. /\ DOMAIN runs' = DOMAIN runs \cup {Len(runs) + 1}
      /\ runs'[Len(runs) + 1] = NewRun(d, slot, type)
      /\ \A j \in DOMAIN runs : runs'[j] = runs[j]
  BY Zenon, RunAppended
<1>2. Held(NewRun(d, slot, type)) = {}
  BY DEF Held, NewRun
<1>3. \A i \in DOMAIN runs' : Active(runs'[i]) \/ Held(runs'[i]) = {}
  BY <1>1, <1>2 DEF SlotInv, Clean
<1>4. ASSUME NEW y \in Holders(runs')
      PROVE  y \in Holders(runs) /\ runs'[y[1]] = runs[y[1]]
  <2> PICK j \in DOMAIN runs' : \E t \in Held(runs'[j]) : y = <<j, t>>
    BY DEF Holders
  <2>1. PICK t \in Held(runs'[j]) : y = <<j, t>>
    OBVIOUS
  <2>2. j \in DOMAIN runs /\ runs'[j] = runs[j]
    BY <1>1, <1>2
  <2> QED
    BY <2>1, <2>2, HoldersMember
<1> QED
  BY Zenon, <1>3, <1>4 DEF PoolHolders, DagHolders

\* Between two ticks the listing of the active runs shows all that hold a slot.
LEMMA ListingCounts ==
  ASSUME TicksInv, SlotInv, Clean
  PROVE  LET listed == ListActive(runs) IN
         /\ \A p \in Pools : PoolHolders(listed, p) = PoolHolders(runs, p)
         /\ \A d \in Dags : DagHolders(listed, d) = DagHolders(runs, d)
<1> DEFINE listed == ListActive(runs)
<1>1. /\ \A i \in DOMAIN listed : i \in DOMAIN runs /\ listed[i] = runs[i]
      /\ \A i \in DOMAIN runs : i \in DOMAIN listed \/ Held(runs[i]) = {}
  BY Zenon DEF ListActive, SlotInv, Clean
<1> HIDE DEF listed
<1>2. ASSUME NEW y \in Holders(listed)
      PROVE  y \in Holders(runs) /\ listed[y[1]] = runs[y[1]]
  <2> PICK j \in DOMAIN listed : \E t \in Held(listed[j]) : y = <<j, t>>
    BY HoldersMember
  <2>1. PICK t \in Held(listed[j]) : y = <<j, t>>
    OBVIOUS
  <2> QED
    BY <1>1, <2>1, HoldersMember
<1>3. ASSUME NEW y \in Holders(runs)
      PROVE  y \in Holders(listed) /\ listed[y[1]] = runs[y[1]]
  <2> PICK j \in DOMAIN runs : \E t \in Held(runs[j]) : y = <<j, t>>
    BY HoldersMember
  <2>1. PICK t \in Held(runs[j]) : y = <<j, t>>
    OBVIOUS
  <2>2. j \in DOMAIN listed /\ listed[j] = runs[j]
    BY <1>1, <2>1
  <2> QED
    BY <2>1, <2>2, HoldersMember
<1> QED
  BY Zenon, <1>2, <1>3 DEF PoolHolders, DagHolders, listed

\* Advancing a run, what it is given charged, keeps the holders within the counts.
LEMMA AdvanceSlots ==
  ASSUME TicksInv, SlotInv, AdvanceRun, Clean'
  PROVE  SlotInv'
<1>1. PICK i, Q, P, x : Advanced(i, Q, P, x)
  BY AdvanceShape
<1>2. /\ i \in DOMAIN tick.listed /\ Q \in SUBSET DOMAIN tick.listed[i].ts
      /\ Promotes(tick.listed[i], Q) /\ x \in RunRecord /\ Later(runs[i], x)
      /\ Held(x) \subseteq Held(runs[i]) \cup Q
      /\ Active(runs[i]) => Active(x) \/ Held(x) = {}
      /\ runs' = [runs EXCEPT ![i] = x] /\ tick' = Charged(i, Q)
      /\ Clean /\ "mark" \notin events /\ tick.pc = "advance"
  BY Zenon, <1>1 DEF Advanced, AdvanceRun, Clean
<1> DEFINE s == tick.listed[i]
<1>3. i \in DOMAIN runs /\ s.dag = runs[i].dag /\ Active(runs[i]) /\ s \in RunRecord
  BY Zenon, <1>2, ListedRun DEF TicksInv, ListedInv
<1>4. s.dag \in Dags /\ IsFiniteSet(DOMAIN s.ts)
  BY <1>3, FS_Interval DEF RunRecord
<1>5. \A T \in SUBSET Q : IsFiniteSet(T) /\ Cardinality(T) \in Nat
  BY <1>2, <1>4, FS_Subset, FS_CardinalityType
<1>6. /\ tick'.pc = "advance"
      /\ \A d \in Dags : tick'.tasks[d] = IF d = s.dag THEN tick.tasks[d] + Cardinality(Q)
                                                       ELSE tick.tasks[d]
      /\ \A p \in Pools : tick'.pool[p] = tick.pool[p]
                            + Cardinality({t \in Q : PoolOf[s.dag][t] = p})
  BY <1>2, ChargedOK
<1>7. /\ \A p \in Pools : PoolHolders(runs', p) \subseteq
           PoolHolders(runs, p) \cup ({i} \X {t \in Q : PoolOf[s.dag][t] = p})
      /\ \A d \in Dags : DagHolders(runs', d) \subseteq
           DagHolders(runs, d) \cup ({i} \X {t \in Q : s.dag = d})
  <2>1. Gained(i, Q)
    BY Zenon, <1>2, <1>3, HoldersGain
  <2> QED
    BY Zenon, <1>3, <2>1 DEF Gained
<1>8. /\ \A p \in Pools : PoolSlots[p] > 0 /\ tick.pool[p] <= PoolSlots[p] =>
           tick.pool[p] + Cardinality({t \in Q : PoolOf[s.dag][t] = p}) <= PoolSlots[p]
      /\ MaxActiveTasks[s.dag] > 0 /\ tick.tasks[s.dag] <= MaxActiveTasks[s.dag] =>
           tick.tasks[s.dag] + Cardinality(Q) <= MaxActiveTasks[s.dag]
  BY <1>2, PromotionsFit
<1> HIDE DEF s
<1>9. ASSUME NEW p \in Pools, PoolSlots[p] > 0
      PROVE  /\ Cardinality(PoolHolders(runs', p)) <= PoolSlots[p]
             /\ Cardinality(PoolHolders(runs', p)) <= tick'.pool[p] /\ tick'.pool[p] <= PoolSlots[p]
  <2> DEFINE R == {t \in Q : PoolOf[s.dag][t] = p}
  <2>1. R \in SUBSET Q
    OBVIOUS
  <2>2. /\ tick'.pool[p] = tick.pool[p] + Cardinality(R)
        /\ PoolHolders(runs', p) \in SUBSET (PoolHolders(runs, p) \cup ({i} \X R))
    BY <1>6, <1>7
  <2>3. /\ Cardinality(PoolHolders(runs, p)) <= tick.pool[p] /\ tick.pool[p] <= PoolSlots[p]
    BY Zenon, <1>2, <1>9 DEF SlotInv, Clean
  <2>4. tick.pool[p] + Cardinality(R) <= PoolSlots[p]
    BY <1>8, <1>9, <2>3
  <2> HIDE DEF R
  <2>5. /\ Cardinality(PoolHolders(runs, p)) \in Nat /\ Cardinality(R) \in Nat
        /\ Cardinality(PoolHolders(runs', p)) \in Nat
        /\ Cardinality(PoolHolders(runs', p)) <= Cardinality(PoolHolders(runs, p)) + Cardinality(R)
    BY <1>5, <2>1, <2>2, FiniteSlots, CountGains
  <2>6. tick.pool[p] \in Nat /\ PoolSlots[p] \in Nat
    BY Zenon, TicksAssumption DEF TicksInv, TicksTypeOK
  <2> QED
    BY <2>2, <2>3, <2>4, <2>5, <2>6
<1>10. ASSUME NEW d \in Dags, MaxActiveTasks[d] > 0
       PROVE  /\ Cardinality(DagHolders(runs', d)) <= MaxActiveTasks[d]
              /\ Cardinality(DagHolders(runs', d)) <= tick'.tasks[d]
              /\ tick'.tasks[d] <= MaxActiveTasks[d]
  <2> DEFINE R == {t \in Q : s.dag = d}
  <2>1. R \in SUBSET Q /\ (d = s.dag => R = Q) /\ (d # s.dag => R = {})
    OBVIOUS
  <2>2. DagHolders(runs', d) \in SUBSET (DagHolders(runs, d) \cup ({i} \X R))
    BY <1>7
  <2>3. Cardinality(DagHolders(runs, d)) <= tick.tasks[d] /\ tick.tasks[d] <= MaxActiveTasks[d]
    BY <1>2, <1>10 DEF SlotInv, Clean
  <2> HIDE DEF R
  <2>4. /\ Cardinality(DagHolders(runs, d)) \in Nat /\ Cardinality(R) \in Nat
        /\ Cardinality(DagHolders(runs', d)) \in Nat
        /\ Cardinality(DagHolders(runs', d)) <= Cardinality(DagHolders(runs, d)) + Cardinality(R)
    BY <1>5, <2>1, <2>2, FiniteSlots, CountGains
  <2>5. tick.tasks[d] \in Nat /\ MaxActiveTasks[d] \in Nat
    BY Zenon, TicksAssumption DEF TicksInv, TicksTypeOK
  <2>6. tick'.tasks[d] = tick.tasks[d] + Cardinality(R) /\ tick'.tasks[d] <= MaxActiveTasks[d]
    <3>1. CASE d = s.dag
      BY <1>6, <1>8, <1>10, <2>1, <2>3, <3>1
    <3>2. CASE d # s.dag
      BY <1>6, <2>1, <2>3, <2>5, <3>2, FS_EmptySet
    <3> QED
      BY <3>1, <3>2
  <2> QED
    BY <2>3, <2>4, <2>5, <2>6
<1>11. \A j \in DOMAIN runs' : Active(runs'[j]) \/ Held(runs'[j]) = {}
  <2>1. DOMAIN runs' = DOMAIN runs /\ \A j \in DOMAIN runs : runs'[j] = IF j = i THEN x ELSE runs[j]
    BY <1>2
  <2>2. \A j \in DOMAIN runs : Active(runs[j]) \/ Held(runs[j]) = {}
    BY Zenon, <1>2 DEF SlotInv, Clean
  <2> QED
    BY <1>2, <1>3, <2>1, <2>2
<1> QED
  BY <1>9, <1>10, <1>11 DEF SlotInv, PoolHolders, DagHolders, Holders, Held, Active

\* Every step keeps the holders within the caps.
LEMMA SlotStep ==
  ASSUME TicksInv, SlotInv, Next
  PROVE  SlotInv'
<1> SUFFICES ASSUME Clean'
             PROVE  SlotInv'
  BY Zenon DEF SlotInv, Clean
<1>1. Clean
  BY EventsGrow DEF Clean
<1>2. \A i \in DOMAIN runs : Active(runs[i]) \/ Held(runs[i]) = {}
  BY Zenon, <1>1 DEF SlotInv, Clean
<1>3. CASE runs' = runs /\ (tick' = tick \/ tick'.pc # "advance")
  BY <1>1, <1>2, <1>3, SlotsShrink
<1>4. CASE TickReads
  <2> DEFINE listed == ListActive(runs)
  <2>1. /\ runs' = runs
        /\ \A p \in Pools : tick'.pool[p] = Cardinality(PoolHolders(runs, p))
        /\ \A d \in Dags : tick'.tasks[d] = Cardinality(DagHolders(runs, d))
    <3>1. /\ tick'.pool = [p \in Pools |-> Cardinality(PoolHolders(listed, p))]
          /\ tick'.tasks = [d \in Dags |-> Cardinality(DagHolders(listed, d))]
      BY <1>4 DEF TickReads, Idle
    <3> QED
      BY <1>1, <1>4, <3>1, ListingCounts DEF TickReads
  <2>2. /\ \A p \in Pools : Cardinality(PoolHolders(runs, p)) \in Nat
        /\ \A d \in Dags : Cardinality(DagHolders(runs, d)) \in Nat
    BY FiniteSlots, FS_CardinalityType
  <2>3. /\ \A p \in Pools : PoolSlots[p] > 0 => Cardinality(PoolHolders(runs, p)) <= PoolSlots[p]
        /\ \A d \in Dags : MaxActiveTasks[d] > 0 =>
             Cardinality(DagHolders(runs, d)) <= MaxActiveTasks[d]
    BY Zenon, <1>1 DEF SlotInv, Clean
  <2>4. /\ \A p \in Pools : PoolHolders(runs', p) = PoolHolders(runs, p)
        /\ \A d \in Dags : DagHolders(runs', d) = DagHolders(runs, d)
    BY <2>1
  <2>5. /\ \A p \in Pools : tick'.pool[p] \in Nat /\ tick'.pool[p] <= tick'.pool[p]
        /\ \A d \in Dags : tick'.tasks[d] \in Nat /\ tick'.tasks[d] <= tick'.tasks[d]
    BY <2>1, <2>2
  <2>6. ASSUME NEW p \in Pools, PoolSlots[p] > 0
        PROVE  /\ Cardinality(PoolHolders(runs', p)) <= PoolSlots[p]
               /\ Cardinality(PoolHolders(runs', p)) <= tick'.pool[p]
               /\ tick'.pool[p] <= PoolSlots[p]
    BY Zenon, <2>1, <2>3, <2>4, <2>5, <2>6
  <2>7. ASSUME NEW d \in Dags, MaxActiveTasks[d] > 0
        PROVE  /\ Cardinality(DagHolders(runs', d)) <= MaxActiveTasks[d]
               /\ Cardinality(DagHolders(runs', d)) <= tick'.tasks[d]
               /\ tick'.tasks[d] <= MaxActiveTasks[d]
    BY Zenon, <2>1, <2>3, <2>4, <2>5, <2>7
  <2> QED
    BY <1>2, <2>1, <2>6, <2>7 DEF SlotInv, PoolHolders, DagHolders, Holders, Held, Active
<1>5. CASE AdvanceRun
  BY <1>5, AdvanceSlots
<1>6. CASE ListDue \/ TickAbandoned
  <2>1. tick'.pc # "advance" /\ runs' = runs
    BY <1>6, NextPhase DEF ListDue, TickAbandoned
  <2> QED
    BY <1>3, <2>1
<1>7. CASE CreateDueRun
  <2>1. tick'.pc # "advance"
    BY <1>7, NextPhase
  <2> PICK d \in Dags : \E slot \in tick.due[d] : CreateRun(d, slot)
    BY <1>7, CreateShape
  <2>2. PICK slot \in tick.due[d] : CreateRun(d, slot)
    OBVIOUS
  <2>3. slot \in 1..now
    BY Zenon DEF TicksInv, TicksTypeOK
  <2>4. runs' = runs \/ runs' = Append(runs, NewRun(d, slot, "scheduled"))
    BY Zenon, <2>2 DEF CreateRun, InsertScheduled
  <2> QED
    BY <1>1, <1>3, <2>1, <2>3, <2>4, AppendHolds, SlotsShrink
<1>8. CASE ClockAdvances \/ \E d \in Dags : TriggerChecks(d)
  BY <1>3, <1>8 DEF ClockAdvances, TriggerChecks
<1>9. CASE TriggerInserts
  <2>1. PICK slot \in 1..now : runs' = Append(runs, NewRun(trig, slot, "manual"))
    BY <1>9 DEF TriggerInserts
  <2>2. trig \in Dags /\ tick' = tick
    BY Zenon, <1>9 DEF TriggerInserts, TicksInv, TicksTypeOK
  <2> QED
    BY <1>1, <2>1, <2>2, AppendHolds, SlotsShrink
<1>10. ASSUME NEW i \in DOMAIN runs,
              MarkRun(i) \/ \E t \in DOMAIN runs[i].ts : TaskEnds(i, t) \/ TaskLost(i, t)
       PROVE  SlotInv'
  <2>1. PICK x : Worked(i, x)
    BY <1>10, WorkShape
  <2>2. /\ Later(runs[i], x) /\ runs' = [runs EXCEPT ![i] = x] /\ tick' = tick
        /\ Held(x) \subseteq Held(runs[i]) \cup {} /\ x.state = runs[i].state
    BY <2>1 DEF Worked, Clean
  <2>3. /\ \A p \in Pools : PoolHolders(runs', p) \subseteq PoolHolders(runs, p)
        /\ \A d \in Dags : DagHolders(runs', d) \subseteq DagHolders(runs, d)
    <3>1. Gained(i, {})
      BY Zenon, <2>2, HoldersGain
    <3> QED
      BY <3>1 DEF Gained
  <2>4. \A j \in DOMAIN runs' : Active(runs'[j]) \/ Held(runs'[j]) = {}
    BY <1>2, <2>2 DEF Active
  <2> QED
    BY Zenon, <1>1, <2>2, <2>3, <2>4, SlotsShrink
<1> QED
  BY <1>4, <1>5, <1>6, <1>7, <1>8, <1>9, <1>10 DEF Next, Step, Outside

-----------------------------------------------------------------------------
(* The runs of a DAG.                                                        *)

ActiveOf(rs, d) == {i \in RunsOf(rs, d) : Active(rs[i])}

\* The active runs of d are within its cap, and within what the tick counts.
CapOK(d) ==
  /\ Cardinality(ActiveOf(runs, d)) <= MaxActiveRuns[d]
  /\ tick.pc # "idle" => /\ Cardinality(Counted(d)) <= tick.activeRuns[d] + tick.created[d]
                         /\ tick.activeRuns[d] + tick.created[d] <= MaxActiveRuns[d]
  /\ trig = d => Cardinality(ActiveOf(runs, d)) < MaxActiveRuns[d]

Unmixed == ~({"mark", "trigger"} \subseteq events)

LEMMA RunsInvCaps ==
  RunsInv <=> /\ trig # NoDag => "trigger" \in events
              /\ Unmixed => \A d \in Dags : Capped(d) => CapOK(d)
BY DEF RunsInv, CapOK, ActiveRunCount, ActiveOf, Unmixed

\* The numbers that the caps on runs compare.
LEMMA CapNumbers ==
  ASSUME TicksInv, Next, NEW d \in Dags
  PROVE  /\ Cardinality(ActiveOf(runs, d)) \in Nat /\ IsFiniteSet(ActiveOf(runs, d))
         /\ Cardinality(Counted(d)) \in Nat /\ IsFiniteSet(Counted(d))
         /\ Cardinality(ActiveOf(runs', d)) \in Nat /\ IsFiniteSet(ActiveOf(runs', d))
         /\ Cardinality(Counted(d)') \in Nat /\ IsFiniteSet(Counted(d)')
         /\ MaxActiveRuns[d] \in Nat
         /\ tick.activeRuns[d] \in Nat /\ tick.created[d] \in Nat
         /\ tick'.activeRuns[d] \in Nat /\ tick'.created[d] \in Nat
<1>1. runs' \in Seq(RunRecord') /\ TicksTypeOK'
  BY RunsKept, TypeStep
<1>2. \A D \in SUBSET DOMAIN runs' : IsFiniteSet(D) /\ Cardinality(D) \in Nat
  <2>1. IsFiniteSet(DOMAIN runs')
    BY <1>1, FS_Interval
  <2> QED
    BY <2>1, FS_Subset, FS_CardinalityType
<1>3. \A D \in SUBSET DOMAIN runs : IsFiniteSet(D) /\ Cardinality(D) \in Nat
  BY FiniteRuns
<1>4. /\ ActiveOf(runs, d) \in SUBSET DOMAIN runs /\ Counted(d) \in SUBSET DOMAIN runs
      /\ ActiveOf(runs', d) \in SUBSET DOMAIN runs' /\ Counted(d)' \in SUBSET DOMAIN runs'
  BY DEF ActiveOf, Counted, RunsOf
<1>5. /\ MaxActiveRuns[d] \in Nat
      /\ tick.activeRuns[d] \in Nat /\ tick.created[d] \in Nat
      /\ tick'.activeRuns[d] \in Nat /\ tick'.created[d] \in Nat
  BY Zenon, <1>1, TicksAssumption DEF TicksInv, TicksTypeOK
<1> QED
  BY Zenon, <1>2, <1>3, <1>4, <1>5

\* Counts that only become smaller, under a tick that counts the same.
LEMMA CapStays ==
  ASSUME TicksInv, Next, NEW d \in Dags, CapOK(d),
         ActiveOf(runs', d) \subseteq ActiveOf(runs, d),
         tick'.pc # "idle" =>
           /\ tick.pc # "idle" /\ Counted(d)' \subseteq Counted(d)
           /\ tick'.activeRuns[d] + tick'.created[d] = tick.activeRuns[d] + tick.created[d],
         trig' = d => trig = d
  PROVE  CapOK(d)'
<1>1. /\ Cardinality(ActiveOf(runs', d)) <= Cardinality(ActiveOf(runs, d))
      /\ Cardinality(ActiveOf(runs, d)) \in Nat /\ Cardinality(ActiveOf(runs', d)) \in Nat
  BY CapNumbers, FS_Subset
<1>2. tick'.pc # "idle" => Cardinality(Counted(d)') <= Cardinality(Counted(d))
  BY Zenon, CapNumbers, FS_Subset
<1>3. /\ Cardinality(ActiveOf(runs', d)) <= MaxActiveRuns[d]
      /\ trig' = d => Cardinality(ActiveOf(runs', d)) < MaxActiveRuns[d]
  BY <1>1, CapNumbers DEF CapOK
<1>4. tick'.pc # "idle" =>
        /\ Cardinality(Counted(d)') <= tick'.activeRuns[d] + tick'.created[d]
        /\ tick'.activeRuns[d] + tick'.created[d] <= MaxActiveRuns[d]
  <2> SUFFICES ASSUME tick'.pc # "idle"
               PROVE  /\ Cardinality(Counted(d)') <= tick'.activeRuns[d] + tick'.created[d]
                      /\ tick'.activeRuns[d] + tick'.created[d] <= MaxActiveRuns[d]
    BY Zenon
  <2>1. /\ Cardinality(Counted(d)) <= tick.activeRuns[d] + tick.created[d]
        /\ tick.activeRuns[d] + tick.created[d] <= MaxActiveRuns[d]
    BY Zenon DEF CapOK
  <2> QED
    BY <1>2, <2>1, CapNumbers
<1> QED
  BY Zenon, <1>3, <1>4 DEF CapOK, ActiveOf, RunsOf, Active

\* With nothing listed, the runs counted are the active ones.
LEMMA CountedActive ==
  /\ \A d \in Dags : DOMAIN tick.listed = {} => Counted(d) = ActiveOf(runs, d)
  /\ \A d \in Dags : DOMAIN tick'.listed = {} => Counted(d)' = ActiveOf(runs', d)
BY DEF Counted, ActiveOf, RunsOf, Active

LEMMA AddOne ==
  ASSUME NEW A, IsFiniteSet(A), NEW x, NEW B \in SUBSET (A \cup {x})
  PROVE  Cardinality(B) <= Cardinality(A) + 1
<1>1. IsFiniteSet(A \cup {x})
  BY Zenon, FS_AddElement
<1>2. Cardinality(A \cup {x}) = IF x \in A THEN Cardinality(A) ELSE Cardinality(A) + 1
  BY Zenon, FS_AddElement
<1>3. Cardinality(B) <= Cardinality(A \cup {x}) /\ IsFiniteSet(B)
  BY Zenon, <1>1, FS_Subset
<1>4. Cardinality(A) \in Nat /\ Cardinality(B) \in Nat
  BY Zenon, <1>3, FS_CardinalityType
<1> QED
  BY <1>2, <1>3, <1>4

\* A new run of d adds one to the active runs of d and none to those of another.
LEMMA AppendCounts ==
  ASSUME TicksInv, NEW d \in Dags, NEW slot \in 1..now, NEW type \in {"scheduled", "manual"},
         runs' = Append(runs, NewRun(d, slot, type))
  PROVE  /\ ActiveOf(runs', d) \subseteq ActiveOf(runs, d) \cup {Len(runs) + 1}
         /\ \A e \in Dags \ {d} : ActiveOf(runs', e) \subseteq ActiveOf(runs, e)
<1>1. /\ DOMAIN runs' = DOMAIN runs \cup {Len(runs) + 1}
      /\ runs'[Len(runs) + 1] = NewRun(d, slot, type)
      /\ \A j \in DOMAIN runs : runs'[j] = runs[j]
  BY Zenon, RunAppended
<1>2. NewRun(d, slot, type).dag = d
  BY DEF NewRun
<1> QED
  BY Zenon, <1>1, <1>2 DEF ActiveOf, RunsOf

\* Advancing a run makes none active that was not counted.
LEMMA AdvanceCaps ==
  ASSUME TicksInv, Next, AdvanceRun, NEW d \in Dags, CapOK(d),
         trig # NoDag => "mark" \notin events
  PROVE  CapOK(d)'
<1>1. PICK i, Q, P, x : Advanced(i, Q, P, x)
  BY AdvanceShape
<1>2. /\ tick.pc = "advance" /\ i \in DOMAIN tick.listed /\ P \in SUBSET DOMAIN tick.listed[i].ts
      /\ tick' = Charged(i, P) /\ runs' = [runs EXCEPT ![i] = x] /\ Later(runs[i], x)
      /\ trig' = trig
  BY Zenon, <1>1 DEF Advanced, AdvanceRun
<1>3. /\ tick'.pc = "advance" /\ DOMAIN tick'.listed = DOMAIN tick.listed \ {i}
      /\ tick'.activeRuns = tick.activeRuns /\ tick'.created = tick.created
  BY <1>2, ChargedOK
<1>4. /\ DOMAIN runs' = DOMAIN runs /\ i \in DOMAIN runs
      /\ \A j \in DOMAIN runs : runs'[j] = IF j = i THEN x ELSE runs[j]
      /\ \A j \in DOMAIN runs : runs'[j].dag = runs[j].dag
  BY Zenon, <1>2, ListedRun DEF Later
<1>5. Counted(d)' \subseteq Counted(d) /\ ActiveOf(runs', d) \subseteq Counted(d)
  BY <1>2, <1>3, <1>4 DEF Counted, ActiveOf, RunsOf, Active
<1>6. trig' = d => ActiveOf(runs', d) \subseteq ActiveOf(runs, d)
  <2> SUFFICES ASSUME trig' = d
               PROVE  ActiveOf(runs', d) \subseteq ActiveOf(runs, d)
    OBVIOUS
  <2>1. Active(runs[i])
    BY <1>2, TicksAssumption DEF TicksInv, ListedInv
  <2> QED
    BY <1>4, <2>1 DEF ActiveOf, RunsOf
<1>7. CASE trig' = d
  BY Zenon, <1>2, <1>3, <1>5, <1>6, <1>7, CapStays
<1>8. CASE trig' # d
  <2>1. /\ Cardinality(ActiveOf(runs', d)) <= Cardinality(Counted(d))
        /\ Cardinality(Counted(d)') <= Cardinality(Counted(d))
    BY Zenon, <1>5, CapNumbers, FS_Subset
  <2>2. /\ Cardinality(Counted(d)) <= tick.activeRuns[d] + tick.created[d]
        /\ tick.activeRuns[d] + tick.created[d] <= MaxActiveRuns[d]
    BY Zenon, <1>2 DEF CapOK
  <2>3. /\ Cardinality(ActiveOf(runs', d)) <= MaxActiveRuns[d]
        /\ Cardinality(Counted(d)') <= tick'.activeRuns[d] + tick'.created[d]
        /\ tick'.activeRuns[d] + tick'.created[d] <= MaxActiveRuns[d]
    BY <1>3, <2>1, <2>2, CapNumbers
  <2> QED
    BY Zenon, <1>8, <2>3 DEF CapOK, ActiveOf, RunsOf, Active
<1> QED
  BY <1>7, <1>8

\* Creating a due run counts it, under the headroom that was checked.
LEMMA CreateCaps ==
  ASSUME TicksInv, Next, CreateDueRun, NEW e \in Dags, CapOK(e), Capped(e)'
  PROVE  CapOK(e)'
<1> PICK d \in Dags : \E slot \in tick.due[d] : CreateRun(d, slot)
  BY CreateShape
<1>1. PICK slot \in tick.due[d] : CreateRun(d, slot)
  OBVIOUS
<1>0. PICK tk : Created(d, slot, tk)
  BY <1>1, CreatedShape
<1>2. /\ tick' = Creating(tk) /\ DOMAIN tk.listed = {}
      /\ tk.pc = "create" /\ tk.activeRuns = tick.activeRuns
      /\ \A f \in Dags \ {d} : tk.created[f] = tick.created[f]
      /\ \/ tk.created = tick.created /\ UNCHANGED <<runs, raced>>
         \/ /\ tk.created[d] = tick.created[d] + 1
            /\ Schedule[d] = "once" \/ hasHeadroom(d)
            /\ \/ /\ InsertScheduled(d, slot)
                  /\ raced' = IF trig = d THEN raced \cup {d} ELSE raced
               \/ UNCHANGED <<runs, raced>>
  BY Zenon, <1>0 DEF Created
<1>3. tick' = tk \/ tick'.pc = "idle"
  BY Zenon, <1>2 DEF Creating, Idle
<1>4. /\ DOMAIN tick.listed = {} /\ DOMAIN tick'.listed = {} /\ tick.pc = "create" /\ trig' = trig
  BY Zenon, NextPhase DEF CreateDueRun, TicksInv, Phases
<1>5. Counted(e) = ActiveOf(runs, e) /\ Counted(e)' = ActiveOf(runs', e)
  BY <1>4, CountedActive
<1>6. runs' = runs \/ runs' = Append(runs, NewRun(d, slot, "scheduled"))
  BY Zenon, <1>2 DEF InsertScheduled
<1>7. slot \in 1..now
  BY Zenon DEF TicksInv, TicksTypeOK
<1>8. CASE e # d
  <2>1. ActiveOf(runs', e) \subseteq ActiveOf(runs, e)
    BY <1>6, <1>7, <1>8, AppendCounts
  <2>2. tk.created[e] = tick.created[e]
    BY Zenon, <1>2, <1>8
  <2>3. tick'.pc # "idle" =>
          tick'.activeRuns[e] + tick'.created[e] = tick.activeRuns[e] + tick.created[e]
    BY <1>2, <1>3, <2>2
  <2> QED
    BY <1>4, <1>5, <2>1, <2>3, CapStays
<1>9. CASE e = d /\ tk.created = tick.created /\ runs' = runs
  <2>1. tick'.pc # "idle" =>
          tick'.activeRuns[e] + tick'.created[e] = tick.activeRuns[e] + tick.created[e]
    BY <1>2, <1>3, <1>9
  <2> QED
    BY <1>4, <1>5, <1>9, <2>1, CapStays
<1>10. CASE /\ e = d /\ tk.created[d] = tick.created[d] + 1
            /\ Schedule[d] = "once" \/ hasHeadroom(d)
            /\ trig # d \/ runs' = runs
  <2> DEFINE n == Cardinality(ActiveOf(runs, e))
             m == Cardinality(ActiveOf(runs', e))
  <2>1. ActiveOf(runs', e) \in SUBSET (ActiveOf(runs, e) \cup {Len(runs) + 1})
    BY <1>6, <1>7, <1>10, AppendCounts
  <2>2. m <= n + 1
    BY Zenon, <2>1, CapNumbers, AddOne
  <2>3. tick.activeRuns[e] + tick.created[e] < MaxActiveRuns[e]
    BY <1>10, CapNumbers DEF Capped, hasHeadroom
  <2>4. n <= tick.activeRuns[e] + tick.created[e]
    BY Zenon, <1>4, <1>5 DEF CapOK
  <2>5. n \in Nat /\ m \in Nat
    BY Zenon, CapNumbers
  <2>6. m <= tick.activeRuns[e] + tick.created[e] + 1 /\ m <= MaxActiveRuns[e]
    <3> HIDE DEF m, n
    <3> QED
      BY <2>2, <2>3, <2>4, <2>5, CapNumbers
  <2>7. tick'.pc # "idle" => tick'.activeRuns[e] = tick.activeRuns[e]
                             /\ tick'.created[e] = tick.created[e] + 1
    BY <1>2, <1>3, <1>10
  <2>8. tick'.pc # "idle" => /\ m <= tick'.activeRuns[e] + tick'.created[e]
                             /\ tick'.activeRuns[e] + tick'.created[e] <= MaxActiveRuns[e]
    <3> HIDE DEF m, n
    <3> QED
      BY <2>3, <2>6, <2>7, CapNumbers
  <2>9. trig' = e => m < MaxActiveRuns[e]
    BY <1>4, <1>10 DEF CapOK
  <2> QED
    BY <1>5, <2>6, <2>8, <2>9 DEF CapOK, ActiveOf, RunsOf, Active
<1> QED
  BY <1>2, <1>8, <1>9, <1>10 DEF Capped

\* Every step keeps the active runs within the cap.
LEMMA RunsStep ==
  ASSUME TicksInv, RunsInv, Next
  PROVE  RunsInv'
<1>1. events \subseteq events' /\ raced \subseteq raced'
  <2>1. raced \subseteq raced'
    BY Zenon DEF Next, Step, Outside, TickReads, AdvanceRun, ListDue, CreateDueRun, CreateRun,
           TickAbandoned, ClockAdvances, MarkRun, TaskEnds, TaskLost, SetTask, TriggerChecks,
           TriggerInserts
  <2> QED
    BY <2>1, EventsGrow
<1>2. trig' # NoDag => "trigger" \in events'
  <2>1. trig # NoDag => "trigger" \in events
    BY DEF RunsInv
  <2>2. trig' = trig \/ trig' = NoDag \/ "trigger" \in events'
    BY Zenon DEF Next, Step, Outside, TickReads, AdvanceRun, ListDue, CreateDueRun,
           TickAbandoned, ClockAdvances, MarkRun, TaskEnds, TaskLost, SetTask, TriggerChecks,
           TriggerInserts, Event
  <2> QED
    BY <1>1, <2>1, <2>2
<1> SUFFICES ASSUME Unmixed', NEW d \in Dags, Capped(d)'
             PROVE  CapOK(d)'
  <2>1. Unmixed' => \A d \in Dags : Capped(d)' => CapOK(d)'
    OBVIOUS
  <2> QED
    BY Zenon, <1>2, <2>1 DEF RunsInv, CapOK, Unmixed, Capped, ActiveRunCount, ActiveOf, Counted
<1>3. CapOK(d) /\ (trig # NoDag => "mark" \notin events)
  <2>1. Unmixed /\ Capped(d)
    BY <1>1 DEF Unmixed, Capped
  <2> QED
    BY <2>1, RunsInvCaps DEF Unmixed
<1>4. CASE TickReads
  <2>1. /\ tick.pc = "idle" /\ runs' = runs /\ trig' = trig
        /\ tick'.listed = ListActive(runs) /\ tick'.created = [e \in Dags |-> 0]
        /\ tick'.activeRuns = [e \in Dags |-> ActiveRunCount(runs, e)]
    BY <1>4 DEF TickReads, Idle
  <2>2. tick'.activeRuns[d] = Cardinality(ActiveOf(runs, d)) /\ tick'.created[d] = 0
    BY <2>1 DEF ActiveRunCount, ActiveOf
  <2>3. Counted(d)' = ActiveOf(runs, d) /\ ActiveOf(runs', d) = ActiveOf(runs, d)
    BY Zenon, <2>1 DEF Counted, ActiveOf, RunsOf, ListActive, Active
  <2>4. Cardinality(ActiveOf(runs, d)) <= tick'.activeRuns[d] + tick'.created[d]
        /\ tick'.activeRuns[d] + tick'.created[d] <= MaxActiveRuns[d]
    BY <1>3, <2>2, CapNumbers DEF CapOK
  <2> QED
    BY <1>3, <2>1, <2>3, <2>4 DEF CapOK, ActiveOf, RunsOf, Active
<1>5. CASE AdvanceRun
  BY <1>3, <1>5, AdvanceCaps
<1>6. CASE ListDue
  <2>1. tick.pc = "advance" /\ DOMAIN tick.listed = {} /\ DOMAIN tick'.listed = {}
        /\ UNCHANGED <<runs, trig>>
    BY Zenon, <1>6, NextPhase DEF ListDue
  <2>2. Counted(d) = ActiveOf(runs, d) /\ Counted(d)' = ActiveOf(runs', d)
    BY <2>1, CountedActive
  <2>3. tick'.pc # "idle" => tick'.activeRuns[d] = tick.activeRuns[d] /\ tick'.created[d] = 0
    <3>1. PICK tk : tk = [Idle EXCEPT !.pc = "create", !.activeRuns = tick.activeRuns,
                                     !.due = [e \in Dags |-> SlotsDue(e)]]
      BY Zenon
    <3>2. tk.activeRuns = tick.activeRuns /\ tk.created = [e \in Dags |-> 0]
      BY <3>1 DEF Idle
    <3>3. tick' = tk \/ tick'.pc = "idle"
      BY <1>6, <3>1 DEF ListDue, Creating, Idle
    <3> QED
      BY <3>2, <3>3
  <2>4. tick.created[d] = 0
    BY <2>1 DEF TicksInv, Phases
  <2> QED
    BY <1>3, <2>1, <2>2, <2>3, <2>4, CapStays
<1>7. CASE CreateDueRun
  BY <1>3, <1>7, CreateCaps
<1>8. CASE TickAbandoned
  <2>1. tick'.pc = "idle" /\ runs' = runs /\ trig' = trig
    BY <1>8 DEF TickAbandoned, Idle
  <2> QED
    BY <1>3, <2>1, CapStays
<1>9. CASE ClockAdvances
  <2>1. UNCHANGED <<runs, tick, trig>> /\ Counted(d)' = Counted(d)
    BY <1>9 DEF ClockAdvances, Counted, RunsOf, Active
  <2> QED
    BY <1>3, <2>1, CapStays
<1>10. ASSUME NEW e \in Dags, TriggerChecks(e)
       PROVE  CapOK(d)'
  <2>1. UNCHANGED <<runs, tick>> /\ Counted(d)' = Counted(d) /\ trig' = e
    BY <1>10 DEF TriggerChecks, Counted, RunsOf, Active
  <2>2. CASE e # d
    BY <1>3, <2>1, <2>2, CapStays
  <2>3. CASE e = d
    <3>1. Cardinality(ActiveOf(runs, d)) < MaxActiveRuns[d]
      BY <1>10, <2>3, CapNumbers DEF TriggerChecks, ActiveRunCount, ActiveOf, Capped
    <3> QED
      BY <1>3, <2>1, <3>1 DEF CapOK
  <2> QED
    BY <2>2, <2>3
<1>11. CASE TriggerInserts
  <2>1. PICK slot \in 1..now : runs' = Append(runs, NewRun(trig, slot, "manual"))
    BY <1>11 DEF TriggerInserts
  <2>2. trig \in Dags /\ tick' = tick /\ trig' = NoDag /\ trig' # d
    BY <1>11, TicksAssumption DEF TriggerInserts, TicksInv, TicksTypeOK
  <2>3. CASE d # trig
    <3>1. ActiveOf(runs', d) \subseteq ActiveOf(runs, d)
      BY <2>1, <2>2, <2>3, AppendCounts
    <3>2. Counted(d)' \subseteq Counted(d)
      <4>1. /\ DOMAIN runs' = DOMAIN runs \cup {Len(runs) + 1}
            /\ runs'[Len(runs) + 1] = NewRun(trig, slot, "manual")
            /\ \A j \in DOMAIN runs : runs'[j] = runs[j]
        BY <2>1, <2>2, RunAppended
      <4>2. NewRun(trig, slot, "manual").dag = trig
        BY DEF NewRun
      <4> QED
        BY <2>2, <2>3, <4>1, <4>2 DEF Counted, RunsOf, Active
    <3> QED
      BY <1>3, <2>2, <3>1, <3>2, CapStays
  <2>4. CASE d = trig
    <3>1. tick'.pc = "idle"
      BY <1>11, <2>2, <2>4 DEF TriggerInserts, Capped
    <3>2. ActiveOf(runs', d) \in SUBSET (ActiveOf(runs, d) \cup {Len(runs) + 1})
      BY <2>1, <2>2, <2>4, AppendCounts
    <3>4. Cardinality(ActiveOf(runs', d)) <= Cardinality(ActiveOf(runs, d)) + 1
      BY Zenon, <3>2, CapNumbers, AddOne
    <3>5. Cardinality(ActiveOf(runs, d)) < MaxActiveRuns[d]
      BY <1>3, <2>4 DEF CapOK
    <3>6. Cardinality(ActiveOf(runs', d)) <= MaxActiveRuns[d]
      BY <3>4, <3>5, CapNumbers
    <3> QED
      BY <2>2, <3>1, <3>6 DEF CapOK, ActiveOf, RunsOf, Active
  <2> QED
    BY <2>3, <2>4
<1>12. ASSUME NEW i \in DOMAIN runs,
              MarkRun(i) \/ \E t \in DOMAIN runs[i].ts : TaskEnds(i, t) \/ TaskLost(i, t)
       PROVE  CapOK(d)'
  <2>1. PICK x : Worked(i, x)
    BY <1>12, WorkShape
  <2>2. /\ Later(runs[i], x) /\ runs' = [runs EXCEPT ![i] = x] /\ UNCHANGED <<tick, trig>>
        /\ Active(x) => Active(runs[i])
    BY <2>1 DEF Worked, Active
  <2>3. /\ DOMAIN runs' = DOMAIN runs
        /\ \A j \in DOMAIN runs : runs'[j].dag = runs[j].dag
                                  /\ (Active(runs'[j]) => Active(runs[j]))
    BY <2>2 DEF Later
  <2>4. ActiveOf(runs', d) \subseteq ActiveOf(runs, d) /\ Counted(d)' \subseteq Counted(d)
    BY Zenon, <2>2, <2>3 DEF ActiveOf, Counted, RunsOf, Active
  <2> QED
    BY Zenon, <1>3, <2>2, <2>4, CapStays
<1> QED
  BY <1>4, <1>5, <1>6, <1>7, <1>8, <1>9, <1>10, <1>11, <1>12 DEF Next, Step, Outside

-----------------------------------------------------------------------------
(* Catchup.                                                                  *)

\* A covered slot stays covered, and a run keeps its slot.
LEMMA CoveredStays ==
  ASSUME TicksInv, Next, NEW d
  PROVE  /\ ScheduledSlots(d) \subseteq ScheduledSlots(d)'
         /\ \A slot : Covered(d, slot) => Covered(d, slot)'
<1>1. /\ DOMAIN runs \subseteq DOMAIN runs' /\ events \subseteq events'
      /\ \A j \in DOMAIN runs : /\ runs'[j].dag = runs[j].dag /\ runs'[j].type = runs[j].type
                                /\ runs'[j].logical = runs[j].logical
  BY RunsKept, EventsGrow DEF Later
<1>2. ScheduledSlots(d) \subseteq ScheduledSlots(d)'
  BY <1>1 DEF ScheduledSlots, RunsOf
<1> QED
  BY <1>1, <1>2 DEF Covered, RunsOf

\* No run is scheduled but by createDueRuns.
LEMMA OldSlots ==
  ASSUME TicksInv, Next, ~CreateDueRun, NEW d
  PROVE  ScheduledSlots(d)' \subseteq ScheduledSlots(d)
<1>1. \A j \in DOMAIN runs : Later(runs[j], runs'[j])
  BY RunsKept
<1>2. CASE DOMAIN runs' = DOMAIN runs
  BY <1>1, <1>2 DEF ScheduledSlots, RunsOf, Later
<1>3. CASE TriggerInserts
  <2>1. PICK slot \in 1..now : runs' = Append(runs, NewRun(trig, slot, "manual"))
    BY <1>3 DEF TriggerInserts
  <2>2. trig \in Dags
    BY Zenon, <1>3 DEF TriggerInserts, TicksInv, TicksTypeOK
  <2>3. /\ DOMAIN runs' = DOMAIN runs \cup {Len(runs) + 1}
        /\ runs'[Len(runs) + 1] = NewRun(trig, slot, "manual")
        /\ \A j \in DOMAIN runs : runs'[j] = runs[j]
    BY <2>1, <2>2, RunAppended
  <2>4. NewRun(trig, slot, "manual").type = "manual"
    BY DEF NewRun
  <2> QED
    BY <2>3, <2>4 DEF ScheduledSlots, RunsOf
<1>4. CASE AdvanceRun
  <2>1. PICK i, Q, P, x : Advanced(i, Q, P, x)
    BY <1>4, AdvanceShape
  <2> QED
    BY <1>2, <2>1 DEF Advanced
<1>5. CASE TickReads \/ ListDue \/ TickAbandoned \/ ClockAdvances
           \/ (\E e \in Dags : TriggerChecks(e))
  BY <1>2, <1>5 DEF TickReads, ListDue, TickAbandoned, ClockAdvances, TriggerChecks
<1>6. ASSUME NEW i \in DOMAIN runs,
             MarkRun(i) \/ \E t \in DOMAIN runs[i].ts : TaskEnds(i, t) \/ TaskLost(i, t)
      PROVE  DOMAIN runs' = DOMAIN runs
  BY <1>6 DEF MarkRun, TaskEnds, TaskLost, SetTask
<1> QED
  BY <1>2, <1>3, <1>4, <1>5, <1>6 DEF Next, Step, Outside

\* What is before a slot that ListDue finds is due with it or covered.
LEMMA DueFollows ==
  ASSUME TicksInv, HoleInv, NEW d \in Dags, Backfills(d), NEW x \in SlotsDue(d),
         NEW slot \in StartDate[d]..(x - 1)
  PROVE  slot \in SlotsDue(d) \/ Covered(d, slot)
<1> DEFINE last == LastLogical(runs, d)
           first == FirstSlot(d, last)
           end == IF now < first + maxCatchupSlotsPerTick
                    THEN now ELSE first + maxCatchupSlotsPerTick - 1
<1>1. last = NoDate \/ (last \in 1..now /\ \E i \in RunsOf(runs, d) : runs[i].logical = last)
  BY LastLogicalIsARuns
<1>2. now \in Nat /\ StartDate[d] \in Nat /\ maxCatchupSlotsPerTick \in Nat
      /\ x \in Nat /\ slot \in Nat /\ StartDate[d] <= slot /\ slot < x
  <2>1. now \in Nat /\ StartDate[d] \in Nat /\ maxCatchupSlotsPerTick \in Nat
    BY TicksAssumption DEF TicksInv, TicksTypeOK
  <2>2. x \in 1..now
    BY DueType
  <2> QED
    BY <2>1, <2>2
<1>3. SlotsDue(d) = first..end
  BY DEF SlotsDue, dueScheduledSlots, Backfills, NoDate
<1> HIDE DEF last
<1>4. first \in Nat /\ (slot < first => last # NoDate /\ slot <= last)
  BY <1>1, <1>2 DEF FirstSlot, NoDate
<1> HIDE DEF first
<1>5. end \in Int
  BY <1>2, <1>4
<1> HIDE DEF end
<1>6. CASE first <= slot
  BY <1>2, <1>3, <1>4, <1>5, <1>6
<1>7. CASE slot < first
  <2>1. PICK i \in RunsOf(runs, d) : runs[i].logical = last /\ slot <= last /\ last \in Nat
    BY <1>1, <1>2, <1>4, <1>7
  <2>2. runs[i].type \in {"scheduled", "manual"}
    <3>1. runs[i] \in RunRecord
      BY DEF TicksInv, TicksTypeOK, RunsOf
    <3> QED
      BY <3>1 DEF RunRecord
  <2>3. CASE runs[i].type = "manual"
    BY <1>2, <2>1, <2>3 DEF Covered
  <2>4. CASE runs[i].type = "scheduled"
    <3>1. last \in ScheduledSlots(d)
      BY <2>1, <2>4 DEF ScheduledSlots
    <3>2. slot = last \/ slot \in StartDate[d]..(last - 1)
      BY <1>2, <2>1
    <3> QED
      BY <3>1, <3>2 DEF HoleInv, Covered
  <2> QED
    BY <2>2, <2>3, <2>4
<1> QED
  BY <1>2, <1>4, <1>6, <1>7

\* Every step keeps what is before a scheduled run or a due slot covered.
LEMMA HoleStep ==
  ASSUME TicksInv, HoleInv, Next
  PROVE  HoleInv'
<1> SUFFICES ASSUME NEW d \in Dags, Backfills(d)
             PROVE  /\ \A s \in ScheduledSlots(d)' :
                         \A slot \in StartDate[d]..(s - 1) : Covered(d, slot)'
                    /\ \A x \in tick'.due[d] : \A slot \in StartDate[d]..(x - 1) :
                         slot \in tick'.due[d] \/ Covered(d, slot)'
  BY Zenon DEF HoleInv, Backfills
<1>1. /\ \A s \in ScheduledSlots(d) : \A slot \in StartDate[d]..(s - 1) : Covered(d, slot)
      /\ \A x \in tick.due[d] : \A slot \in StartDate[d]..(x - 1) :
           slot \in tick.due[d] \/ Covered(d, slot)
  BY DEF HoleInv
<1>2. \A slot : Covered(d, slot) => Covered(d, slot)'
  BY CoveredStays
<1>3. CASE ~CreateDueRun
  <2>1. \A s \in ScheduledSlots(d)' : \A slot \in StartDate[d]..(s - 1) : Covered(d, slot)'
    BY Zenon, <1>1, <1>2, <1>3, OldSlots
  <2>2. tick'.due[d] = tick.due[d] \/ tick'.due[d] = {} \/ (ListDue /\ tick'.due[d] = SlotsDue(d))
    <3>1. CASE TickReads
      BY <3>1 DEF TickReads, Idle
    <3>2. CASE AdvanceRun
      <4>1. PICK i, Q, P, x : Advanced(i, Q, P, x)
        BY <3>2, AdvanceShape
      <4>2. tick.pc = "advance" /\ i \in DOMAIN tick.listed /\ tick' = Charged(i, P)
            /\ P \in SUBSET DOMAIN tick.listed[i].ts
        BY <3>2, <4>1 DEF Advanced, AdvanceRun
      <4> QED
        BY <4>2, ChargedOK
    <3>3. CASE ListDue
      <4>1. PICK tk : tk = [Idle EXCEPT !.pc = "create", !.activeRuns = tick.activeRuns,
                                       !.due = [e \in Dags |-> SlotsDue(e)]]
        BY Zenon
      <4>2. tk.due[d] = SlotsDue(d) /\ Idle.due[d] = {}
        BY <4>1 DEF Idle
      <4> QED
        BY <3>3, <4>1, <4>2 DEF ListDue, Creating
    <3>4. CASE TickAbandoned
      BY <3>4 DEF TickAbandoned, Idle
    <3>5. CASE Outside
      BY <3>5 DEF Outside, ClockAdvances, MarkRun, TaskEnds, TaskLost, SetTask, TriggerChecks,
                  TriggerInserts
    <3> QED
      BY <1>3, <3>1, <3>2, <3>3, <3>4, <3>5 DEF Next, Step
  <2>3. \A x \in tick'.due[d] : \A slot \in StartDate[d]..(x - 1) :
          slot \in tick'.due[d] \/ Covered(d, slot)'
    BY Zenon, <1>1, <1>2, <2>2, DueFollows
  <2> QED
    BY <2>1, <2>3
<1>4. CASE CreateDueRun
  <2> PICK e \in Dags : \E slot \in tick.due[e] :
                          (\A x \in tick.due[e] : slot <= x) /\ CreateRun(e, slot)
    BY <1>4, CreateShape
  <2>1. PICK new \in tick.due[e] : (\A x \in tick.due[e] : new <= x) /\ CreateRun(e, new)
    OBVIOUS
  <2>0. PICK tk : Created(e, new, tk)
    BY <2>1, CreatedShape
  <2>2. /\ tick' = Creating(tk)
        /\ \A f \in Dags \ {e} : tk.due[f] = tick.due[f]
        /\ \/ tk.due[e] = {} /\ UNCHANGED <<runs, events>>
           \/ /\ tk.due[e] = tick.due[e] \ {new}
              /\ InsertScheduled(e, new) \/ (runs' = runs /\ events' = events \cup {"create"})
    BY Zenon, <2>0 DEF Created
  <2>3. tick'.due[d] = tk.due[d] \/ tick'.due[d] = {}
    BY Zenon, <2>2 DEF Creating, Idle
  <2>4. new \in 1..now /\ tick.due[e] \subseteq Nat
    BY TicksAssumption DEF TicksInv, TicksTypeOK
  <2>5. CASE "create" \in events'
    BY Zenon, <2>5 DEF Covered
  <2>6. CASE runs' = runs /\ (tk.due[e] = {} \/ d # e)
    <3>1. ScheduledSlots(d)' = ScheduledSlots(d)
      BY <2>6 DEF ScheduledSlots, RunsOf
    <3>2. tick'.due[d] = tick.due[d] \/ tick'.due[d] = {}
      BY <2>2, <2>3, <2>6
    <3> QED
      BY Zenon, <1>1, <1>2, <3>1, <3>2
  <2>7. CASE tk.due[e] = tick.due[e] \ {new} /\ InsertScheduled(e, new)
    <3>1. /\ ScheduledSlots(e)' = ScheduledSlots(e) \cup {new}
          /\ d # e => ScheduledSlots(d)' = ScheduledSlots(d)
      <4>1. CASE runs' = runs
        BY <2>7, <4>1 DEF InsertScheduled, ScheduledSlots, RunsOf
      <4>2. CASE runs' = Append(runs, NewRun(e, new, "scheduled"))
        <5>1. /\ DOMAIN runs' = DOMAIN runs \cup {Len(runs) + 1}
              /\ runs'[Len(runs) + 1] = NewRun(e, new, "scheduled")
              /\ \A j \in DOMAIN runs : runs'[j] = runs[j]
          BY <2>4, <4>2, RunAppended
        <5>2. /\ NewRun(e, new, "scheduled").type = "scheduled"
              /\ NewRun(e, new, "scheduled").logical = new /\ NewRun(e, new, "scheduled").dag = e
          BY DEF NewRun
        <5> QED
          BY <5>1, <5>2 DEF ScheduledSlots, RunsOf
      <4> QED
        BY <2>7, <4>1, <4>2 DEF InsertScheduled
    <3>2. CASE d # e
      <4>1. tick'.due[d] = tick.due[d] \/ tick'.due[d] = {}
        BY <2>2, <2>3, <3>2
      <4> QED
        BY Zenon, <1>1, <1>2, <3>1, <3>2, <4>1
    <3>3. CASE d = e
      <4>1. Covered(d, new)'
        BY <3>1, <3>3 DEF Covered
      <4>2. ASSUME NEW slot \in StartDate[d]..(new - 1)
            PROVE  Covered(d, slot)'
        <5>1. slot < new
          BY <2>4, TicksAssumption
        <5>2. slot \notin tick.due[d]
          BY <2>1, <2>4, <3>3, <5>1
        <5> QED
          BY <1>1, <1>2, <3>3, <5>2
      <4>3. \A s \in ScheduledSlots(d)' : \A slot \in StartDate[d]..(s - 1) : Covered(d, slot)'
        BY Zenon, <1>1, <1>2, <3>1, <3>3, <4>2
      <4>4. \A x \in tick'.due[d] : \A slot \in StartDate[d]..(x - 1) :
              slot \in tick'.due[d] \/ Covered(d, slot)'
        <5>1. tick'.due[d] = tick.due[d] \ {new} \/ tick'.due[d] = {}
          BY <2>3, <2>7, <3>3
        <5> QED
          BY Zenon, <1>1, <1>2, <4>1, <5>1
      <4> QED
        BY <4>3, <4>4
    <3> QED
      BY <3>2, <3>3
  <2> QED
    BY <2>2, <2>5, <2>6, <2>7
<1> QED
  BY Zenon, <1>3, <1>4

-----------------------------------------------------------------------------

LEMMA CapsInit == Init => SlotInv /\ RunsInv /\ HoleInv
<1> SUFFICES ASSUME Init PROVE SlotInv /\ RunsInv /\ HoleInv
  OBVIOUS
<1>1. DOMAIN tick.listed = {} /\ tick.pc = "idle" /\ DOMAIN runs = {}
  BY DEF Init, Idle
<1>2. \A d \in Dags : ScheduledSlots(d) = {} /\ ActiveOf(runs, d) = {} /\ tick.due[d] = {}
  BY <1>1 DEF ScheduledSlots, ActiveOf, RunsOf, Init, Idle
<1>3. (\A p \in Pools : PoolHolders(runs, p) = {}) /\ \A d \in Dags : DagHolders(runs, d) = {}
  BY <1>1 DEF PoolHolders, DagHolders, Holders
<1>4. Cardinality({}) = 0 /\ (\A p \in Pools : PoolSlots[p] \in Nat)
      /\ \A d \in Dags : MaxActiveTasks[d] \in Nat /\ MaxActiveRuns[d] \in Nat
  BY FS_EmptySet, TicksAssumption
<1>5. SlotInv
  <2>1. ASSUME NEW p \in Pools
        PROVE  Cardinality(PoolHolders(runs, p)) <= PoolSlots[p]
    <3>1. Cardinality(PoolHolders(runs, p)) = 0
      BY Zenon, <1>3, <1>4
    <3> QED
      BY <1>4, <3>1
  <2>2. ASSUME NEW d \in Dags
        PROVE  Cardinality(DagHolders(runs, d)) <= MaxActiveTasks[d]
    <3>1. Cardinality(DagHolders(runs, d)) = 0
      BY Zenon, <1>3, <1>4
    <3> QED
      BY <1>4, <3>1
  <2>3. tick.pc # "advance"
    BY <1>1
  <2> QED
    BY Zenon, <1>1, <2>1, <2>2, <2>3 DEF SlotInv
<1>6. RunsInv
  <2>1. trig = NoDag /\ \A d \in Dags : trig # d
    BY TicksAssumption DEF Init
  <2>2. ASSUME NEW d \in Dags
        PROVE  CapOK(d)
    <3>1. Cardinality(ActiveOf(runs, d)) = 0
      BY Zenon, <1>2, <1>4
    <3>2. Cardinality(ActiveOf(runs, d)) <= MaxActiveRuns[d]
      BY <1>4, <3>1
    <3> QED
      BY Zenon, <1>1, <2>1, <3>2 DEF CapOK
  <2> QED
    BY <2>1, <2>2, RunsInvCaps
<1>7. HoleInv
  BY <1>2 DEF HoleInv
<1> QED
  BY <1>5, <1>6, <1>7

LEMMA CapsStutter ==
  ASSUME UNCHANGED vars
  PROVE  /\ SlotInv => SlotInv'
         /\ RunsInv => RunsInv'
         /\ HoleInv => HoleInv'
<1>1. SlotInv => SlotInv'
  <2>1. UNCHANGED <<runs, tick, events>>
    BY Zenon DEF vars
  <2>2. /\ \A p \in Pools : PoolHolders(runs, p)' = PoolHolders(runs, p)
        /\ \A d \in Dags : DagHolders(runs, d)' = DagHolders(runs, d)
    BY <2>1 DEF PoolHolders, DagHolders, Holders, Held
  <2>3. \A i \in DOMAIN runs : Active(runs[i])' = Active(runs[i]) /\ Held(runs[i])' = Held(runs[i])
    BY Zenon, <2>1 DEF Active, Held
  <2> QED
    BY Zenon, <2>1, <2>2, <2>3 DEF SlotInv
<1>2. RunsInv => RunsInv'
  BY Zenon DEF vars, RunsInv, Capped, Counted, ActiveRunCount, RunsOf, Active
<1>3. HoleInv => HoleInv'
  BY DEF vars, HoleInv, Backfills, Covered, ScheduledSlots, RunsOf
<1> QED
  BY <1>1, <1>2, <1>3

LEMMA SlotsHold == Spec => []SlotInv
<1>1. TicksInv /\ SlotInv /\ [Next]_vars => SlotInv'
  BY SlotStep, CapsStutter
<1> QED
  BY <1>1, TicksInvInit, CapsInit, TicksInvStep, PTL DEF Spec

\* For any pools and DAGs: the tasks that hold a slot of a pool never outnumber its
\* slots, though each tick admits on counts taken with its listing and charges its
\* own admissions to them run by run (poolHasSlot, advance).
THEOREM PoolsAreBounded == Spec => []WithinPoolSlots
<1>1. SlotInv => WithinPoolSlots
  BY Zenon DEF SlotInv, WithinPoolSlots
<1> QED
  BY <1>1, SlotsHold, PTL

\* For any DAGs and any number of their runs: the tasks of a DAG that hold a slot
\* never outnumber its max_active_tasks (admissionHeadroom, admittedTasksByDAG).
THEOREM DagTasksAreBounded == Spec => []WithinDagTasks
<1>1. SlotInv => WithinDagTasks
  BY Zenon DEF SlotInv, WithinDagTasks
<1> QED
  BY <1>1, SlotsHold, PTL

\* For any caps: the active runs of a DAG stay within max_active_runs but for the
\* races that raced and events record (createDueRuns, CreateDagRun).
THEOREM RunsAreBounded == Spec => []WithinMaxActiveRuns
<1>1. TicksInv /\ RunsInv /\ [Next]_vars => RunsInv'
  BY RunsStep, CapsStutter
<1>2. RunsInv => WithinMaxActiveRuns
  BY DEF RunsInv, WithinMaxActiveRuns, Capped
<1> QED
  BY <1>1, <1>2, TicksInvInit, CapsInit, TicksInvStep, PTL DEF Spec

\* For any start date, batch size and clock: catchup leaves no slot without its run
\* but for the two causes that Covered names (dueScheduledSlots, createDueRuns).
THEOREM CatchupIsComplete == Spec => []NoSlotSkipped
<1>1. TicksInv /\ HoleInv /\ [Next]_vars => HoleInv'
  BY HoleStep, CapsStutter
<1>2. TicksInv /\ HoleInv => NoSlotSkipped
  <2> SUFFICES ASSUME TicksInv, HoleInv, NEW d \in Dags, Backfills(d),
                      NEW slot \in StartDate[d]..MaxNow, NEW s \in ScheduledSlots(d), slot < s
               PROVE  Covered(d, slot)
    BY DEF NoSlotSkipped, Backfills, Covered
  <2>1. s \in Nat
    <3>1. \A i \in DOMAIN runs : runs[i] \in RunRecord
      BY DEF TicksInv, TicksTypeOK
    <3>2. \A i \in DOMAIN runs : runs[i].logical \in Nat
      BY <3>1 DEF RunRecord
    <3> QED
      BY <3>2 DEF ScheduledSlots, RunsOf
  <2>2. slot \in StartDate[d]..(s - 1)
    BY <2>1, TicksAssumption
  <2> QED
    BY <2>2 DEF HoleInv
<1> QED
  BY <1>1, <1>2, TicksInvInit, CapsInit, TicksInvStep, PTL DEF Spec
=============================================================================
