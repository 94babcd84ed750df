---------------------------- MODULE Ticks_proofs ----------------------------
(***************************************************************************)
(* The state of a scheduler tick over many runs, for any DAGs, pools, caps *)
(* and clock: the proof of TicksTypeOK, and what the tick may rely on.     *)
(*                                                                         *)
(* A tick decides on its listing while tasks end, are lost or closed       *)
(* beside it.  ListedInv says in what a listed run may have moved on;      *)
(* the caps and the catchup, in TickCaps_proofs, rest on it.               *)
(***************************************************************************)
EXTENDS Ticks, FiniteSetTheorems, WellFoundedInduction, TLAPS

\* The fields of a tick.
TickShape ==
  tick = [pc |-> tick.pc, listed |-> tick.listed, due |-> tick.due,
          activeRuns |-> tick.activeRuns, created |-> tick.created,
          tasks |-> tick.tasks, pool |-> tick.pool]

\* Nothing is listed but while runs are advanced, nothing due but while runs are
\* created.
Phases ==
  /\ TickShape
  /\ tick.pc # "advance" => DOMAIN tick.listed = {}
  /\ tick.pc # "create" => \A d \in Dags : tick.created[d] = 0 /\ tick.due[d] = {}

\* A listed run has moved on from its listing only as far as its agents moved it.
ListedInv ==
  \A i \in DOMAIN tick.listed :
    /\ tick.listed[i].dag = runs[i].dag
    /\ DOMAIN tick.listed[i].ts = DOMAIN runs[i].ts
    /\ \A t \in DOMAIN runs[i].ts :
         tick.listed[i].ts[t] \in {"none", "scheduled", "done"} =>
           runs[i].ts[t] = tick.listed[i].ts[t]
    /\ "mark" \notin events => Active(runs[i])

TicksInv == TicksTypeOK /\ Phases /\ ListedInv

-----------------------------------------------------------------------------
(* Sequences, the greatest of a set of dates, and the sizes of finite sets.  *)

LEMMA SeqOfFunction ==
  ASSUME NEW S, NEW n \in Nat, NEW f \in [1..n -> S]
  PROVE  f \in Seq(S)
OBVIOUS

\* A set of dates up to n has a last one.
LEMMA LastExists ==
  ASSUME NEW n \in Nat, NEW L \in SUBSET (1..n), L # {}
  PROVE  \E l \in L : \A k \in L : k <= l
<1> DEFINE U == {m \in Nat : \A k \in L : k <= m}
<1>1. n \in U /\ U \subseteq Nat
  OBVIOUS
<1>2. PICK m \in U : \A y \in U : <<y, m>> \notin OpToRel(<, Nat)
  BY Zenon, <1>1, NatLessThanWellFounded, WFMin
<1>3. \A y \in U : ~(y < m)
  BY Zenon, <1>1, <1>2 DEF OpToRel
<1>4. m \in L
  <2> SUFFICES ASSUME m \notin L PROVE FALSE
    OBVIOUS
  <2>1. \A k \in L : k <= m - 1 /\ 1 <= k
    OBVIOUS
  <2>2. m - 1 \in Nat
    <3>1. PICK k : k \in L
      BY Zenon
    <3> QED
      BY <2>1, <3>1
  <2>3. m - 1 \in U
    BY <2>1, <2>2
  <2> QED
    BY <1>3, <2>3
<1> QED
  BY <1>4

\* A set in which each element has fewer than k smaller ones has at most k.
LEMMA RankBound ==
  ASSUME NEW R \in SUBSET Nat, IsFiniteSet(R), NEW k \in Nat,
         \A t \in R : Cardinality({u \in R : u < t}) < k
  PROVE  Cardinality(R) <= k
<1> DEFINE below(t) == {u \in R : u < t}
           rank == [t \in R |-> Cardinality(below(t))]
<1>1. \A t \in R : Cardinality(below(t)) \in 0..(k - 1)
  BY FS_Subset, FS_CardinalityType
<1>2. ASSUME NEW t \in R, NEW u \in R, t < u
      PROVE  Cardinality(below(t)) # Cardinality(below(u))
  <2>1. \A x \in R : x < t => x < u
    BY <1>2
  <2>2. ~(t < t)
    OBVIOUS
  <2>3. /\ below(t) \in SUBSET below(u) /\ t \in below(u) /\ t \notin below(t)
        /\ below(u) \in SUBSET R
    BY Zenon, <1>2, <2>1, <2>2
  <2>4. IsFiniteSet(below(u))
    BY <2>3, FS_Subset
  <2> QED
    BY <2>3, <2>4, FS_Subset
<1> HIDE DEF below
<1>3. rank \in Injection(R, 0..(k - 1))
  <2>1. ASSUME NEW t \in R, NEW u \in R, rank[t] = rank[u]
        PROVE  t = u
    BY <1>2, <2>1
  <2> QED
    BY <1>1, <2>1 DEF Injection, IsInjective
<1>4. Cardinality(0..(k - 1)) = k /\ IsFiniteSet(0..(k - 1))
  BY FS_Interval
<1> QED
  BY <1>3, <1>4, FS_Injection

\* The runs' tasks are finitely many.
LEMMA FiniteHolders ==
  ASSUME NEW rs, IsFiniteSet(DOMAIN rs), \A i \in DOMAIN rs : rs[i].ts \in Seq(TaskState)
  PROVE  IsFiniteSet(Holders(rs))
<1> DEFINE f == [i \in DOMAIN rs |-> {i} \X Held(rs[i])]
           T == {{i} \X Held(rs[i]) : i \in DOMAIN rs}
<1>1. IsFiniteSet(T)
  <2>1. f \in Surjection(DOMAIN rs, T)
    BY Zenon DEF Surjection
  <2> QED
    BY <2>1, FS_Surjection
<1>2. ASSUME NEW i \in DOMAIN rs
      PROVE  IsFiniteSet({i} \X Held(rs[i]))
  <2>1. Held(rs[i]) \in SUBSET (1..Len(rs[i].ts)) /\ Len(rs[i].ts) \in Nat
    BY DEF Held
  <2>2. IsFiniteSet(1..Len(rs[i].ts))
    BY <2>1, FS_Interval
  <2>3. IsFiniteSet(Held(rs[i]))
    BY <2>1, <2>2, FS_Subset
  <2> QED
    BY Zenon, <2>3, FS_Singleton, FS_Product
<1> QED
  BY Zenon, <1>1, <1>2, FS_UNION DEF Holders

-----------------------------------------------------------------------------
(* What advancing a run does to its record.                                  *)

\* x is run r later on.
Later(r, x) == x.dag = r.dag /\ x.logical = r.logical /\ x.type = r.type

LEMMA QueuedRun ==
  ASSUME NEW r \in RunRecord, NEW Q
  PROVE  LET x == Queued(r, Q) IN
         /\ x \in RunRecord /\ Later(r, x) /\ x.state = r.state
         /\ DOMAIN x.ts = DOMAIN r.ts
         /\ \A t \in DOMAIN r.ts : x.ts[t] = IF t \in Q THEN "active" ELSE r.ts[t]
<1> DEFINE f == [t \in DOMAIN r.ts |-> IF t \in Q THEN "active" ELSE r.ts[t]]
<1>1. r.ts \in Seq(TaskState) /\ DOMAIN r.ts = 1..Len(r.ts) /\ Len(r.ts) \in Nat
  BY DEF RunRecord
<1>2. f \in [1..Len(r.ts) -> TaskState]
  BY <1>1 DEF TaskState
<1>3. f \in Seq(TaskState)
  BY <1>1, <1>2, SeqOfFunction
<1> QED
  BY Zenon, <1>3 DEF RunRecord, Queued, Later

LEMMA FlushedRun ==
  ASSUME NEW r \in RunRecord, NEW s
  PROVE  LET x == Flushed(s, r) IN
         /\ x \in RunRecord /\ Later(r, x) /\ x.state = r.state
         /\ DOMAIN x.ts = DOMAIN r.ts
         /\ \A t \in DOMAIN r.ts :
              x.ts[t] = IF s.ts[t] = "none" THEN "scheduled" ELSE r.ts[t]
<1> DEFINE f == [t \in DOMAIN r.ts |-> IF s.ts[t] = "none" THEN "scheduled" ELSE r.ts[t]]
<1>1. r.ts \in Seq(TaskState) /\ DOMAIN r.ts = 1..Len(r.ts) /\ Len(r.ts) \in Nat
  BY DEF RunRecord
<1>2. f \in [1..Len(r.ts) -> TaskState]
  BY <1>1 DEF TaskState
<1>3. f \in Seq(TaskState)
  BY <1>1, <1>2, SeqOfFunction
<1> QED
  BY Zenon, <1>3 DEF RunRecord, Flushed, Later

LEMMA MaterializedRun ==
  ASSUME NEW r \in RunRecord
  PROVE  LET x == Materialize(r) IN
         x \in RunRecord /\ Later(r, x) /\ Active(x) /\ Held(x) = {}
<1> DEFINE f == [t \in DOMAIN PoolOf[r.dag] |-> "none"]
<1>1. PoolOf[r.dag] \in Seq(Pools)
  BY TicksAssumption DEF RunRecord
<1>2. f \in [1..Len(PoolOf[r.dag]) -> TaskState] /\ Len(PoolOf[r.dag]) \in Nat
  BY <1>1 DEF TaskState
<1>3. f \in Seq(TaskState)
  BY Zenon, <1>2, SeqOfFunction
<1> QED
  BY Zenon, <1>3 DEF RunRecord, Materialize, Later, Active, Held

LEMMA FinalizedRun ==
  ASSUME NEW r \in RunRecord, NEW s
  PROVE  LET x == Finalized(s, r) IN
         /\ x \in RunRecord /\ Later(r, x) /\ x.ts = r.ts
         /\ x.state = r.state \/ \A t \in DOMAIN s.ts : s.ts[t] = "done"
BY DEF RunRecord, Finalized, Later

LEMMA ListedRun ==
  ASSUME TicksInv, NEW i \in DOMAIN tick.listed
  PROVE  i \in DOMAIN runs /\ runs[i] \in RunRecord /\ tick.listed[i] \in RunRecord
BY DEF TicksInv, TicksTypeOK

\* Run i is advanced to x: the tick promoted Q and charged P.
Advanced(i, Q, P, x) ==
  /\ i \in DOMAIN tick.listed /\ Q \subseteq DOMAIN tick.listed[i].ts /\ P \subseteq Q
  /\ Promotes(tick.listed[i], Q)
  /\ x \in RunRecord /\ Later(runs[i], x)
  /\ Held(x) \subseteq Held(runs[i]) \cup Q
  /\ Active(runs[i]) => Active(x) \/ Held(x) = {}
  /\ runs' = [runs EXCEPT ![i] = x]
  /\ tick' = Charged(i, P)
  /\ events \subseteq events' /\ events' \subseteq events \cup {"refused", "run"}
  /\ P = Q \/ "run" \in events'

\* What the promotions of a plan, then its plain transitions, make of a listed run.
LEMMA PlannedRun ==
  ASSUME TicksInv, NEW i \in DOMAIN tick.listed, NEW Q, Promotes(tick.listed[i], Q),
         NEW P \in SUBSET Q
  PROVE  LET s == tick.listed[i]
             x == Flushed(s, Queued(runs[i], P))
         IN /\ x \in RunRecord /\ Later(runs[i], x) /\ x.state = runs[i].state
            /\ Held(x) \subseteq Held(runs[i]) \cup P
            /\ (\A t \in DOMAIN s.ts : s.ts[t] = "done") => Held(x) = {}
<1> DEFINE s == tick.listed[i]
           y == Queued(runs[i], P)
           x == Flushed(s, y)
<1>1. /\ runs[i] \in RunRecord /\ DOMAIN s.ts = DOMAIN runs[i].ts
      /\ \A t \in DOMAIN runs[i].ts : s.ts[t] = "done" => runs[i].ts[t] = "done"
      /\ \A t \in DOMAIN s.ts : t \in Q => s.ts[t] = "scheduled"
  <2>1. runs[i] \in RunRecord
    BY ListedRun
  <2>2. /\ DOMAIN s.ts = DOMAIN runs[i].ts
        /\ \A t \in DOMAIN runs[i].ts : s.ts[t] = "done" => runs[i].ts[t] = "done"
    BY Zenon DEF TicksInv, ListedInv
  <2>3. \A t \in DOMAIN s.ts : t \in Q => s.ts[t] = "scheduled"
    BY Zenon DEF Promotes
  <2> QED
    BY Zenon, <2>1, <2>2, <2>3
<1>2. /\ y \in RunRecord /\ Later(runs[i], y) /\ y.state = runs[i].state
      /\ DOMAIN y.ts = DOMAIN runs[i].ts
      /\ \A t \in DOMAIN runs[i].ts : y.ts[t] = IF t \in P THEN "active" ELSE runs[i].ts[t]
  BY <1>1, QueuedRun
<1> HIDE DEF y
<1>3. /\ x \in RunRecord /\ Later(y, x) /\ x.state = y.state
      /\ DOMAIN x.ts = DOMAIN y.ts
      /\ \A t \in DOMAIN y.ts : x.ts[t] = IF s.ts[t] = "none" THEN "scheduled" ELSE y.ts[t]
  BY <1>2, FlushedRun
<1> HIDE DEF x, s
<1>4. Held(x) \subseteq Held(runs[i]) \cup P
  BY Zenon, <1>2, <1>3 DEF Held
<1>5. (\A t \in DOMAIN s.ts : s.ts[t] = "done") => Held(x) = {}
  BY <1>1, <1>2, <1>3 DEF Held
<1>6. Later(runs[i], x) /\ x.state = runs[i].state
  BY Zenon, <1>2, <1>3 DEF Later
<1> QED
  BY Zenon, <1>3, <1>4, <1>5, <1>6 DEF x, y, s

\* What advancing a run does to it, whichever way it goes (Advance).
LEMMA AdvanceShape ==
  ASSUME TicksInv, AdvanceRun
  PROVE  \E i, Q, P, x : Advanced(i, Q, P, x)
<1>1. PICK i \in DOMAIN tick.listed : \E Q \in SUBSET DOMAIN tick.listed[i].ts :
                                        Advance(i, tick.listed[i], Q)
  BY Zenon DEF AdvanceRun
<1>2. PICK Q \in SUBSET DOMAIN tick.listed[i].ts : Advance(i, tick.listed[i], Q)
  BY <1>1
<1> DEFINE s == tick.listed[i]
           r == runs[i]
<1>3. /\ Promotes(s, Q) /\ Q \in SUBSET Q /\ r \in RunRecord
      /\ r.ts \in Seq(TaskState) /\ DOMAIN s.ts = DOMAIN r.ts
  <2>1. r \in RunRecord
    BY ListedRun
  <2>2. r.ts \in Seq(TaskState)
    BY <2>1 DEF RunRecord
  <2>3. DOMAIN s.ts = DOMAIN r.ts
    BY Zenon DEF TicksInv, ListedInv
  <2> QED
    BY Zenon, <1>2, <2>1, <2>2, <2>3 DEF Advance
<1>4. CASE /\ s.state = "queued" /\ s.ts = <<>>
           /\ runs' = [runs EXCEPT ![i] = Materialize(@)]
           /\ tick' = Charged(i, Q) /\ NoEvent
  <2>1. Materialize(r) \in RunRecord /\ Later(r, Materialize(r)) /\ Active(Materialize(r))
        /\ Held(Materialize(r)) = {}
    BY Zenon, <1>3, MaterializedRun
  <2>2. Advanced(i, Q, Q, Materialize(r))
    BY Zenon, <1>1, <1>2, <1>3, <1>4, <2>1 DEF Advanced, NoEvent
  <2> QED
    BY <2>2
<1>5. CASE /\ runs' = [runs EXCEPT ![i] = Finalized(s, Flushed(s, Queued(@, Q)))]
           /\ tick' = Charged(i, Q) /\ NoEvent
  <2> DEFINE y == Flushed(s, Queued(r, Q))
             x == Finalized(s, y)
  <2>1. /\ y \in RunRecord /\ Later(r, y) /\ y.state = r.state
        /\ Held(y) \subseteq Held(r) \cup Q
        /\ (\A t \in DOMAIN s.ts : s.ts[t] = "done") => Held(y) = {}
    BY Zenon, <1>3, PlannedRun
  <2> HIDE DEF y
  <2>2. /\ x \in RunRecord /\ Later(y, x) /\ x.ts = y.ts
        /\ x.state = y.state \/ \A t \in DOMAIN s.ts : s.ts[t] = "done"
    BY Zenon, <2>1, FinalizedRun
  <2> HIDE DEF x
  <2>3. Later(r, x) /\ Held(x) = Held(y) /\ (Active(r) => Active(x) \/ Held(x) = {})
    BY Zenon, <2>1, <2>2 DEF Later, Held, Active
  <2>4. runs' = [runs EXCEPT ![i] = x]
    BY <1>5 DEF x, y
  <2>5. Advanced(i, Q, Q, x)
    BY Zenon, <1>1, <1>2, <1>3, <1>5, <2>1, <2>2, <2>3, <2>4 DEF Advanced, NoEvent
  <2> QED
    BY <2>5
<1>6. CASE /\ Event("refused")
           /\ \E t \in Q : runs' = [runs EXCEPT ![i] = Flushed(s, Queued(@, Q \ {t}))]
           /\ tick' = Charged(i, Q)
  <2>1. PICK t \in Q : runs' = [runs EXCEPT ![i] = Flushed(s, Queued(@, Q \ {t}))]
    BY Zenon, <1>6
  <2> DEFINE x == Flushed(s, Queued(r, Q \ {t}))
  <2>2. /\ x \in RunRecord /\ Later(r, x) /\ x.state = r.state
        /\ Held(x) \subseteq Held(r) \cup (Q \ {t})
    BY Zenon, <1>3, PlannedRun
  <2>3. runs' = [runs EXCEPT ![i] = x]
    BY <2>1
  <2> HIDE DEF x
  <2>4. Advanced(i, Q, Q, x)
    BY Zenon, <1>1, <1>2, <1>3, <1>6, <2>2, <2>3 DEF Advanced, Event, Active
  <2> QED
    BY <2>4
<1>7. CASE /\ Event("run")
           /\ \E q \in 0..Len(s.ts) : runs' = [runs EXCEPT ![i] = Queued(@, Q \cap 1..q)]
           /\ tick' = Charged(i, {})
  <2>1. PICK q \in 0..Len(s.ts) : runs' = [runs EXCEPT ![i] = Queued(@, Q \cap 1..q)]
    BY Zenon, <1>7
  <2> DEFINE x == Queued(r, Q \cap 1..q)
  <2>2. /\ x \in RunRecord /\ Later(r, x) /\ x.state = r.state
        /\ DOMAIN x.ts = DOMAIN r.ts
        /\ \A t \in DOMAIN r.ts : x.ts[t] = IF t \in Q \cap 1..q THEN "active" ELSE r.ts[t]
    BY <1>3, QueuedRun
  <2>3. runs' = [runs EXCEPT ![i] = x]
    BY <2>1
  <2> HIDE DEF x
  <2>4. Held(x) \subseteq Held(r) \cup Q
    BY Zenon, <2>2 DEF Held
  <2>5. Advanced(i, Q, {}, x)
    BY Zenon, <1>1, <1>2, <1>3, <1>7, <2>2, <2>3, <2>4 DEF Advanced, Event, Active
  <2> QED
    BY <2>5
<1> QED
  BY Zenon, <1>2, <1>4, <1>5, <1>6, <1>7 DEF Advance

-----------------------------------------------------------------------------
(* Type correctness.                                                         *)

LEMMA FiniteRuns ==
  ASSUME TicksInv
  PROVE  /\ IsFiniteSet(DOMAIN runs)
         /\ IsFiniteSet(Holders(runs)) /\ IsFiniteSet(Holders(ListActive(runs)))
         /\ \A D \in SUBSET DOMAIN runs : IsFiniteSet(D) /\ Cardinality(D) \in Nat
<1>1. runs \in Seq(RunRecord) /\ DOMAIN runs = 1..Len(runs) /\ Len(runs) \in Nat
  BY DEF TicksInv, TicksTypeOK
<1>2. \A i \in DOMAIN runs : runs[i].ts \in Seq(TaskState)
  <2>1. \A i \in DOMAIN runs : runs[i] \in RunRecord
    BY <1>1
  <2> QED
    BY <2>1 DEF RunRecord
<1>3. IsFiniteSet(DOMAIN runs)
  BY <1>1, FS_Interval
<1>4. /\ DOMAIN ListActive(runs) \in SUBSET DOMAIN runs
      /\ \A i \in DOMAIN ListActive(runs) : ListActive(runs)[i] = runs[i]
  BY DEF ListActive
<1>5. IsFiniteSet(DOMAIN ListActive(runs))
  BY <1>3, <1>4, FS_Subset
<1>6. \A i \in DOMAIN ListActive(runs) : ListActive(runs)[i].ts \in Seq(TaskState)
  BY <1>2, <1>4
<1>7. IsFiniteSet(Holders(runs)) /\ IsFiniteSet(Holders(ListActive(runs)))
  BY <1>2, <1>3, <1>5, <1>6, FiniteHolders
<1>8. \A D \in SUBSET DOMAIN runs : IsFiniteSet(D) /\ Cardinality(D) \in Nat
  BY <1>3, FS_Subset, FS_CardinalityType
<1> QED
  BY <1>3, <1>7, <1>8

\* The newest date is the date of a run.
LEMMA LastLogicalIsARuns ==
  ASSUME TicksInv, NEW d \in Dags
  PROVE  LET last == LastLogical(runs, d) IN
         \/ last = NoDate
         \/ last \in 1..now /\ \E i \in RunsOf(runs, d) : runs[i].logical = last
<1> DEFINE L == {runs[i].logical : i \in RunsOf(runs, d)}
<1>1. now \in Nat /\ \A i \in DOMAIN runs : runs[i].logical \in 1..now
  <2>1. now \in Nat /\ \A i \in DOMAIN runs : runs[i] \in RunRecord
    BY TicksAssumption DEF TicksInv, TicksTypeOK
  <2> QED
    BY <2>1 DEF RunRecord
<1>2. L \in SUBSET (1..now)
  BY <1>1 DEF RunsOf
<1>3. L # {} => \E l \in L : \A k \in L : k <= l
  BY Zenon, <1>1, <1>2, LastExists
<1>4. L # {} => LastLogical(runs, d) \in L
  BY Zenon, <1>3 DEF LastLogical
<1>5. L = {} => LastLogical(runs, d) = NoDate
  BY DEF LastLogical
<1> QED
  BY <1>2, <1>4, <1>5

\* No slot is due before it has arrived (dueScheduledSlots, createDueRuns).
LEMMA DueType ==
  ASSUME TicksInv, NEW d \in Dags
  PROVE  SlotsDue(d) \in SUBSET (1..now)
<1> DEFINE last == LastLogical(runs, d)
<1>1. last = NoDate \/ last \in 1..now
  BY LastLogicalIsARuns
<1>2. now \in Nat \ {0} /\ StartDate[d] \in Nat /\ maxCatchupSlotsPerTick \in Nat \ {0}
      /\ Schedule[d] \in {"cron", "once", "manual"}
  BY TicksAssumption DEF TicksInv, TicksTypeOK
<1> HIDE DEF last
<1>3. ASSUME ~(last = NoDate /\ StartDate[d] = NoDate)
      PROVE  dueScheduledSlots(d, last) \in SUBSET (1..now)
  <2>1. FirstSlot(d, last) \in Nat \ {0}
    BY <1>1, <1>2, <1>3 DEF FirstSlot, NoDate
  <2> DEFINE first == FirstSlot(d, last)
             end == IF now < first + maxCatchupSlotsPerTick
                      THEN now ELSE first + maxCatchupSlotsPerTick - 1
  <2>2. end \in Int /\ end <= now
    BY <1>2, <2>1
  <2>3. first..end \in SUBSET (1..now)
    BY <1>2, <2>1, <2>2
  <2>4. dueScheduledSlots(d, last) \in SUBSET (first..end)
    BY Zenon DEF dueScheduledSlots
  <2> QED
    BY <2>3, <2>4
<1>4. now \in 1..now
  BY <1>2
<1> QED
  BY <1>2, <1>3, <1>4 DEF SlotsDue, last

LEMMA TaskSet ==
  ASSUME NEW r \in RunRecord, NEW t \in DOMAIN r.ts, NEW s \in TaskState
  PROVE  LET x == [r EXCEPT !.ts = [r.ts EXCEPT ![t] = s]] IN
         /\ x \in RunRecord /\ Later(r, x) /\ x.state = r.state
         /\ DOMAIN x.ts = DOMAIN r.ts
         /\ \A u \in DOMAIN r.ts : x.ts[u] = IF u = t THEN s ELSE r.ts[u]
<1>1. r.ts \in Seq(TaskState) /\ DOMAIN r.ts = 1..Len(r.ts) /\ Len(r.ts) \in Nat
  BY DEF RunRecord
<1>2. [r.ts EXCEPT ![t] = s] \in [1..Len(r.ts) -> TaskState]
  BY <1>1
<1>3. [r.ts EXCEPT ![t] = s] \in Seq(TaskState)
  BY <1>1, <1>2, SeqOfFunction
<1> QED
  BY Zenon, <1>1, <1>3 DEF RunRecord, Later

LEMMA RunReplaced ==
  ASSUME TicksInv, NEW i \in DOMAIN runs, NEW x \in RunRecord, Later(runs[i], x),
         runs' = [runs EXCEPT ![i] = x]
  PROVE  /\ runs' \in Seq(RunRecord) /\ DOMAIN runs' = DOMAIN runs
         /\ runs'[i] = x /\ \A j \in DOMAIN runs : j # i => runs'[j] = runs[j]
         /\ \A j \in DOMAIN runs : Later(runs[j], runs'[j])
<1>1. runs \in Seq(RunRecord) /\ DOMAIN runs = 1..Len(runs) /\ Len(runs) \in Nat
  BY DEF TicksInv, TicksTypeOK
<1>2. runs' \in [1..Len(runs) -> RunRecord]
  BY <1>1
<1>3. runs' \in Seq(RunRecord)
  BY <1>1, <1>2, SeqOfFunction
<1>4. \A j \in DOMAIN runs : Later(runs[j], runs'[j])
  BY DEF Later
<1> QED
  BY <1>3, <1>4

LEMMA RunAppended ==
  ASSUME TicksInv, NEW d \in Dags, NEW slot \in 1..now, NEW type \in {"scheduled", "manual"},
         runs' = Append(runs, NewRun(d, slot, type))
  PROVE  /\ runs' \in Seq(RunRecord) /\ DOMAIN runs' = DOMAIN runs \cup {Len(runs) + 1}
         /\ Len(runs) + 1 \notin DOMAIN runs
         /\ runs'[Len(runs) + 1] = NewRun(d, slot, type)
         /\ \A j \in DOMAIN runs : runs'[j] = runs[j]
<1>1. runs \in Seq(RunRecord) /\ DOMAIN runs = 1..Len(runs) /\ Len(runs) \in Nat
  BY DEF TicksInv, TicksTypeOK
<1>2. <<>> \in Seq(TaskState)
  OBVIOUS
<1>3. NewRun(d, slot, type) \in RunRecord
  BY <1>2 DEF NewRun, RunRecord
<1> HIDE DEF RunRecord
<1> QED
  BY <1>1, <1>3

\* createDueRuns is at the earliest slot due of some DAG.
LEMMA CreateShape ==
  ASSUME CreateDueRun
  PROVE  \E d \in Dags : \E slot \in tick.due[d] :
           (\A x \in tick.due[d] : slot <= x) /\ CreateRun(d, slot)
<1>1. \A k \in DOMAIN DagOrder : DagOrder[k] \in Dags
  BY TicksAssumption
<1> QED
  BY <1>1 DEF CreateDueRun

\* No step loses a run or changes its DAG, its date or its type.
LEMMA RunsKept ==
  ASSUME TicksInv, Next
  PROVE  /\ now' \in 1..MaxNow /\ now <= now' /\ runs' \in Seq(RunRecord')
         /\ DOMAIN runs \subseteq DOMAIN runs'
         /\ \A j \in DOMAIN runs : Later(runs[j], runs'[j])
<1> DEFINE Kept == /\ now' = now /\ runs' \in Seq(RunRecord) /\ DOMAIN runs \subseteq DOMAIN runs'
                   /\ \A j \in DOMAIN runs : Later(runs[j], runs'[j])
<1>1. now \in 1..MaxNow /\ runs \in Seq(RunRecord) /\ MaxNow \in Nat
  BY Zenon, TicksAssumption DEF TicksInv, TicksTypeOK
<1>2. \A j \in DOMAIN runs : runs[j] \in RunRecord
  BY <1>1
<1>3. CASE UNCHANGED <<now, runs>>
  BY <1>1, <1>3 DEF RunRecord, Later
<1>4. CASE ClockAdvances
  <2>1. now' \in 1..MaxNow /\ now <= now' /\ runs' = runs
    BY <1>1, <1>4 DEF ClockAdvances
  <2>2. RunRecord \subseteq RunRecord'
    BY <1>1, <2>1 DEF RunRecord
  <2>3. runs' \in Seq(RunRecord')
    BY <1>1, <2>1, <2>2
  <2> QED
    BY <2>1, <2>3 DEF Later
<1>5. Kept => now' \in 1..MaxNow /\ now <= now' /\ runs' \in Seq(RunRecord')
  BY <1>1 DEF RunRecord
<1>6. CASE AdvanceRun
  <2>1. PICK i, Q, P, x : Advanced(i, Q, P, x)
    BY <1>6, AdvanceShape
  <2>2. /\ i \in DOMAIN runs /\ x \in RunRecord /\ Later(runs[i], x)
        /\ runs' = [runs EXCEPT ![i] = x] /\ now' = now
    BY <1>6, <2>1, ListedRun DEF Advanced, AdvanceRun
  <2>3. Kept
    BY Zenon, <2>2, RunReplaced
  <2> QED
    BY <1>5, <2>3
<1>7. CASE CreateDueRun
  <2> PICK d \in Dags : \E slot \in tick.due[d] : CreateRun(d, slot)
    BY <1>7, CreateShape
  <2>1. PICK slot \in tick.due[d] : CreateRun(d, slot)
    OBVIOUS
  <2>2. slot \in 1..now /\ now' = now
    BY Zenon, <1>7, <2>1 DEF TicksInv, TicksTypeOK, CreateDueRun
  <2>3. runs' = runs \/ runs' = Append(runs, NewRun(d, slot, "scheduled"))
    BY Zenon, <2>1 DEF CreateRun, InsertScheduled
  <2>4. Kept
    BY <1>1, <2>2, <2>3, RunAppended DEF Later
  <2> QED
    BY <1>5, <2>4
<1>8. CASE TriggerInserts
  <2>1. PICK slot \in 1..now : runs' = Append(runs, NewRun(trig, slot, "manual"))
    BY <1>8 DEF TriggerInserts
  <2>2. trig \in Dags /\ now' = now
    BY Zenon, <1>8 DEF TriggerInserts, TicksInv, TicksTypeOK
  <2>3. Kept
    BY Zenon, <2>1, <2>2, RunAppended DEF Later
  <2> QED
    BY <1>5, <2>3
<1>9. ASSUME NEW i \in DOMAIN runs, NEW t \in DOMAIN runs[i].ts, TaskEnds(i, t) \/ TaskLost(i, t)
      PROVE  Kept
  <2>1. PICK s \in TaskState : SetTask(i, t, s)
    BY <1>9 DEF TaskEnds, TaskLost, TaskState
  <2> DEFINE x == [runs[i] EXCEPT !.ts = [runs[i].ts EXCEPT ![t] = s]]
  <2>2. x \in RunRecord /\ Later(runs[i], x)
    BY <1>2, TaskSet
  <2>3. runs' = [runs EXCEPT ![i] = x] /\ now' = now
    BY <2>1 DEF SetTask
  <2> HIDE DEF x
  <2> QED
    BY Zenon, <2>2, <2>3, RunReplaced
<1>10. ASSUME NEW i \in DOMAIN runs, MarkRun(i)
       PROVE  Kept
  <2> DEFINE x == [runs[i] EXCEPT !.state = "done"]
  <2>1. x \in RunRecord /\ Later(runs[i], x)
    BY Zenon, <1>2 DEF RunRecord, Later
  <2>2. runs' = [runs EXCEPT ![i] = x] /\ now' = now
    BY <1>10 DEF MarkRun
  <2> HIDE DEF x
  <2> QED
    BY Zenon, <2>1, <2>2, RunReplaced
<1>11. CASE TickReads \/ ListDue \/ TickAbandoned \/ \E d \in Dags : TriggerChecks(d)
  BY <1>3, <1>11 DEF TickReads, ListDue, TickAbandoned, TriggerChecks
<1> QED
  BY <1>4, <1>5, <1>6, <1>7, <1>8, <1>9, <1>10, <1>11 DEF Next, Step, Outside

\* A tick that is well formed.
TickOK(tk) ==
  /\ tk = [pc |-> tk.pc, listed |-> tk.listed, due |-> tk.due, activeRuns |-> tk.activeRuns,
           created |-> tk.created, tasks |-> tk.tasks, pool |-> tk.pool]
  /\ tk.pc \in {"idle", "advance", "create"}
  /\ DOMAIN tk.listed \subseteq DOMAIN runs
  /\ \A i \in DOMAIN tk.listed : tk.listed[i] \in RunRecord
  /\ tk.due \in [Dags -> SUBSET (1..now)]
  /\ tk.activeRuns \in [Dags -> Nat] /\ tk.created \in [Dags -> Nat]
  /\ tk.tasks \in [Dags -> Nat] /\ tk.pool \in [Pools -> Nat]
  /\ tk.pc # "advance" => DOMAIN tk.listed = {}
  /\ tk.pc # "create" => \A d \in Dags : tk.created[d] = 0 /\ tk.due[d] = {}

LEMMA IdleOK == TickOK(Idle)
BY DEF TickOK, Idle

LEMMA CreatingOK ==
  ASSUME NEW tk, TickOK(tk)
  PROVE  TickOK(Creating(tk))
BY IdleOK DEF Creating

LEMMA ReadTickOK ==
  ASSUME TicksInv, TickReads
  PROVE  TickOK(tick')
<1> DEFINE listed == ListActive(runs)
           actives == [d \in Dags |-> ActiveRunCount(runs, d)]
           tasks == [d \in Dags |-> Cardinality(DagHolders(listed, d))]
           pool == [p \in Pools |-> Cardinality(PoolHolders(listed, p))]
<1>1. \A d \in Dags : ActiveRunCount(runs, d) \in Nat
  BY FiniteRuns DEF ActiveRunCount, RunsOf
<1>2. \A x \in SUBSET Holders(listed) : Cardinality(x) \in Nat
  BY FiniteRuns, FS_Subset, FS_CardinalityType
<1>3. /\ \A d \in Dags : Cardinality(DagHolders(listed, d)) \in Nat
      /\ \A p \in Pools : Cardinality(PoolHolders(listed, p)) \in Nat
  BY Zenon, <1>2 DEF DagHolders, PoolHolders
<1>4. actives \in [Dags -> Nat] /\ tasks \in [Dags -> Nat] /\ pool \in [Pools -> Nat]
  BY <1>1, <1>3
<1>5. DOMAIN listed \subseteq DOMAIN runs /\ \A i \in DOMAIN listed : listed[i] \in RunRecord
  BY DEF TicksInv, TicksTypeOK, ListActive
<1>6. tick' = [pc |-> "advance", listed |-> listed, due |-> [d \in Dags |-> {}],
               activeRuns |-> actives, created |-> [d \in Dags |-> 0],
               tasks |-> tasks, pool |-> pool]
  BY Zenon DEF TickReads, Idle
<1> HIDE DEF listed, actives, tasks, pool
<1> QED
  BY Zenon, <1>4, <1>5, <1>6 DEF TickOK

\* Charging the admissions of a run keeps the counts numbers (Charged).
LEMMA ChargedOK ==
  ASSUME TicksInv, tick.pc = "advance", NEW i \in DOMAIN tick.listed,
         NEW P \in SUBSET DOMAIN tick.listed[i].ts
  PROVE  LET s == tick.listed[i]
             x == Charged(i, P)
         IN /\ TickOK(x)
            /\ x.pc = "advance" /\ x.activeRuns = tick.activeRuns
            /\ DOMAIN x.listed = DOMAIN tick.listed \ {i}
            /\ \A j \in DOMAIN x.listed : x.listed[j] = tick.listed[j]
            /\ x.due = tick.due /\ x.created = tick.created
            /\ \A d \in Dags : x.tasks[d] = IF d = s.dag THEN tick.tasks[d] + Cardinality(P)
                                                          ELSE tick.tasks[d]
            /\ \A p \in Pools : x.pool[p] = tick.pool[p]
                                  + Cardinality({t \in P : PoolOf[s.dag][t] = p})
<1> DEFINE s == tick.listed[i]
           pool == [p \in Pools |-> tick.pool[p] + Cardinality({t \in P : PoolOf[s.dag][t] = p})]
           tasks == [tick.tasks EXCEPT ![s.dag] = @ + Cardinality(P)]
<1>1. s.dag \in Dags /\ s.ts \in Seq(TaskState)
  BY Zenon, ListedRun DEF RunRecord
<1>2. IsFiniteSet(DOMAIN s.ts)
  BY <1>1, FS_Interval
<1>3. \A T \in SUBSET P : Cardinality(T) \in Nat
  BY <1>2, FS_Subset, FS_CardinalityType
<1>4. Cardinality(P) \in Nat /\ \A p \in Pools : Cardinality({t \in P : PoolOf[s.dag][t] = p}) \in Nat
  BY Zenon, <1>3
<1>5. TickShape /\ TickOK(tick)
  BY Zenon DEF TicksInv, TicksTypeOK, Phases, TickShape, TickOK
<1>6. tasks \in [Dags -> Nat] /\ pool \in [Pools -> Nat]
  <2>1. tick.tasks \in [Dags -> Nat] /\ tick.pool \in [Pools -> Nat]
    BY Zenon, <1>5 DEF TickOK
  <2>2. tick.tasks[s.dag] + Cardinality(P) \in Nat
    BY <1>1, <1>4, <2>1
  <2>3. \A p \in Pools : tick.pool[p] + Cardinality({t \in P : PoolOf[s.dag][t] = p}) \in Nat
    BY <1>4, <2>1
  <2> QED
    BY Zenon, <2>1, <2>2, <2>3
<1>7. Charged(i, P) = [pc |-> tick.pc, listed |-> Rest(i), due |-> tick.due,
                       activeRuns |-> tick.activeRuns, created |-> tick.created,
                       tasks |-> tasks, pool |-> pool]
  <2>1. Charged(i, P) = [tick EXCEPT !.listed = Rest(i), !.tasks = tasks, !.pool = pool]
    BY Zenon, <1>5 DEF TickShape, Charged
  <2> HIDE DEF tasks, pool
  <2> QED
    BY Zenon, <1>5, <2>1 DEF TickShape
<1>8. /\ DOMAIN Rest(i) = DOMAIN tick.listed \ {i}
      /\ \A j \in DOMAIN Rest(i) : Rest(i)[j] = tick.listed[j]
  BY DEF Rest
<1>9. /\ \A d \in Dags : tasks[d] = IF d = s.dag THEN tick.tasks[d] + Cardinality(P)
                                                 ELSE tick.tasks[d]
      /\ \A p \in Pools : pool[p] = tick.pool[p] + Cardinality({t \in P : PoolOf[s.dag][t] = p})
  BY Zenon, <1>5 DEF TickOK
<1> HIDE DEF s, pool, tasks
<1>10. TickOK(Charged(i, P))
  BY <1>5, <1>6, <1>7, <1>8 DEF TickOK
<1> QED
  BY <1>7, <1>8, <1>9, <1>10 DEF s

\* A step of createDueRuns that leaves the tick tk: the due slot is refused, made a
\* run, or lost to an error.
Created(d, slot, tk) ==
  /\ TickOK(tk) /\ tick' = Creating(tk)
  /\ DOMAIN tk.listed = {} /\ tk.pc = "create" /\ tk.activeRuns = tick.activeRuns
  /\ \A e \in Dags \ {d} : tk.created[e] = tick.created[e] /\ tk.due[e] = tick.due[e]
  /\ \/ /\ tk.created = tick.created /\ tk.due[d] = {}
        /\ UNCHANGED <<runs, raced, events>>
     \/ /\ tk.created[d] = tick.created[d] + 1 /\ tk.due[d] = tick.due[d] \ {slot}
        /\ Schedule[d] = "once" \/ hasHeadroom(d)
        /\ \/ /\ InsertScheduled(d, slot) /\ events' = events
              /\ raced' = IF trig = d THEN raced \cup {d} ELSE raced
           \/ UNCHANGED <<runs, raced>> /\ events' = events \cup {"create"}

\* What creating a due run leaves due and counts as created (CreateRun).
LEMMA CreatedShape ==
  ASSUME TicksInv, NEW d \in Dags, NEW slot \in tick.due[d], CreateRun(d, slot)
  PROVE  \E tk : Created(d, slot, tk)
<1> DEFINE cut == [tick EXCEPT !.due[d] = {}]
           made == [tick EXCEPT !.due[d] = @ \ {slot}, !.created[d] = @ + 1]
<1>1. TickShape /\ TickOK(tick)
  BY Zenon DEF TicksInv, TicksTypeOK, Phases, TickShape, TickOK
<1>2. /\ tick.pc = "create" /\ DOMAIN tick.listed = {}
      /\ tick.due \in [Dags -> SUBSET (1..now)] /\ tick.created \in [Dags -> Nat]
  BY Zenon, <1>1 DEF TickOK
<1>3. \E due : /\ due \in [Dags -> SUBSET (1..now)]
               /\ due[d] = {} /\ \A e \in Dags \ {d} : due[e] = tick.due[e]
               /\ cut = [tick EXCEPT !.due = due]
  BY Zenon, <1>2
<1>4. \E due, created :
         /\ due \in [Dags -> SUBSET (1..now)] /\ created \in [Dags -> Nat]
         /\ due[d] = tick.due[d] \ {slot} /\ \A e \in Dags \ {d} : due[e] = tick.due[e]
         /\ created[d] = tick.created[d] + 1 /\ \A e \in Dags \ {d} : created[e] = tick.created[e]
         /\ made = [tick EXCEPT !.due = due, !.created = created]
  <2> DEFINE due == [tick.due EXCEPT ![d] = @ \ {slot}]
             created == [tick.created EXCEPT ![d] = @ + 1]
  <2>1. due \in [Dags -> SUBSET (1..now)] /\ created \in [Dags -> Nat]
    BY <1>2
  <2>2. /\ due[d] = tick.due[d] \ {slot} /\ \A e \in Dags \ {d} : due[e] = tick.due[e]
        /\ created[d] = tick.created[d] + 1 /\ \A e \in Dags \ {d} : created[e] = tick.created[e]
    BY Zenon, <1>2
  <2>3. made = [tick EXCEPT !.due = due, !.created = created]
    BY <1>1 DEF TickShape
  <2> HIDE DEF due, created, made
  <2> QED
    BY Zenon, <2>1, <2>2, <2>3
<1>5. /\ TickOK(cut) /\ DOMAIN cut.listed = {} /\ cut.pc = "create"
      /\ cut.activeRuns = tick.activeRuns /\ cut.created = tick.created /\ cut.due[d] = {}
      /\ \A e \in Dags \ {d} : cut.due[e] = tick.due[e]
  <2>1. PICK due : /\ due \in [Dags -> SUBSET (1..now)]
                   /\ due[d] = {} /\ \A e \in Dags \ {d} : due[e] = tick.due[e]
                   /\ cut = [tick EXCEPT !.due = due]
    BY Zenon, <1>3
  <2> HIDE DEF cut
  <2> QED
    BY <1>1, <1>2, <2>1 DEF TickShape, TickOK
<1>6. /\ TickOK(made) /\ DOMAIN made.listed = {} /\ made.pc = "create"
      /\ made.activeRuns = tick.activeRuns
      /\ made.created[d] = tick.created[d] + 1 /\ made.due[d] = tick.due[d] \ {slot}
      /\ \A e \in Dags \ {d} : made.due[e] = tick.due[e] /\ made.created[e] = tick.created[e]
  <2>1. PICK due, created :
         /\ due \in [Dags -> SUBSET (1..now)] /\ created \in [Dags -> Nat]
         /\ due[d] = tick.due[d] \ {slot} /\ \A e \in Dags \ {d} : due[e] = tick.due[e]
         /\ created[d] = tick.created[d] + 1 /\ \A e \in Dags \ {d} : created[e] = tick.created[e]
         /\ made = [tick EXCEPT !.due = due, !.created = created]
    BY Zenon, <1>4
  <2> HIDE DEF made
  <2> QED
    BY Zenon, <1>1, <1>2, <2>1 DEF TickShape, TickOK
<1>7. \/ tick' = Creating(cut) /\ UNCHANGED <<runs, raced, events>>
      \/ /\ tick' = Creating(made) /\ (Schedule[d] = "once" \/ hasHeadroom(d))
         /\ \/ /\ InsertScheduled(d, slot) /\ events' = events
               /\ raced' = IF trig = d THEN raced \cup {d} ELSE raced
            \/ UNCHANGED <<runs, raced>> /\ events' = events \cup {"create"}
  BY DEF CreateRun, NoEvent, Event
<1> HIDE DEF cut, made
<1>8. Created(d, slot, cut) \/ Created(d, slot, made)
  BY Zenon, <1>5, <1>6, <1>7 DEF Created
<1> QED
  BY <1>8

LEMMA DueTickOK ==
  ASSUME NEW slots \in [Dags -> SUBSET (1..now)], NEW counts \in [Dags -> Nat]
  PROVE  TickOK([Idle EXCEPT !.pc = "create", !.activeRuns = counts, !.due = slots])
<1>1. PICK tk : tk = [Idle EXCEPT !.pc = "create", !.activeRuns = counts, !.due = slots]
  OBVIOUS
<1>2. tk = [pc |-> "create", listed |-> Idle.listed, due |-> slots, activeRuns |-> counts,
            created |-> Idle.created, tasks |-> Idle.tasks, pool |-> Idle.pool]
  BY Zenon, <1>1 DEF Idle
<1>3. Idle.pc = "idle"
  BY DEF Idle
<1>4. TickOK(tk)
  BY Zenon, <1>2, <1>3, IdleOK DEF TickOK
<1> QED
  BY <1>1, <1>4

\* Every step keeps the tick well formed.
LEMMA TickStep ==
  ASSUME TicksInv, Step
  PROVE  TickOK(tick')
<1>1. CASE TickReads
  BY <1>1, ReadTickOK
<1>2. CASE AdvanceRun
  <2>1. PICK i, Q, P, x : Advanced(i, Q, P, x)
    BY <1>2, AdvanceShape
  <2>2. tick.pc = "advance" /\ i \in DOMAIN tick.listed /\ P \in SUBSET DOMAIN tick.listed[i].ts
        /\ tick' = Charged(i, P)
    BY Zenon, <1>2, <2>1 DEF Advanced, AdvanceRun
  <2> QED
    BY Zenon, <2>2, ChargedOK
<1>3. CASE ListDue
  <2> DEFINE due == [d \in Dags |-> SlotsDue(d)]
             tk == [Idle EXCEPT !.pc = "create", !.activeRuns = tick.activeRuns, !.due = due]
  <2>1. due \in [Dags -> SUBSET (1..now)]
    BY DueType
  <2>2. tick.activeRuns \in [Dags -> Nat]
    BY DEF TicksInv, TicksTypeOK
  <2>3. tick' = Creating(tk)
    BY <1>3 DEF ListDue
  <2> HIDE DEF due
  <2>4. TickOK(tk)
    BY Zenon, <2>1, <2>2, DueTickOK
  <2> QED
    BY <2>3, <2>4, CreatingOK
<1>4. CASE CreateDueRun
  <2> PICK d \in Dags : \E slot \in tick.due[d] : CreateRun(d, slot)
    BY <1>4, CreateShape
  <2> PICK slot \in tick.due[d] : CreateRun(d, slot)
    OBVIOUS
  <2>1. PICK tk : Created(d, slot, tk)
    BY CreatedShape
  <2> QED
    BY Zenon, <2>1, CreatingOK DEF Created
<1>5. CASE TickAbandoned
  BY <1>5, IdleOK DEF TickAbandoned
<1> QED
  BY <1>1, <1>2, <1>3, <1>4, <1>5 DEF Step

\* Every step keeps the types.
LEMMA TypeStep ==
  ASSUME TicksInv, Next
  PROVE  TicksTypeOK' /\ Phases'
<1>1. /\ now' \in 1..MaxNow /\ now <= now' /\ runs' \in Seq(RunRecord')
      /\ DOMAIN runs \subseteq DOMAIN runs'
  BY RunsKept
<1>2. TickOK(tick')
  <2>1. TickOK(tick)
    BY Zenon DEF TicksInv, TicksTypeOK, Phases, TickShape, TickOK
  <2>2. CASE Outside
    <3>1. tick' = tick
      BY <2>2 DEF Outside, ClockAdvances, MarkRun, TaskEnds, TaskLost, SetTask, TriggerChecks,
                  TriggerInserts
    <3> QED
      BY <2>1, <3>1
  <2> QED
    BY <2>2, TickStep DEF Next
<1>3. TickOK(tick)'
  <2>1. now \in Nat /\ now' \in Nat /\ 1..now \subseteq 1..now'
    BY <1>1, TicksAssumption DEF TicksInv, TicksTypeOK
  <2>2. RunRecord \subseteq RunRecord'
    BY <2>1 DEF RunRecord
  <2>3. tick'.due \in [Dags -> SUBSET (1..now')]
    BY Zenon, <1>2, <2>1 DEF TickOK
  <2> QED
    BY <1>1, <1>2, <2>2, <2>3 DEF TickOK
<1>4. trig' \in Dags \cup {NoDag} /\ raced' \subseteq Dags /\ events' \subseteq EventKinds
  <2>1. /\ trig \in Dags \cup {NoDag} /\ raced \subseteq Dags /\ events \subseteq EventKinds
        /\ Events \subseteq EventKinds
    BY Zenon, TicksAssumption DEF TicksInv, TicksTypeOK
  <2>2. CASE CreateDueRun
    <3> PICK d \in Dags : \E slot \in tick.due[d] : CreateRun(d, slot)
      BY <2>2, CreateShape
    <3> QED
      BY <2>1, <2>2 DEF CreateDueRun, CreateRun, NoEvent, Event
  <2>3. CASE AdvanceRun
    BY <2>1, <2>3 DEF AdvanceRun, Advance, NoEvent, Event
  <2>4. CASE TickReads \/ ListDue \/ TickAbandoned
    BY <2>1, <2>4 DEF TickReads, ListDue, TickAbandoned, Event
  <2>5. CASE Outside
    BY <2>1, <2>5 DEF Outside, ClockAdvances, MarkRun, TaskEnds, TaskLost, SetTask,
                  TriggerChecks, TriggerInserts, NoEvent, Event
  <2> QED
    BY <2>2, <2>3, <2>4, <2>5 DEF Next, Step
<1> QED
  BY Zenon, <1>1, <1>3, <1>4 DEF TicksTypeOK, Phases, TickShape, TickOK

-----------------------------------------------------------------------------
(* What a tick may rely on while the world goes on beside it.                *)

\* Run i becomes x: an agent ends one of its tasks or loses it, or an operator
\* closes the run.
Worked(i, x) ==
  /\ i \in DOMAIN runs /\ x \in RunRecord /\ Later(runs[i], x)
  /\ runs' = [runs EXCEPT ![i] = x]
  /\ DOMAIN x.ts = DOMAIN runs[i].ts
  /\ \A t \in DOMAIN runs[i].ts : runs[i].ts[t] # "active" => x.ts[t] = runs[i].ts[t]
  /\ Held(x) \subseteq Held(runs[i])
  /\ x.state = runs[i].state \/ (~Active(x) /\ "mark" \in events')
  /\ UNCHANGED <<now, tick, trig, raced>>

LEMMA WorkShape ==
  ASSUME TicksInv, NEW i \in DOMAIN runs,
         MarkRun(i) \/ \E t \in DOMAIN runs[i].ts : TaskEnds(i, t) \/ TaskLost(i, t)
  PROVE  \E x : Worked(i, x)
<1>1. runs[i] \in RunRecord
  BY DEF TicksInv, TicksTypeOK
<1>2. CASE MarkRun(i)
  <2> DEFINE x == [runs[i] EXCEPT !.state = "done"]
  <2>1. x \in RunRecord /\ Later(runs[i], x) /\ x.ts = runs[i].ts /\ x.state = "done"
    BY <1>1 DEF RunRecord, Later
  <2>2. runs' = [runs EXCEPT ![i] = x] /\ "mark" \in events' /\ UNCHANGED <<now, tick, trig, raced>>
    BY <1>2 DEF MarkRun, Event
  <2> HIDE DEF x
  <2>3. Worked(i, x)
    BY <2>1, <2>2 DEF Worked, Held, Active
  <2> QED
    BY <2>3
<1>3. ASSUME NEW t \in DOMAIN runs[i].ts, TaskEnds(i, t) \/ TaskLost(i, t)
      PROVE  \E x : Worked(i, x)
  <2>1. PICK s \in TaskState : SetTask(i, t, s) /\ s # "active" /\ runs[i].ts[t] = "active"
    BY Zenon, <1>3 DEF TaskEnds, TaskLost, TaskState
  <2> DEFINE x == [runs[i] EXCEPT !.ts = [runs[i].ts EXCEPT ![t] = s]]
  <2>2. /\ x \in RunRecord /\ Later(runs[i], x) /\ x.state = runs[i].state
        /\ DOMAIN x.ts = DOMAIN runs[i].ts
        /\ \A u \in DOMAIN runs[i].ts : x.ts[u] = IF u = t THEN s ELSE runs[i].ts[u]
    BY <1>1, TaskSet
  <2>3. runs' = [runs EXCEPT ![i] = x] /\ UNCHANGED <<now, tick, trig, raced>>
    BY <2>1 DEF SetTask
  <2> HIDE DEF x
  <2>4. Worked(i, x)
    BY Zenon, <2>1, <2>2, <2>3 DEF Worked, Held
  <2> QED
    BY <2>4
<1> QED
  BY <1>2, <1>3

\* Events are never forgotten.
LEMMA EventsGrow ==
  ASSUME TicksInv, Next
  PROVE  events \subseteq events'
<1>1. CASE CreateDueRun
  BY <1>1 DEF CreateDueRun, CreateRun, NoEvent, Event
<1>2. CASE AdvanceRun
  BY <1>2 DEF AdvanceRun, Advance, NoEvent, Event
<1>3. CASE TickReads \/ ListDue \/ TickAbandoned
  BY <1>3 DEF TickReads, ListDue, TickAbandoned, Event
<1>4. CASE Outside
  BY Zenon, <1>4 DEF Outside, ClockAdvances, MarkRun, TaskEnds, TaskLost, SetTask,
              TriggerChecks, TriggerInserts, NoEvent, Event
<1> QED
  BY <1>1, <1>2, <1>3, <1>4 DEF Next, Step

\* The phase that a step leads to.
LEMMA NextPhase ==
  ASSUME TicksInv, ListDue \/ CreateDueRun \/ TickAbandoned
  PROVE  tick.pc # "idle" /\ tick'.pc # "advance" /\ DOMAIN tick'.listed = {}
<1>1. Idle.pc = "idle" /\ DOMAIN Idle.listed = {}
  BY DEF Idle
<1>2. CASE ListDue
  <2>1. PICK tk : tk = [Idle EXCEPT !.pc = "create", !.activeRuns = tick.activeRuns,
                                   !.due = [d \in Dags |-> SlotsDue(d)]]
    BY Zenon
  <2>2. tk.pc = "create" /\ tk.listed = Idle.listed
    BY <2>1 DEF Idle
  <2>3. tick' = Creating(tk) /\ tick.pc = "advance"
    BY <1>2, <2>1 DEF ListDue
  <2> QED
    BY <1>1, <2>2, <2>3 DEF Creating
<1>3. CASE CreateDueRun
  <2> PICK d \in Dags : \E slot \in tick.due[d] : CreateRun(d, slot)
    BY <1>3, CreateShape
  <2> PICK slot \in tick.due[d] : CreateRun(d, slot)
    OBVIOUS
  <2>1. PICK tk : Created(d, slot, tk)
    BY CreatedShape
  <2> QED
    BY <1>1, <1>3, <2>1 DEF Created, Creating, CreateDueRun
<1>4. CASE TickAbandoned
  BY <1>1, <1>4 DEF TickAbandoned
<1> QED
  BY <1>2, <1>3, <1>4

\* No step beside the tick takes a listed run further than ListedInv allows.
LEMMA ListedStep ==
  ASSUME TicksInv, Next
  PROVE  ListedInv'
<1> SUFFICES ASSUME NEW i \in DOMAIN tick'.listed
             PROVE  /\ tick'.listed[i].dag = runs'[i].dag
                    /\ DOMAIN tick'.listed[i].ts = DOMAIN runs'[i].ts
                    /\ \A t \in DOMAIN runs'[i].ts :
                         tick'.listed[i].ts[t] \in {"none", "scheduled", "done"} =>
                           runs'[i].ts[t] = tick'.listed[i].ts[t]
                    /\ "mark" \notin events' => Active(runs'[i])
  BY Zenon DEF ListedInv, Active
<1>1. CASE TickReads
  <2>1. tick'.listed = ListActive(runs) /\ runs' = runs
    BY <1>1 DEF TickReads, Idle
  <2>2. tick'.listed[i] = runs[i] /\ Active(runs[i])
    BY <2>1 DEF ListActive
  <2> QED
    BY <2>1, <2>2
<1>2. CASE ListDue \/ CreateDueRun \/ TickAbandoned
  BY Zenon, <1>2, NextPhase
<1>3. CASE AdvanceRun
  <2>1. PICK j, Q, P, x : Advanced(j, Q, P, x)
    BY <1>3, AdvanceShape
  <2>2. tick.pc = "advance" /\ j \in DOMAIN tick.listed /\ P \in SUBSET DOMAIN tick.listed[j].ts
        /\ tick' = Charged(j, P) /\ runs' = [runs EXCEPT ![j] = x] /\ events \subseteq events'
    BY Zenon, <1>3, <2>1 DEF Advanced, AdvanceRun
  <2>3. i # j /\ i \in DOMAIN tick.listed /\ tick'.listed[i] = tick.listed[i]
    BY <2>2, ChargedOK
  <2>4. runs'[i] = runs[i]
    BY <2>2, <2>3, ListedRun
  <2> QED
    BY <2>2, <2>3, <2>4 DEF TicksInv, ListedInv
<1>4. CASE Outside
  <2>1. events \subseteq events'
    BY <1>4, EventsGrow DEF Next
  <2>2. tick' = tick
    BY Zenon, <1>4 DEF Outside, ClockAdvances, MarkRun, TaskEnds, TaskLost, SetTask, TriggerChecks,
                TriggerInserts
  <2>3. i \in DOMAIN runs /\ i \in DOMAIN tick.listed
    BY <2>2, ListedRun
  <2>4. CASE runs'[i] = runs[i]
    BY <2>1, <2>2, <2>3, <2>4 DEF TicksInv, ListedInv
  <2>5. CASE ClockAdvances \/ \E d \in Dags : TriggerChecks(d)
    BY Zenon, <2>4, <2>5 DEF ClockAdvances, TriggerChecks
  <2>6. CASE TriggerInserts
    <3>1. PICK slot \in 1..now : runs' = Append(runs, NewRun(trig, slot, "manual"))
      BY <2>6 DEF TriggerInserts
    <3>2. trig \in Dags
      BY Zenon, <2>6 DEF TriggerInserts, TicksInv, TicksTypeOK
    <3> QED
      BY <2>3, <2>4, <3>1, <3>2, RunAppended
  <2>7. ASSUME NEW j \in DOMAIN runs,
               MarkRun(j) \/ \E t \in DOMAIN runs[j].ts : TaskEnds(j, t) \/ TaskLost(j, t)
        PROVE  /\ tick'.listed[i].dag = runs'[i].dag
               /\ DOMAIN tick'.listed[i].ts = DOMAIN runs'[i].ts
               /\ \A t \in DOMAIN runs'[i].ts :
                    tick'.listed[i].ts[t] \in {"none", "scheduled", "done"} =>
                      runs'[i].ts[t] = tick'.listed[i].ts[t]
               /\ "mark" \notin events' => Active(runs'[i])
    <3>1. PICK x : Worked(j, x)
      BY <2>7, WorkShape
    <3>2. i = j \/ runs'[i] = runs[i]
      BY <2>3, <3>1 DEF Worked
    <3>3. CASE i = j
      <4>1. runs'[i] = x
        BY <2>3, <3>1, <3>3 DEF Worked
      <4> QED
        BY <2>1, <2>2, <2>3, <3>1, <3>3, <4>1 DEF Worked, Later, Active, TicksInv, ListedInv
    <3> QED
      BY <2>4, <3>2, <3>3
  <2> QED
    BY <1>4, <2>5, <2>6, <2>7 DEF Outside
<1> QED
  BY Zenon, <1>1, <1>2, <1>3, <1>4 DEF Next, Step

-----------------------------------------------------------------------------

LEMMA TicksInvInit == Init => TicksInv
<1> SUFFICES ASSUME Init PROVE TicksInv
  OBVIOUS
<1>1. TickOK(tick) /\ DOMAIN tick.listed = {} /\ tick.pc = "idle" /\ DOMAIN runs = {}
  BY IdleOK DEF Init, Idle
<1>2. ListedInv
  BY <1>1 DEF ListedInv
<1>3. now \in 1..MaxNow /\ runs \in Seq(RunRecord)
  BY TicksAssumption DEF Init
<1> QED
  BY <1>1, <1>2, <1>3 DEF Init, TicksInv, TicksTypeOK, Phases, TickShape, TickOK

LEMMA TicksInvStep == TicksInv /\ [Next]_vars => TicksInv'
<1>1. TicksInv /\ Next => TicksInv'
  BY TypeStep, ListedStep DEF TicksInv
<1>2. TicksInv /\ UNCHANGED vars => TicksInv'
  BY DEF vars, TicksInv, TicksTypeOK, Phases, TickShape, ListedInv, RunRecord, Active
<1> QED
  BY <1>1, <1>2

\* The types are kept for any DAGs, pools, caps and clock: the tick's records, the
\* runs it lists and the slots it finds due are what the code reads them as.
THEOREM TicksTypeCorrect == Spec => []TicksTypeOK
<1>1. TicksInv => TicksTypeOK
  BY DEF TicksInv
<1> QED
  BY <1>1, TicksInvInit, TicksInvStep, PTL DEF Spec
=============================================================================
