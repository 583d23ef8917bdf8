---------------------------- MODULE SelfFixProofs ---------------------------
(***************************************************************************)
(* Theorems about self-repair, for any number of tasks, projects, events,  *)
(* deliveries and any limit.  While Redis keeps what it was told, INCR     *)
(* hands every request for a merge request a number of its own, so at most *)
(* MAX_AI_FIXES of them are within the limit, the mark of an event lets    *)
(* one delivery of it through each time it is free, and each job commits   *)
(* once each time it is begun.                                             *)
(***************************************************************************)
EXTENDS SelfFix, FiniteSetTheorems, TLAPS

\* The delivery has passed mark_seen.
Through(d) == hpc[d] \in {"marked", "counted"} \/ count[d] > 0

ThroughOf(e) == {d \in Deliveries : Through(d) /\ ev[d] = e}

\* A delivery has a number once it was counted, a job once it was handled, a job of a
\* counted delivery is within the limit, and a repair is the job of a counted delivery.
Handled ==
  \A d \in Deliveries :
    /\ hpc[d] \in {"none", "marked"} => count[d] = 0
    /\ hpc[d] = "counted" => count[d] > 0
    /\ hpc[d] # "done" => job[d] = "none"
    /\ job[d] = "resolve" => count[d] = 0
    /\ job[d] \notin {"none", "resolve"} /\ count[d] > 0 => FixAllowed(count[d])
    /\ job[d] \in {"queued", "found", "fixing", "fixed"} => count[d] > 0

\* The numbers handed out for one iid are different, and none is above the counter.
Numbered ==
  flushes = 0 =>
    \A d \in Deliveries : count[d] > 0 =>
      /\ count[d] <= fixes[Iid(About[ev[d]])]
      /\ \A e \in Deliveries :
           e # d /\ Iid(About[ev[e]]) = Iid(About[ev[d]]) => count[e] # count[d]

\* The mark of an event has let one delivery through each time it was free, and lets
\* another through if it is free now.
Marked ==
  flushes = 0 =>
    \A e \in Events :
      /\ IsFiniteSet(ThroughOf(e))
      /\ Cardinality(ThroughOf(e)) + (IF e \in seen THEN 0 ELSE 1) <= 1 + expired[e]

\* The parts of TypeOK the numbers need.
Types ==
  /\ ev \in [Deliveries -> Events]
  /\ hpc \in [Deliveries -> HandlerStates] /\ job \in [Deliveries -> JobStates]
  /\ count \in [Deliveries -> Nat] /\ fixes \in [Iids -> Nat] /\ flushes \in Nat
  /\ expired \in [Events -> Nat] /\ reruns \in Nat

IndInv == Types /\ Handled /\ Numbered /\ Marked

\* The number of an event's merge request.
LEMMA IidType == ASSUME NEW e \in Events PROVE Iid(About[e]) \in Iids
BY SelfFixAssumption DEF Mrs, Iid

\* Before any delivery.
LEMMA InitInv == Init => IndInv
<1> SUFFICES ASSUME Init PROVE IndInv
  OBVIOUS
<1>1. Types /\ Handled /\ Numbered
  BY SelfFixAssumption DEF Init, Types, Handled, Numbered, HandlerStates, JobStates
<1>2. Marked
  <2>1. \A e \in Events : ThroughOf(e) = {}
    BY DEF Init, ThroughOf, Through
  <2>2. seen = {} /\ \A e \in Events : expired[e] = 0
    BY DEF Init
  <2> QED BY <2>1, <2>2, FS_EmptySet DEF Marked
<1> QED BY <1>1, <1>2 DEF IndInv

\* A step that lets no delivery through and leaves the marks alone.
LEMMA MarkedQuiet ==
  ASSUME Types, Marked, UNCHANGED <<seen, ev, flushes, expired>>,
         \A d \in Deliveries : Through(d)' => Through(d)
  PROVE  Marked'
<1> SUFFICES ASSUME flushes = 0, NEW e \in Events
             PROVE  /\ IsFiniteSet(ThroughOf(e)')
                    /\ Cardinality(ThroughOf(e)') + (IF e \in seen THEN 0 ELSE 1) <= 1 + expired[e]
  BY DEF Marked
<1>1. ThroughOf(e)' \subseteq ThroughOf(e)
  BY DEF ThroughOf
<1>2. /\ IsFiniteSet(ThroughOf(e))
      /\ Cardinality(ThroughOf(e)) + (IF e \in seen THEN 0 ELSE 1) <= 1 + expired[e]
  BY DEF Marked
<1>3. /\ IsFiniteSet(ThroughOf(e)') /\ Cardinality(ThroughOf(e)') \in Nat
      /\ Cardinality(ThroughOf(e)') <= Cardinality(ThroughOf(e)) /\ Cardinality(ThroughOf(e)) \in Nat
  BY <1>1, <1>2, FS_Subset, FS_CardinalityType
<1> QED BY <1>2, <1>3 DEF Types

\* Every step of a handler, of a job and of Redis keeps the invariant.
LEMMA NextInv == IndInv /\ [Next]_vars => IndInv'
<1> SUFFICES ASSUME IndInv, [Next]_vars PROVE IndInv'
  OBVIOUS
<1> USE DEF redis, handler, jobs, effects, faults, IndInv
<1>1. CASE \E t \in Tasks : Record(t)
  <2> USE <1>1 DEF Record
  <2>1. Types' /\ Handled' /\ Numbered'
    BY DEF Types, Handled, Numbered
  <2>2. Marked'
    BY MarkedQuiet DEF Through
  <2> QED BY <2>1, <2>2
<1>2. CASE RedisLost
  <2> USE <1>2 DEF RedisLost
  <2>1. Types' /\ flushes' # 0
    BY DEF Types
  <2> QED BY <2>1 DEF Handled, Numbered, Marked
<1>3. ASSUME NEW d \in Deliveries, Receive(d) PROVE IndInv'
  <2> USE <1>3 DEF Receive, Handle
  <2>1. Types' /\ Handled'
    BY DEF Types, Handled, HandlerStates
  <2>2. Numbered'
    BY DEF Numbered
  <2>3. Marked'
    <3> SUFFICES ASSUME flushes = 0, NEW e \in Events
                 PROVE  /\ IsFiniteSet(ThroughOf(e)')
                        /\ Cardinality(ThroughOf(e)') + (IF e \in seen' THEN 0 ELSE 1) <= 1 + expired[e]
      BY DEF Marked
    <3>1. /\ IsFiniteSet(ThroughOf(e)) /\ Cardinality(ThroughOf(e)) \in Nat /\ expired[e] \in Nat
          /\ Cardinality(ThroughOf(e)) + (IF e \in seen THEN 0 ELSE 1) <= 1 + expired[e]
      BY FS_CardinalityType DEF Marked, Types
    <3>2. \A x \in Deliveries : x # d => (Through(x)' <=> Through(x))
      BY DEF Through, Types
    <3>3. CASE ev[d] = e
      <4>1. ThroughOf(e)' \subseteq ThroughOf(e) \union {d}
        BY <3>2 DEF ThroughOf
      <4>2. /\ IsFiniteSet(ThroughOf(e) \union {d})
            /\ Cardinality(ThroughOf(e) \union {d}) \in {Cardinality(ThroughOf(e)), Cardinality(ThroughOf(e)) + 1}
        BY <3>1, FS_AddElement
      <4>3. /\ IsFiniteSet(ThroughOf(e)') /\ Cardinality(ThroughOf(e)') \in Nat
            /\ Cardinality(ThroughOf(e)') <= Cardinality(ThroughOf(e) \union {d})
        BY <4>1, <4>2, FS_Subset, FS_CardinalityType
      <4> QED BY <3>1, <3>3, <4>2, <4>3
    <3>4. CASE ev[d] # e
      <4>1. ThroughOf(e)' = ThroughOf(e)
        BY <3>2, <3>4 DEF ThroughOf
      <4> QED BY <3>1, <3>4, <4>1
    <3> QED BY <3>3, <3>4
  <2> QED BY <2>1, <2>2, <2>3
<1>4. ASSUME NEW d \in Deliveries, Duplicate(d) PROVE IndInv'
  <2> USE <1>4 DEF Duplicate, Handle
  <2>1. Types' /\ Handled'
    BY DEF Types, Handled, HandlerStates
  <2>2. Numbered'
    BY DEF Numbered, Types
  <2>3. Marked'
    BY MarkedQuiet DEF Through, Types, Handled
  <2> QED BY <2>1, <2>2, <2>3
<1>5. ASSUME NEW d \in Deliveries, Ignore(d) PROVE IndInv'
  <2> USE <1>5 DEF Ignore, Handle
  <2>1. Types' /\ Handled'
    BY DEF Types, Handled, HandlerStates
  <2>2. Numbered'
    BY DEF Numbered, Types
  <2>3. Marked'
    BY MarkedQuiet DEF Through, Types, Handled
  <2> QED BY <2>1, <2>2, <2>3
<1>6. ASSUME NEW d \in Deliveries, Count(d) PROVE IndInv'
  <2> USE <1>6 DEF Count, Handle
  <2> DEFINE i == Iid(About[ev[d]])
  <2>1. i \in Iids
    BY IidType DEF Types
  <2>2. /\ fixes'[i] = fixes[i] + 1 /\ count'[d] = fixes[i] + 1 /\ fixes[i] \in Nat
        /\ \A k \in Iids : k # i => fixes'[k] = fixes[k]
        /\ \A e \in Deliveries : e # d => count'[e] = count[e]
    BY <2>1 DEF Types
  <2>3. Types'
    BY <2>1, <2>2 DEF Types, HandlerStates
  <2>4. Handled'
    BY <2>2 DEF Types, Handled
  <2>5. Numbered'
    <3> SUFFICES ASSUME flushes = 0, NEW e \in Deliveries, count'[e] > 0
                 PROVE  /\ count'[e] <= fixes'[Iid(About[ev[e]])]
                        /\ \A f \in Deliveries :
                             f # e /\ Iid(About[ev[f]]) = Iid(About[ev[e]]) => count'[f] # count'[e]
      BY DEF Numbered
    <3>1. \A f \in Deliveries : f # d /\ count[f] > 0 /\ Iid(About[ev[f]]) = i => count[f] <= fixes[i]
      BY DEF Numbered
    <3>2. \A f \in Deliveries : Iid(About[ev[f]]) \in Iids /\ count[f] \in Nat
      BY IidType DEF Types
    <3>3. CASE e = d
      BY <2>1, <2>2, <3>1, <3>2, <3>3
    <3>4. CASE e # d
      BY <2>1, <2>2, <3>1, <3>2, <3>4 DEF Numbered
    <3> QED BY <3>3, <3>4
  <2>6. Marked'
    BY <2>2, MarkedQuiet DEF Through, Types
  <2> QED BY <2>3, <2>4, <2>5, <2>6
<1>7. ASSUME NEW d \in Deliveries, Enqueue(d) PROVE IndInv'
  <2> USE <1>7 DEF Enqueue, Handle
  <2>1. Types' /\ Handled'
    BY DEF Types, Handled, HandlerStates, JobStates
  <2>2. Numbered'
    BY DEF Numbered, Types
  <2>3. Marked'
    BY MarkedQuiet DEF Through, Types, Handled
  <2> QED BY <2>1, <2>2, <2>3
<1>8. ASSUME NEW d \in Deliveries, Stop(d) PROVE IndInv'
  <2> USE <1>8 DEF Stop, Handle
  <2>1. Types' /\ Handled'
    BY DEF Types, Handled, HandlerStates
  <2>2. Numbered'
    BY DEF Numbered, Types
  <2>3. Marked'
    BY MarkedQuiet DEF Through, Types, Handled
  <2> QED BY <2>1, <2>2, <2>3
<1>9. ASSUME NEW d \in Deliveries, EnqueueResolve(d) PROVE IndInv'
  <2> USE <1>9 DEF EnqueueResolve, Handle
  <2>1. Types' /\ Handled'
    BY DEF Types, Handled, HandlerStates, JobStates
  <2>2. Numbered'
    BY DEF Numbered, Types
  <2>3. Marked'
    BY MarkedQuiet DEF Through, Types, Handled
  <2> QED BY <2>1, <2>2, <2>3
<1>10. ASSUME NEW d \in Deliveries, HandlerFails(d) PROVE IndInv'
  <2> USE <1>10 DEF HandlerFails
  <2>1. Types' /\ Handled'
    BY DEF Types, Handled, HandlerStates
  <2>2. Numbered'
    BY DEF Numbered, Types
  <2>3. Marked'
    BY MarkedQuiet DEF Through, Types, Handled
  <2> QED BY <2>1, <2>2, <2>3
<1>11. ASSUME NEW d \in Deliveries,
              FindTask(d) \/ Fetch(d) \/ NotFixed(d) \/ CommitFix(d) \/ TellFixed(d)
                \/ Resolve(d) \/ JobFails(d) \/ Rerun(d)
       PROVE  IndInv'
  <2>1. /\ UNCHANGED <<seen, fixes, hpc, ev, count, flushes, expired>>
        /\ job[d] # "none" /\ reruns' \in Nat
        /\ \E to \in JobStates \ {"none", "resolve"} :
             /\ job' = [job EXCEPT ![d] = to]
             /\ to \in {"queued", "found", "fixing", "fixed"} =>
                  job[d] \in {"queued", "found", "fixing", "fixed"}
    BY <1>11 DEF FindTask, Fetch, NotFixed, CommitFix, TellFixed, Resolve, JobFails, Rerun, Step,
                 JobStates, Types
  <2>2. Types' /\ Numbered'
    BY <2>1 DEF Types, Numbered
  <2>3. Handled'
    BY <2>1 DEF Types, Handled, FixAllowed
  <2>4. Marked'
    BY <2>1, MarkedQuiet DEF Through
  <2> QED BY <2>2, <2>3, <2>4
<1>12. CASE UNCHANGED vars
  <2> USE <1>12 DEF vars
  <2>1. Types' /\ Handled' /\ Numbered'
    BY DEF Types, Handled, Numbered
  <2>2. Marked'
    BY MarkedQuiet DEF Through
  <2> QED BY <2>1, <2>2
<1>13. ASSUME NEW e \in Events, MarkExpires(e) PROVE IndInv'
  <2> USE <1>13 DEF MarkExpires
  <2>1. Types' /\ Handled' /\ Numbered'
    BY DEF Types, Handled, Numbered
  <2>2. \A f \in Events : ThroughOf(f)' = ThroughOf(f)
    BY DEF ThroughOf, Through
  <2>3. \A f \in Events : f # e => expired'[f] = expired[f] /\ (f \in seen' <=> f \in seen)
    BY DEF Types
  <2>4. expired'[e] = expired[e] + 1 /\ expired[e] \in Nat /\ e \notin seen'
    BY DEF Types
  <2>5. flushes = 0 => \A f \in Events :
          /\ IsFiniteSet(ThroughOf(f)) /\ Cardinality(ThroughOf(f)) \in Nat
          /\ Cardinality(ThroughOf(f)) + (IF f \in seen THEN 0 ELSE 1) <= 1 + expired[f]
    BY FS_CardinalityType DEF Marked
  <2>6. Marked'
    <3> SUFFICES ASSUME flushes = 0, NEW f \in Events
                 PROVE  /\ IsFiniteSet(ThroughOf(f)')
                        /\ Cardinality(ThroughOf(f)') + (IF f \in seen' THEN 0 ELSE 1) <= 1 + expired'[f]
      BY DEF Marked
    <3>1. CASE f = e
      BY <2>2, <2>4, <2>5, <3>1
    <3>2. CASE f # e
      BY <2>2, <2>3, <2>5, <3>2
    <3> QED BY <3>1, <3>2
  <2> QED BY <2>1, <2>6
<1> QED BY <1>1, <1>2, <1>3, <1>4, <1>5, <1>6, <1>7, <1>8, <1>9, <1>10, <1>11, <1>12, <1>13 DEF Next

\* The invariant holds in every behaviour.
THEOREM Inductive == Spec => []IndInv
BY InitInv, NextInv, PTL DEF Spec

\* mark_seen before anything else: however the deliveries of an event are interleaved,
\* one at most is counted each time its mark is free.
THEOREM CountedOnce == Spec => []EventCountsOnce
<1>1. IndInv => EventCountsOnce
  <2> SUFFICES ASSUME IndInv, flushes = 0, NEW e \in Events
               PROVE  Cardinality(Counted(e)) <= 1 + expired[e]
    BY DEF EventCountsOnce
  <2>1. /\ IsFiniteSet(ThroughOf(e))
        /\ Cardinality(ThroughOf(e)) + (IF e \in seen THEN 0 ELSE 1) <= 1 + expired[e]
    BY DEF IndInv, Marked
  <2>2. Counted(e) \subseteq ThroughOf(e)
    BY DEF Counted, ThroughOf, Through
  <2>3. /\ Cardinality(Counted(e)) \in Nat /\ Cardinality(ThroughOf(e)) \in Nat
        /\ Cardinality(Counted(e)) <= Cardinality(ThroughOf(e))
    BY <2>1, <2>2, FS_Subset, FS_CardinalityType
  <2> QED BY <2>1, <2>3 DEF IndInv, Types
<1> QED BY <1>1, Inductive, PTL

\* The requests within the limit are finitely many, because each has a number of its own.
Few ==
  flushes = 0 =>
    \A i \in Iids : IsFiniteSet(FixJobs(i)) /\ Cardinality(FixJobs(i)) <= MaxFixes

\* They inject into 1..MaxFixes.
LEMMA FewJobs == IndInv => Few
<1> SUFFICES ASSUME IndInv, flushes = 0, NEW i \in Iids
             PROVE  IsFiniteSet(FixJobs(i)) /\ Cardinality(FixJobs(i)) <= MaxFixes
  BY DEF Few
<1> DEFINE number == [d \in FixJobs(i) |-> count[d]]
<1>1. \A d \in FixJobs(i) : count[d] \in 1..MaxFixes
  BY SelfFixAssumption DEF IndInv, Types, Handled, FixAllowed, FixJobs
<1>2. \A d, e \in FixJobs(i) : count[d] = count[e] => d = e
  BY DEF IndInv, Numbered, FixJobs
<1>3. number \in Injection(FixJobs(i), 1..MaxFixes)
  BY <1>1, <1>2 DEF Injection, IsInjective
<1>4. IsFiniteSet(1..MaxFixes) /\ Cardinality(1..MaxFixes) = MaxFixes
  BY SelfFixAssumption, FS_Interval
<1> QED BY <1>3, <1>4, FS_Injection

\* INCR before next_fix_action: at most MAX_AI_FIXES repairs per iid, however requests race.
THEOREM WithinLimit == Spec => []FixesWithinLimit
<1>1. IndInv => FixesWithinLimit
  BY FewJobs DEF Few, FixesWithinLimit
<1> QED BY <1>1, Inductive, PTL

\* The requests whose job is past its commit, or has ended.
Settled(i) == {d \in FixJobs(i) : job[d] \notin {"queued", "found", "fixing"}}

\* Each commit of a repair belongs to a settled request or to a job begun again since.
Spent ==
  flushes = 0 => \A i \in Iids :
    /\ IsFiniteSet(RepairsOf(i))
    /\ Cardinality(RepairsOf(i)) <= Cardinality(Settled(i)) + reruns

\* Every step that commits settles its request, and only a job begun again is unsettled.
LEMMA SpentInv ==
  /\ Init => Spent
  /\ IndInv /\ Few /\ Few' /\ Spent /\ [Next]_vars => Spent'
<1>1. Init => Spent
  <2> SUFFICES ASSUME Init, NEW i \in Iids
               PROVE  /\ IsFiniteSet(RepairsOf(i))
                      /\ Cardinality(RepairsOf(i)) <= Cardinality(Settled(i)) + reruns
    BY DEF Spent
  <2>1. RepairsOf(i) = {} /\ Settled(i) = {} /\ reruns = 0
    BY DEF Init, RepairsOf, Settled, FixJobs
  <2> QED BY <2>1, FS_EmptySet
<1> SUFFICES ASSUME IndInv, Few, Few', Spent, [Next]_vars, flushes' = 0, NEW i \in Iids
             PROVE  /\ IsFiniteSet(RepairsOf(i)')
                    /\ Cardinality(RepairsOf(i)') <= Cardinality(Settled(i)') + reruns'
  BY <1>1 DEF Spent
<1> USE DEF redis, handler, jobs, effects, faults
<1>2. flushes = 0 /\ UNCHANGED ev
  BY DEF Next, vars, Record, RedisLost, MarkExpires, Receive, Duplicate, Ignore, Count, Enqueue,
         Stop, EnqueueResolve, HandlerFails, FindTask, Fetch, NotFixed, CommitFix, TellFixed,
         Resolve, JobFails, Rerun, IndInv, Types
<1>3. /\ IsFiniteSet(RepairsOf(i)) /\ Cardinality(RepairsOf(i)) \in Nat
      /\ Cardinality(RepairsOf(i)) <= Cardinality(Settled(i)) + reruns
  BY <1>2, FS_CardinalityType DEF Spent
<1>4. /\ IsFiniteSet(Settled(i)) /\ Cardinality(Settled(i)) \in Nat /\ reruns \in Nat
  <2>1. IsFiniteSet(FixJobs(i)) /\ Settled(i) \subseteq FixJobs(i)
    BY <1>2 DEF Few, Settled
  <2> QED BY <2>1, FS_Subset, FS_CardinalityType DEF IndInv, Types
<1>5. /\ IsFiniteSet(Settled(i)') /\ Cardinality(Settled(i)') \in Nat
  <2>1. IsFiniteSet(FixJobs(i)')
    BY DEF Few
  <2>2. Settled(i)' \subseteq FixJobs(i)'
    BY DEF Settled
  <2> QED BY <2>1, <2>2, FS_Subset, FS_CardinalityType
<1>6. ASSUME UNCHANGED <<commits, reruns>>, Settled(i) \subseteq Settled(i)'
      PROVE  /\ IsFiniteSet(RepairsOf(i)')
             /\ Cardinality(RepairsOf(i)') <= Cardinality(Settled(i)') + reruns'
  <2>1. RepairsOf(i)' = RepairsOf(i)
    BY <1>2, <1>6 DEF RepairsOf
  <2>2. Cardinality(Settled(i)) <= Cardinality(Settled(i)')
    BY <1>5, <1>6, FS_Subset
  <2> QED BY <1>3, <1>4, <1>5, <1>6, <2>1, <2>2
<1>7. CASE RedisLost
  BY <1>7 DEF RedisLost, IndInv, Types
<1>8. CASE \/ UNCHANGED vars
           \/ \E t \in Tasks : Record(t)
           \/ \E e \in Events : MarkExpires(e)
  <2>1. UNCHANGED <<commits, reruns, job, ev, count>>
    BY <1>8 DEF vars, Record, MarkExpires
  <2>2. Settled(i) \subseteq Settled(i)'
    BY <2>1 DEF Settled, FixJobs
  <2> QED BY <2>1, <2>2, <1>6
<1>9. ASSUME NEW d \in Deliveries,
             Receive(d) \/ Duplicate(d) \/ Ignore(d) \/ Count(d) \/ Enqueue(d) \/ Stop(d)
               \/ EnqueueResolve(d) \/ HandlerFails(d)
      PROVE  /\ IsFiniteSet(RepairsOf(i)')
             /\ Cardinality(RepairsOf(i)') <= Cardinality(Settled(i)') + reruns'
  <2>1. /\ UNCHANGED <<commits, reruns, ev>>
        /\ \A x \in Deliveries : job[x] # "none" => job'[x] = job[x] /\ count'[x] = count[x]
    BY <1>9 DEF Receive, Duplicate, Ignore, Count, Enqueue, Stop, EnqueueResolve, HandlerFails,
                Handle, IndInv, Types, Handled
  <2>2. Settled(i) \subseteq Settled(i)'
    BY <2>1 DEF Settled, FixJobs
  <2> QED BY <2>1, <2>2, <1>6
<1>10. ASSUME NEW d \in Deliveries,
              FindTask(d) \/ Fetch(d) \/ NotFixed(d) \/ TellFixed(d) \/ Resolve(d) \/ JobFails(d)
       PROVE  /\ IsFiniteSet(RepairsOf(i)')
              /\ Cardinality(RepairsOf(i)') <= Cardinality(Settled(i)') + reruns'
  <2>1. /\ UNCHANGED <<commits, reruns, ev, count>>
        /\ \A x \in Deliveries : x # d => job'[x] = job[x]
        /\ \/ job[d] \in {"queued", "found", "fixing"}
           \/ job'[d] \notin {"none", "resolve", "queued", "found", "fixing"}
    BY <1>10 DEF FindTask, Fetch, NotFixed, TellFixed, Resolve, JobFails, Step, IndInv, Types
  <2>2. Settled(i) \subseteq Settled(i)'
    BY <2>1 DEF Settled, FixJobs
  <2> QED BY <2>1, <2>2, <1>6
<1>11. ASSUME NEW d \in Deliveries, CommitFix(d)
       PROVE  /\ IsFiniteSet(RepairsOf(i)')
              /\ Cardinality(RepairsOf(i)') <= Cardinality(Settled(i)') + reruns'
  <2> USE <1>11 DEF CommitFix, Step
  <2> DEFINE c == [job |-> d, branch |-> Branch(d), made |-> fetched[d], onto |-> head[Branch(d)]]
  <2>1. /\ UNCHANGED <<reruns, ev, count>> /\ job[d] = "fixing" /\ job'[d] = "fixed"
        /\ \A x \in Deliveries : x # d => job'[x] = job[x]
        /\ commits' = commits \union {c} /\ c.job = d /\ count[d] > 0
    BY DEF IndInv, Types, Handled
  <2>2. CASE Iid(About[ev[d]]) # i
    <3>1. RepairsOf(i)' = RepairsOf(i) /\ Settled(i)' = Settled(i)
      BY <2>1, <2>2 DEF RepairsOf, Settled, FixJobs
    <3> QED BY <1>3, <2>1, <3>1
  <2>3. CASE Iid(About[ev[d]]) = i
    <3>1. RepairsOf(i)' = RepairsOf(i) \union {c}
      BY <2>1, <2>3 DEF RepairsOf
    <3>2. Settled(i)' = Settled(i) \union {d} /\ d \notin Settled(i)
      BY <2>1, <2>3 DEF Settled, FixJobs
    <3>3. /\ IsFiniteSet(RepairsOf(i)') /\ Cardinality(RepairsOf(i)') \in Nat
          /\ Cardinality(RepairsOf(i)') <= Cardinality(RepairsOf(i)) + 1
      <4>1. /\ IsFiniteSet(RepairsOf(i)')
            /\ Cardinality(RepairsOf(i)')
                 = IF c \in RepairsOf(i) THEN Cardinality(RepairsOf(i)) ELSE Cardinality(RepairsOf(i)) + 1
        BY ONLY <1>3, <3>1, FS_AddElement
      <4> QED BY ONLY <1>3, <4>1
    <3>4. Cardinality(Settled(i)') = Cardinality(Settled(i)) + 1
      BY <1>4, <3>2, FS_AddElement
    <3> QED BY <1>3, <1>4, <2>1, <3>3, <3>4
  <2> QED BY <2>2, <2>3
<1>12. ASSUME NEW d \in Deliveries, Rerun(d)
       PROVE  /\ IsFiniteSet(RepairsOf(i)')
              /\ Cardinality(RepairsOf(i)') <= Cardinality(Settled(i)') + reruns'
  <2> USE <1>12 DEF Rerun
  <2>1. /\ UNCHANGED <<commits, ev, count>> /\ reruns' = reruns + 1
        /\ \A x \in Deliveries : x # d => job'[x] = job[x]
    BY DEF IndInv, Types
  <2>2. RepairsOf(i)' = RepairsOf(i) /\ Settled(i) \ {d} \subseteq Settled(i)'
    BY <2>1 DEF RepairsOf, Settled, FixJobs
  <2>3. /\ IsFiniteSet(Settled(i) \ {d}) /\ Cardinality(Settled(i) \ {d}) \in Nat
        /\ Cardinality(Settled(i)) <= Cardinality(Settled(i) \ {d}) + 1
    <3>1. /\ IsFiniteSet(Settled(i) \ {d})
          /\ Cardinality(Settled(i) \ {d})
               = IF d \in Settled(i) THEN Cardinality(Settled(i)) - 1 ELSE Cardinality(Settled(i))
      BY <1>4, FS_RemoveElement
    <3>2. Cardinality(Settled(i) \ {d}) \in Nat
      BY <3>1, FS_CardinalityType
    <3> QED BY <1>4, <3>1, <3>2
  <2>4. Cardinality(Settled(i) \ {d}) <= Cardinality(Settled(i)')
    BY <1>5, <2>2, FS_Subset
  <2> QED BY <1>3, <1>4, <1>5, <2>1, <2>2, <2>3, <2>4
<1> QED BY <1>7, <1>8, <1>9, <1>10, <1>11, <1>12 DEF Next

\* A job commits once each time it is begun, and is begun again only when its worker has
\* died: what is pushed for a number stays within the limit and those repetitions.
THEOREM PushedWithinLimit == Spec => []RepairsWithinLimit
<1>1. IndInv /\ Spent => RepairsWithinLimit
  <2> SUFFICES ASSUME IndInv, Spent, flushes = 0, NEW i \in Iids
               PROVE  Cardinality(RepairsOf(i)) <= MaxFixes + reruns
    BY DEF RepairsWithinLimit
  <2>1. IsFiniteSet(FixJobs(i)) /\ Cardinality(FixJobs(i)) <= MaxFixes
    BY FewJobs DEF Few
  <2>2. Settled(i) \subseteq FixJobs(i)
    BY DEF Settled
  <2>3. /\ Cardinality(Settled(i)) <= Cardinality(FixJobs(i))
        /\ Cardinality(Settled(i)) \in Nat /\ Cardinality(FixJobs(i)) \in Nat
    BY <2>1, <2>2, FS_Subset, FS_CardinalityType
  <2>4. /\ IsFiniteSet(RepairsOf(i)) /\ Cardinality(RepairsOf(i)) \in Nat
        /\ Cardinality(RepairsOf(i)) <= Cardinality(Settled(i)) + reruns
    BY FS_CardinalityType DEF Spent
  <2> QED BY <2>1, <2>3, <2>4, SelfFixAssumption DEF IndInv, Types
<1> QED BY <1>1, FewJobs, SpentInv, Inductive, PTL DEF Spec
=============================================================================
