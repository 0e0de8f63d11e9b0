-------------------------- MODULE WorkerPool_proofs --------------------------
(***************************************************************************)
(* The safety of the worker pool, and that it implements JobService, for   *)
(* every number of threads and jobs.                                       *)
(***************************************************************************)
EXTENDS WorkerPool, SequenceTheorems, FiniteSetTheorems, TLAPS

Ended == owner \in {"joining", "freed"}

\* The threads that exist, and those that are joined.
Threads ==
    /\ owner = "none" => nthreads = 0
    /\ owner = "freed" => joined = nthreads
    /\ \A w \in Workers : pc[w] = "none" <=> w > nthreads
    /\ \A w \in 1..joined : pc[w] = "exited"
    /\ \A w \in At("run") : work[w] \in Jobs

\* The terminate request: in the queue once the pool is being joined, from then
\* on nobody sleeps, and a thread leaves only when the request is at the front.
Ending ==
    /\ ~Ended => Ends = {} /\ late = {} /\ At("leave") = {} /\ At("exited") = {}
    /\ Ended => Ends # {} /\ At("wait") = {}
    /\ At("leave") \cup At("exited") # {} => jobs # <<>> /\ jobs[1] = Terminate

\* Where a job dispatched before pool_join can be.
Queued(j) == \E i \in DOMAIN jobs : jobs[i] = j /\ \A k \in 1..i : jobs[k] # Terminate
Running(j) == \E w \in At("run") : work[w] = j
Accounted == \A j \in accepted \ late : j \in handled \/ Running(j) \/ Queued(j)

IInv == TypeOK /\ Threads /\ Ending /\ Accounted /\ WorkConserving
-----------------------------------------------------------------------------
\* The length and the items of a queue and its tail.
LEMMA JobsType ==
    ASSUME TypeOK
    PROVE  /\ DOMAIN jobs = 1..Len(jobs) /\ Len(jobs) \in Nat
           /\ \A i \in DOMAIN jobs : jobs[i] \in Jobs \cup {Terminate}
           /\ jobs = <<>> <=> Len(jobs) = 0
           /\ jobs # <<>> => Head(jobs) = jobs[1]
BY DEF TypeOK

\* What taking the first job leaves of the queue.
LEMMA TailOfJobs ==
    ASSUME TypeOK, jobs # <<>>
    PROVE  /\ Tail(jobs) \in Seq(Jobs \cup {Terminate})
           /\ Len(Tail(jobs)) = Len(jobs) - 1
           /\ DOMAIN Tail(jobs) = 1..(Len(jobs) - 1)
           /\ \A i \in 1..(Len(jobs) - 1) : Tail(jobs)[i] = jobs[i + 1]
<1>1. jobs \in Seq(Jobs \cup {Terminate})
  BY DEF TypeOK
<1>2. /\ Tail(jobs) \in Seq(Jobs \cup {Terminate})
      /\ Len(Tail(jobs)) = Len(jobs) - 1
      /\ \A i \in 1 .. Len(Tail(jobs)) : Tail(jobs)[i] = jobs[i+1]
  BY <1>1, HeadTailProperties
<1> QED
  BY <1>2

\* What the queue is once a job is at its end.
LEMMA AppendToJobs ==
    ASSUME TypeOK, NEW j \in Jobs \cup {Terminate}
    PROVE  /\ Append(jobs, j) \in Seq(Jobs \cup {Terminate})
           /\ Len(Append(jobs, j)) = Len(jobs) + 1
           /\ DOMAIN Append(jobs, j) = 1..(Len(jobs) + 1)
           /\ \A i \in 1..Len(jobs) : Append(jobs, j)[i] = jobs[i]
           /\ Append(jobs, j)[Len(jobs) + 1] = j
<1>1. jobs \in Seq(Jobs \cup {Terminate})
  BY DEF TypeOK
<1> QED
  BY <1>1, AppendProperties

\* The sets of workers are finite.
LEMMA WorkersFinite ==
    ASSUME NEW label
    PROVE  IsFiniteSet(At(label)) /\ Cardinality(At(label)) \in Nat
<1>1. IsFiniteSet(Workers)
  BY MaxThreadsAssumption, FS_Interval DEF Workers
<1>2. At(label) \subseteq Workers
  BY DEF At
<1> QED
  BY <1>1, <1>2, FS_Subset, FS_CardinalityType

\* A step that moves one worker.
LEMMA OneMoves ==
    ASSUME TypeOK, NEW w \in Workers, NEW l, pc' = [pc EXCEPT ![w] = l]
    PROVE  /\ \A x \in Workers : pc'[x] = IF x = w THEN l ELSE pc[x]
           /\ At(l)' = At(l) \cup {w}
           /\ \A k : k # l => At(k)' = At(k) \ {w}
BY DEF TypeOK, At

\* One more worker on its way to the queue, and the bound of WorkConserving
\* grows by one if it was not on its way before.
LEMMA OneComes ==
    ASSUME TypeOK, NEW w \in Workers, pc[w] # "lock", pc' = [pc EXCEPT ![w] = "lock"]
    PROVE  /\ Cardinality(At("lock")') = Cardinality(At("lock")) + 1
           /\ Cardinality(At("lock")) \in Nat
<1>1. At("lock")' = At("lock") \cup {w} /\ w \notin At("lock")
  BY OneMoves DEF At
<1>2. IsFiniteSet(At("lock")) /\ Cardinality(At("lock")) \in Nat
  BY WorkersFinite
<1> QED
  BY <1>1, <1>2, FS_AddElement

\* A worker that leaves the mutex is one fewer waiting for it.
LEMMA OneGoes ==
    ASSUME TypeOK, NEW w \in Workers, pc[w] = "lock", NEW l, l # "lock",
           pc' = [pc EXCEPT ![w] = l]
    PROVE  /\ Cardinality(At("lock")') = Cardinality(At("lock")) - 1
           /\ Cardinality(At("lock")) \in Nat
<1>1. At("lock")' = At("lock") \ {w} /\ w \in At("lock")
  <2>1. \A x \in Workers : pc'[x] = IF x = w THEN l ELSE pc[x]
    BY OneMoves
  <2> QED
    BY <2>1 DEF At
<1>2. IsFiniteSet(At("lock")) /\ Cardinality(At("lock")) \in Nat
  BY WorkersFinite
<1> QED
  BY <1>1, <1>2, FS_RemoveElement

\* A pool that does not exist yet satisfies the invariant.
LEMMA InitIInv == Init => IInv
<1> SUFFICES ASSUME Init PROVE IInv
  OBVIOUS
<1>1. \A label : label # "none" => At(label) = {}
  BY DEF Init, At
<1>2. TypeOK
  BY MaxThreadsAssumption DEF Init, TypeOK
<1>3. Threads
  BY <1>1, MaxThreadsAssumption DEF Init, Threads, Workers
<1>4. Ending
  BY <1>1 DEF Init, Ending, Ended, Ends
<1>5. Accounted /\ WorkConserving
  BY <1>1 DEF Init, Accounted, WorkConserving
<1> QED
  BY <1>2, <1>3, <1>4, <1>5 DEF IInv

-----------------------------------------------------------------------------
\* The owner's steps on the threads: creating, joining and freeing.
LEMMA OwnerSteps ==
    ASSUME IInv,
           \/ \E n \in -1..MaxThreads : pool_create(n)
           \/ CreateFails \/ CreateReturns \/ JoinThread \/ FreePool
    PROVE  IInv'
<1> USE MaxThreadsAssumption DEF IInv, Workers
<1>1. UNCHANGED <<jobs, pc, work, accepted, late, handled, nthreads>> /\ Ended' = Ended
  BY DEF pool_create, CreateFails, CreateReturns, JoinThread, FreePool, Ended
<1>2. TypeOK'
  <2>1. CASE \E n \in -1..MaxThreads : pool_create(n)
    BY <1>1, <2>1 DEF pool_create, TypeOK, Threads
  <2>2. CASE CreateFails \/ CreateReturns
    BY <1>1, <2>2 DEF CreateFails, CreateReturns, TypeOK
  <2>3. CASE JoinThread
    BY <1>1, <2>3 DEF JoinThread, TypeOK
  <2>4. CASE FreePool
    BY <1>1, <2>4 DEF FreePool, TypeOK
  <2> QED
    BY <2>1, <2>2, <2>3, <2>4
<1>3. Threads'
  <2>1. CASE \E n \in -1..MaxThreads : pool_create(n)
    BY <1>1, <2>1 DEF pool_create, Threads, At
  <2>2. CASE CreateFails \/ CreateReturns
    BY <1>1, <2>2 DEF CreateFails, CreateReturns, Threads, At
  <2>3. CASE JoinThread
    BY <1>1, <2>3 DEF JoinThread, Threads, At, TypeOK
  <2>4. CASE FreePool
    BY <1>1, <2>4 DEF FreePool, Threads, At
  <2> QED
    BY <2>1, <2>2, <2>3, <2>4
<1>4. Ending'
  BY <1>1 DEF Ending, Ends, At
<1>5. Accounted' /\ WorkConserving'
  BY <1>1 DEF Accounted, Running, Queued, WorkConserving, At
<1> QED
  BY <1>2, <1>3, <1>4, <1>5

\* A new thread goes to the queue.
LEMMA CreateThreadStep ==
    ASSUME IInv, CreateThread
    PROVE  IInv'
<1> USE DEF IInv
<1> DEFINE w == nthreads + 1
<1>1. w \in Workers /\ pc[w] = "none" /\ ~Ended /\ ~Ended'
  BY MaxThreadsAssumption DEF CreateThread, TypeOK, Threads, Workers, Ended
<1>2. pc' = [pc EXCEPT ![w] = "lock"]
  BY DEF CreateThread
<1> HIDE DEF w
<1>3. /\ \A x \in Workers : pc'[x] = IF x = w THEN "lock" ELSE pc[x]
      /\ \A k : k # "lock" => At(k)' = At(k) \ {w}
  BY <1>1, <1>2, OneMoves
<1>4. TypeOK'
  BY <1>1, <1>2, MaxThreadsAssumption DEF CreateThread, TypeOK
<1>5. Threads'
  <2>1. \A x \in 1..joined : x \in Workers /\ x # w
    BY MaxThreadsAssumption DEF TypeOK, Workers, w
  <2> QED
    BY <1>1, <1>3, <2>1, MaxThreadsAssumption
       DEF CreateThread, TypeOK, Threads, Workers, w
<1>6. Ending'
  BY <1>1, <1>3 DEF CreateThread, Ending, Ends
<1>7. Accounted'
  <2>1. UNCHANGED <<jobs, work, accepted, late, handled>>
    BY DEF CreateThread
  <2>2. \A x \in At("run") : x \in At("run")'
    BY <1>1, <1>3 DEF At
  <2> QED
    BY <2>1, <2>2 DEF Accounted, Running, Queued
<1>8. WorkConserving'
  <2>1. Cardinality(At("lock")') = Cardinality(At("lock")) + 1
        /\ Cardinality(At("lock")) \in Nat
    BY <1>1, <1>2, OneComes
  <2>2. At("wait")' # {} => At("wait") # {}
    BY <1>3 DEF At
  <2>3. UNCHANGED jobs /\ Len(jobs) \in Nat
    BY JobsType DEF CreateThread
  <2> QED
    BY <2>1, <2>2, <2>3 DEF WorkConserving
<1> QED
  BY <1>4, <1>5, <1>6, <1>7, <1>8

\* What pthread_cond_signal does to the workers: one sleeper, if any, is sent
\* to the queue.
LEMMA SignalStep ==
    ASSUME TypeOK, Signal
    PROVE  /\ pc' \in [Workers -> {"none", "lock", "wait", "run", "leave", "exited"}]
           /\ \A x \in Workers : pc'[x] = pc[x] \/ (pc[x] = "wait" /\ pc'[x] = "lock")
           /\ At("wait")' # {} =>
                /\ Cardinality(At("lock")') = Cardinality(At("lock")) + 1
                /\ Cardinality(At("lock")) \in Nat /\ At("wait") # {}
<1>1. CASE At("wait") = {}
  <2>1. UNCHANGED pc
    BY <1>1 DEF Signal
  <2> QED
    BY <1>1, <2>1 DEF TypeOK, At
<1>2. CASE At("wait") # {}
  <2>1. PICK w \in At("wait") : pc' = [pc EXCEPT ![w] = "lock"]
    BY <1>2 DEF Signal
  <2>2. w \in Workers /\ pc[w] = "wait"
    BY DEF At
  <2>3. /\ Cardinality(At("lock")') = Cardinality(At("lock")) + 1
        /\ Cardinality(At("lock")) \in Nat
    BY <2>1, <2>2, OneComes
  <2> QED
    BY <1>2, <2>1, <2>2, <2>3 DEF TypeOK
<1> QED
  BY <1>1, <1>2

\* pool_dispatch: the queue grows by one job and, if anybody sleeps, so does the
\* number of workers on their way to it.
LEMMA DispatchStep ==
    ASSUME IInv, NEW j \in Jobs, pool_dispatch(j)
    PROVE  IInv'
<1> USE DEF IInv
<1>1. /\ jobs' = Append(jobs, j) /\ UNCHANGED <<owner, want, nthreads, joined, work, handled>>
      /\ accepted' = accepted \cup {j} /\ j \notin accepted
      /\ late' = IF owner = "joining" THEN late \cup {j} ELSE late
      /\ owner \in {"up", "joining"} /\ Ended' = Ended
  BY DEF pool_dispatch, MayDispatch, pool, Ended
<1>2. /\ pc' \in [Workers -> {"none", "lock", "wait", "run", "leave", "exited"}]
      /\ \A x \in Workers : pc'[x] = pc[x] \/ (pc[x] = "wait" /\ pc'[x] = "lock")
      /\ At("wait")' # {} =>
           /\ Cardinality(At("lock")') = Cardinality(At("lock")) + 1
           /\ Cardinality(At("lock")) \in Nat /\ At("wait") # {}
  BY SignalStep DEF pool_dispatch
<1>3. /\ Append(jobs, j) \in Seq(Jobs \cup {Terminate})
      /\ Len(Append(jobs, j)) = Len(jobs) + 1
      /\ DOMAIN Append(jobs, j) = 1..(Len(jobs) + 1)
      /\ \A i \in 1..Len(jobs) : Append(jobs, j)[i] = jobs[i]
      /\ Append(jobs, j)[Len(jobs) + 1] = j
  BY AppendToJobs
<1>4. DOMAIN jobs = 1..Len(jobs) /\ Len(jobs) \in Nat /\ (jobs = <<>> <=> Len(jobs) = 0)
  BY JobsType
<1>5. At("run")' = At("run") /\ At("leave")' = At("leave") /\ At("exited")' = At("exited")
  BY <1>2 DEF At
<1>6. TypeOK'
  BY <1>1, <1>2, <1>3 DEF TypeOK
<1>7. Threads'
  <2>1. \A x \in 1..joined : x \in Workers
    BY MaxThreadsAssumption DEF TypeOK, Workers
  <2> QED
    BY <1>1, <1>2, <1>5, <2>1 DEF Threads
<1>8. Ending'
  <2>1. Ends' = Ends
    BY <1>1, <1>3, <1>4, TerminateAssumption DEF Ends
  <2>2. jobs # <<>> => jobs' # <<>> /\ jobs'[1] = jobs[1]
    BY <1>1, <1>3, <1>4
  <2>3. At("wait") = {} => At("wait")' = {}
    BY <1>2
  <2>4. ~Ended => UNCHANGED late
    BY <1>1 DEF Ended
  <2> QED
    BY <1>1, <1>5, <2>1, <2>2, <2>3, <2>4 DEF Ending
<1>9. Accounted'
  <2>1. ASSUME NEW k \in accepted \ late PROVE k \in handled' \/ Running(k)' \/ Queued(k)'
    <3>1. k \in handled \/ Running(k) \/ Queued(k)
      BY DEF Accounted
    <3>2. Running(k) => Running(k)'
      BY <1>1, <1>5 DEF Running
    <3>3. Queued(k) => Queued(k)'
      BY <1>1, <1>3, <1>4 DEF Queued
    <3> QED
      BY <1>1, <3>1, <3>2, <3>3
  <2>2. ASSUME j \notin late' PROVE Queued(j)'
    <3>1. Ends = {}
      BY <1>1, <2>2 DEF Ending, Ended
    <3>2. \A i \in 1..Len(jobs) : jobs[i] # Terminate
      BY <1>4, <3>1 DEF Ends
    <3> QED
      BY <1>1, <1>3, <1>4, <3>2, TerminateAssumption DEF Queued
  <2>3. \A k \in accepted' \ late' : k = j \/ k \in accepted \ late
    BY <1>1
  <2> QED
    BY <2>1, <2>2, <2>3 DEF Accounted
<1>10. WorkConserving'
  BY <1>1, <1>2, <1>3, <1>4 DEF WorkConserving
<1> QED
  BY <1>6, <1>7, <1>8, <1>9, <1>10

\* pool_join: the request goes behind every job, and nobody sleeps any more.
LEMMA JoinStep ==
    ASSUME IInv, pool_join
    PROVE  IInv'
<1> USE DEF IInv
<1>1. /\ jobs' = Append(jobs, Terminate) /\ owner = "up" /\ owner' = "joining"
      /\ UNCHANGED <<want, nthreads, joined, work, accepted, late, handled>>
      /\ pc' = [w \in Workers |-> IF pc[w] = "wait" THEN "lock" ELSE pc[w]]
      /\ ~Ended /\ Ended'
  BY DEF pool_join, Ended
<1>2. /\ Append(jobs, Terminate) \in Seq(Jobs \cup {Terminate})
      /\ DOMAIN Append(jobs, Terminate) = 1..(Len(jobs) + 1)
      /\ \A i \in 1..Len(jobs) : Append(jobs, Terminate)[i] = jobs[i]
      /\ Append(jobs, Terminate)[Len(jobs) + 1] = Terminate
  BY AppendToJobs
<1>3. DOMAIN jobs = 1..Len(jobs) /\ Len(jobs) \in Nat
  BY JobsType
<1>4. \A w \in Workers : pc'[w] = IF pc[w] = "wait" THEN "lock" ELSE pc[w]
  BY <1>1
<1>5. /\ At("run")' = At("run") /\ At("leave")' = At("leave") /\ At("exited")' = At("exited")
      /\ At("wait")' = {}
  BY <1>4 DEF At
<1>6. TypeOK'
  BY <1>1, <1>2 DEF TypeOK
<1>7. Threads'
  <2>1. \A x \in 1..joined : x \in Workers
    BY MaxThreadsAssumption DEF TypeOK, Workers
  <2> QED
    BY <1>1, <1>4, <1>5, <2>1 DEF Threads
<1>8. Ending'
  <2>1. Ends' # {}
    BY <1>1, <1>2, <1>3 DEF Ends
  <2>2. At("leave") \cup At("exited") = {}
    BY <1>1 DEF Ending
  <2> QED
    BY <1>1, <1>5, <2>1, <2>2 DEF Ending
<1>9. Accounted'
  <2>1. ASSUME NEW k \in accepted \ late PROVE k \in handled' \/ Running(k)' \/ Queued(k)'
    <3>1. k \in handled \/ Running(k) \/ Queued(k)
      BY DEF Accounted
    <3>2. Running(k) => Running(k)'
      BY <1>1, <1>5 DEF Running
    <3>3. Queued(k) => Queued(k)'
      BY <1>1, <1>2, <1>3 DEF Queued
    <3> QED
      BY <1>1, <3>1, <3>2, <3>3
  <2> QED
    BY <1>1, <2>1 DEF Accounted
<1>10. WorkConserving'
  BY <1>5 DEF WorkConserving
<1> QED
  BY <1>6, <1>7, <1>8, <1>9, <1>10

-----------------------------------------------------------------------------
\* A worker that moves without touching the queue, from or to the outside of a
\* job: what is queued and what runs stays where it is.
LEMMA WorkerMoves ==
    ASSUME IInv, NEW w \in Workers,
           NEW l \in {"lock", "wait", "leave", "exited"},
           pc[w] \in {"lock", "wait", "leave"}, pc' = [pc EXCEPT ![w] = l],
           UNCHANGED <<pool, jobs, work, accepted, late, handled>>,
           l = "wait" => ~Ended,
           l = "leave" => jobs # <<>> /\ jobs[1] = Terminate,
           l = "exited" => pc[w] = "leave"
    PROVE  TypeOK' /\ Threads' /\ Ending' /\ Accounted'
<1> USE DEF IInv
<1>1. /\ UNCHANGED <<owner, want, nthreads, joined, jobs, work, accepted, late, handled>>
      /\ Ended' = Ended /\ Ends' = Ends
  BY DEF pool, Ended, Ends
<1>2. \A x \in Workers : pc'[x] = IF x = w THEN l ELSE pc[x]
  BY OneMoves
<1>3. At("run")' = At("run")
  BY <1>2 DEF At
<1>4. TypeOK'
  BY <1>1 DEF TypeOK
<1>5. Threads'
  <2>1. \A x \in 1..joined : x \in Workers
    BY MaxThreadsAssumption DEF TypeOK, Workers
  <2> QED
    BY <1>1, <1>2, <1>3, <2>1 DEF Threads
<1>6. Ending'
  <2>1. jobs # <<>> /\ jobs[1] = Terminate => Ended
    BY JobsType DEF Ending, Ends
  <2>2. CASE l \in {"leave", "exited"}
    <3>1. jobs # <<>> /\ jobs[1] = Terminate
      BY <2>2 DEF Ending, At
    <3>2. At("wait")' \subseteq At("wait")
      BY <1>2, <2>2 DEF At
    <3> QED
      BY <1>1, <2>1, <3>1, <3>2 DEF Ending
  <2>3. CASE l \in {"lock", "wait"}
    <3>1. At("leave")' \subseteq At("leave") /\ At("exited")' \subseteq At("exited")
      BY <1>2, <2>3 DEF At
    <3>2. Ended => At("wait")' \subseteq At("wait")
      BY <1>2, <2>3 DEF At
    <3> QED
      BY <1>1, <3>1, <3>2 DEF Ending
  <2> QED
    BY <2>2, <2>3
<1>7. Accounted'
  BY <1>1, <1>3 DEF Accounted, Running, Queued
<1> QED
  BY <1>4, <1>5, <1>6, <1>7

\* A worker sleeps only when it finds the queue empty.
LEMMA SleepStep ==
    ASSUME IInv, NEW w \in Workers, Sleep(w)
    PROVE  IInv'
<1> USE DEF IInv
<1>1. /\ pc[w] = "lock" /\ jobs = <<>> /\ pc' = [pc EXCEPT ![w] = "wait"]
      /\ UNCHANGED <<pool, jobs, work, accepted, late, handled>>
  BY DEF Sleep
<1>2. ~Ended
  BY <1>1 DEF Ending, Ends
<1>3. TypeOK' /\ Threads' /\ Ending' /\ Accounted'
  BY <1>1, <1>2, WorkerMoves
<1>4. WorkConserving'
  <2>1. Cardinality(At("lock"))' \in Nat
    <3>1. IsFiniteSet(Workers)
      BY MaxThreadsAssumption, FS_Interval DEF Workers
    <3>2. At("lock")' \subseteq Workers
      BY DEF At
    <3> QED
      BY <3>1, <3>2, FS_Subset, FS_CardinalityType
  <2>2. Len(jobs') = 0
    BY <1>1
  <2> QED
    BY <2>1, <2>2 DEF WorkConserving
<1> QED
  BY <1>3, <1>4

\* A spurious wakeup only brings one more worker to the queue.
LEMMA WakeStep ==
    ASSUME IInv, NEW w \in Workers, WakeSpuriously(w)
    PROVE  IInv'
<1> USE DEF IInv
<1>1. /\ pc[w] = "wait" /\ pc' = [pc EXCEPT ![w] = "lock"]
      /\ UNCHANGED <<pool, jobs, work, accepted, late, handled>>
  BY DEF WakeSpuriously
<1>2. TypeOK' /\ Threads' /\ Ending' /\ Accounted'
  BY <1>1, WorkerMoves
<1>3. WorkConserving'
  <2>1. Cardinality(At("lock")') = Cardinality(At("lock")) + 1
        /\ Cardinality(At("lock")) \in Nat
    BY <1>1, OneComes
  <2>2. At("wait") # {}
    BY <1>1 DEF At
  <2> QED
    BY <1>1, <2>1, <2>2, JobsType DEF WorkConserving
<1> QED
  BY <1>2, <1>3

\* The queue and the workers on their way to it shrink together.
LEMMA TakeStep ==
    ASSUME IInv, NEW w \in Workers, TakeJob(w)
    PROVE  IInv'
<1> USE DEF IInv
<1>1. /\ pc[w] = "lock" /\ jobs # <<>> /\ jobs[1] # Terminate
      /\ work' = [work EXCEPT ![w] = jobs[1]] /\ jobs' = Tail(jobs)
      /\ pc' = [pc EXCEPT ![w] = "run"]
      /\ UNCHANGED <<owner, want, nthreads, joined, accepted, late, handled>>
      /\ Ended' = Ended
  BY JobsType DEF TakeJob, pool, Ended
<1>2. /\ Tail(jobs) \in Seq(Jobs \cup {Terminate})
      /\ Len(Tail(jobs)) = Len(jobs) - 1
      /\ DOMAIN Tail(jobs) = 1..(Len(jobs) - 1)
      /\ \A i \in 1..(Len(jobs) - 1) : Tail(jobs)[i] = jobs[i + 1]
  BY <1>1, TailOfJobs
<1>3. /\ DOMAIN jobs = 1..Len(jobs) /\ Len(jobs) \in Nat \ {0} /\ jobs[1] \in Jobs
  BY <1>1, JobsType
<1>4. \A x \in Workers : pc'[x] = IF x = w THEN "run" ELSE pc[x]
  BY <1>1, OneMoves
<1>5. \A x \in Workers : work'[x] = IF x = w THEN jobs[1] ELSE work[x]
  BY <1>1 DEF TypeOK
<1>6. /\ At("run")' = At("run") \cup {w} /\ w \notin At("run")
      /\ At("leave")' = At("leave") /\ At("exited")' = At("exited")
      /\ At("wait")' = At("wait")
  BY <1>1, <1>4 DEF At
<1>7. TypeOK'
  BY <1>1, <1>2, <1>3 DEF TypeOK
<1>8. Threads'
  <2>1. \A x \in 1..joined : x \in Workers
    BY MaxThreadsAssumption DEF TypeOK, Workers
  <2>2. \A x \in At("run") : x \in Workers
    BY DEF At
  <2> QED
    BY <1>1, <1>3, <1>4, <1>5, <1>6, <2>1, <2>2 DEF Threads
<1>9. Ending'
  <2>1. At("leave") \cup At("exited") = {}
    BY <1>1 DEF Ending
  <2>2. Ends # {} => Ends' # {}
    <3> SUFFICES ASSUME NEW i \in Ends PROVE Ends' # {}
      OBVIOUS
    <3>1. i - 1 \in 1..(Len(jobs) - 1) /\ jobs[i] = Terminate /\ (i - 1) + 1 = i
      BY <1>1, <1>3 DEF Ends
    <3>2. Tail(jobs)[i - 1] = Terminate
      BY <1>2, <3>1
    <3> QED
      BY <1>1, <1>2, <3>1, <3>2 DEF Ends
  <2>3. Ends = {} => Ends' = {}
    BY <1>1, <1>2, <1>3 DEF Ends
  <2> QED
    BY <1>1, <1>6, <2>1, <2>2, <2>3 DEF Ending
<1>10. Accounted'
  <2> SUFFICES ASSUME NEW k \in accepted \ late
               PROVE  k \in handled \/ Running(k)' \/ Queued(k)'
    BY <1>1 DEF Accounted
  <2>1. k \in handled \/ Running(k) \/ Queued(k)
    BY DEF Accounted
  <2>2. Running(k) => Running(k)'
    BY <1>5, <1>6 DEF Running, At
  <2>3. ASSUME Queued(k) PROVE Running(k)' \/ Queued(k)'
    <3>1. PICK i \in DOMAIN jobs : jobs[i] = k /\ \A n \in 1..i : jobs[n] # Terminate
      BY <2>3 DEF Queued
    <3>2. CASE i = 1
      BY <1>5, <1>6, <3>1, <3>2 DEF Running
    <3>3. CASE i # 1
      <4>1. i - 1 \in 1..(Len(jobs) - 1) /\ Tail(jobs)[i - 1] = k
        BY <1>2, <1>3, <3>1, <3>3
      <4>2. \A n \in 1..(i - 1) : Tail(jobs)[n] # Terminate
        BY <1>2, <1>3, <3>1, <4>1
      <4> QED
        BY <1>1, <1>2, <4>1, <4>2 DEF Queued
    <3> QED
      BY <3>2, <3>3
  <2> QED
    BY <2>1, <2>2, <2>3
<1>11. WorkConserving'
  <2>1. Cardinality(At("lock")') = Cardinality(At("lock")) - 1
        /\ Cardinality(At("lock")) \in Nat
    BY <1>1, OneGoes
  <2> QED
    BY <1>1, <1>2, <1>3, <1>6, <2>1 DEF WorkConserving
<1> QED
  BY <1>7, <1>8, <1>9, <1>10, <1>11

\* A job counts as handled from the step in which it stops running.
LEMMA DoneStep ==
    ASSUME IInv, NEW w \in Workers, JobDone(w)
    PROVE  IInv'
<1> USE DEF IInv
<1>1. /\ pc[w] = "run" /\ pc' = [pc EXCEPT ![w] = "lock"]
      /\ handled' = handled \cup {work[w]}
      /\ UNCHANGED <<owner, want, nthreads, joined, jobs, work, accepted, late>>
      /\ Ended' = Ended /\ Ends' = Ends
  BY DEF JobDone, pool, Ended, Ends
<1>2. \A x \in Workers : pc'[x] = IF x = w THEN "lock" ELSE pc[x]
  BY <1>1, OneMoves
<1>3. /\ At("run")' = At("run") \ {w} /\ w \in At("run")
      /\ At("leave")' = At("leave") /\ At("exited")' = At("exited")
      /\ At("wait")' = At("wait")
  BY <1>1, <1>2 DEF At
<1>4. work[w] \in Jobs
  BY <1>3 DEF Threads
<1>5. TypeOK'
  BY <1>1, <1>4 DEF TypeOK
<1>6. Threads'
  <2>1. \A x \in 1..joined : x \in Workers
    BY MaxThreadsAssumption DEF TypeOK, Workers
  <2> QED
    BY <1>1, <1>2, <1>3, <2>1 DEF Threads
<1>7. Ending'
  BY <1>1, <1>3 DEF Ending
<1>8. Accounted'
  BY <1>1, <1>3 DEF Accounted, Running, Queued
<1>9. WorkConserving'
  <2>1. Cardinality(At("lock")') = Cardinality(At("lock")) + 1
        /\ Cardinality(At("lock")) \in Nat
    BY <1>1, OneComes
  <2> QED
    BY <1>1, <1>3, <2>1, JobsType DEF WorkConserving
<1> QED
  BY <1>5, <1>6, <1>7, <1>8, <1>9

\* A worker leaves only when the request is at the front: nobody sleeps then.
LEMMA LeaveSteps ==
    ASSUME IInv, NEW w \in Workers, SeeTerminate(w) \/ Exit(w)
    PROVE  IInv'
<1> USE DEF IInv
<1>1. CASE SeeTerminate(w)
  <2>1. /\ pc[w] = "lock" /\ jobs # <<>> /\ jobs[1] = Terminate
        /\ pc' = [pc EXCEPT ![w] = "leave"]
        /\ UNCHANGED <<pool, jobs, work, accepted, late, handled>>
    BY <1>1, JobsType DEF SeeTerminate
  <2>2. TypeOK' /\ Threads' /\ Ending' /\ Accounted'
    BY <2>1, WorkerMoves
  <2>3. At("leave")' # {}
    BY <2>1, OneMoves
  <2>4. 1 \in Ends
    BY <2>1, JobsType DEF Ends
  <2>5. Ended /\ Ended' = Ended
    BY <2>1, <2>4 DEF Ending, Ended, pool
  <2>6. At("wait")' = {}
    BY <2>2, <2>5 DEF Ending
  <2> QED
    BY <2>2, <2>6 DEF WorkConserving
<1>2. CASE Exit(w)
  <2>1. /\ pc[w] = "leave" /\ pc' = [pc EXCEPT ![w] = "exited"]
        /\ UNCHANGED <<pool, jobs, work, accepted, late, handled>>
    BY <1>2 DEF Exit
  <2>2. TypeOK' /\ Threads' /\ Ending' /\ Accounted'
    BY <2>1, WorkerMoves
  <2>3. \A x \in Workers : pc'[x] = IF x = w THEN "exited" ELSE pc[x]
    BY <2>1, OneMoves
  <2>4. At("wait")' = At("wait") /\ At("lock")' = At("lock")
    BY <2>1, <2>3 DEF At
  <2> QED
    BY <2>1, <2>2, <2>4 DEF WorkConserving
<1> QED
  BY <1>1, <1>2

\* Every step keeps the invariant.
LEMMA NextIInv == IInv /\ [Next]_vars => IInv'
<1> SUFFICES ASSUME IInv, [Next]_vars PROVE IInv'
  OBVIOUS
<1>1. CASE \/ \E n \in -1..MaxThreads : pool_create(n)
           \/ CreateFails \/ CreateReturns \/ JoinThread \/ FreePool
  BY <1>1, OwnerSteps
<1>2. CASE CreateThread
  BY <1>2, CreateThreadStep
<1>3. ASSUME NEW j \in Jobs, pool_dispatch(j) PROVE IInv'
  BY <1>3, DispatchStep
<1>4. CASE pool_join
  BY <1>4, JoinStep
<1>5. ASSUME NEW w \in Workers, worker_routine(w) \/ WakeSpuriously(w) PROVE IInv'
  BY <1>5, SleepStep, TakeStep, DoneStep, LeaveSteps, WakeStep DEF worker_routine
<1>6. CASE UNCHANGED vars
  BY <1>6 DEF vars, pool, IInv, TypeOK, Threads, Ending, Ended, Ends, Accounted, Queued,
              Running, WorkConserving, At
<1> QED
  BY <1>1, <1>2, <1>3, <1>4, <1>5, <1>6 DEF Next

\* The invariant holds in every reachable state.
LEMMA AlwaysIInv == Spec => []IInv
BY InitIInv, NextIInv, PTL DEF Spec

\* Every variable keeps its type, for every number of threads and jobs.
THEOREM PoolTypeCorrect == Spec => []TypeOK
<1>1. IInv => TypeOK
  BY DEF IInv
<1> QED
  BY <1>1, AlwaysIInv, PTL

\* One signal per job is enough: while a worker sleeps, the queue is no longer
\* than the line of workers on their way to it.
THEOREM NoWakeupIsLost == Spec => []WorkConserving
<1>1. IInv => WorkConserving
  BY DEF IInv
<1> QED
  BY <1>1, AlwaysIInv, PTL

\* pool_join frees the pool after the last thread has looked at it.
THEOREM FreeIsSafe == Spec => []FreedIsUnused
<1>1. IInv => FreedIsUnused
  <2> SUFFICES ASSUME IInv, owner = "freed", NEW w \in Workers
               PROVE  pc[w] \in {"none", "exited"}
    BY DEF FreedIsUnused
  <2>1. joined = nthreads /\ nthreads \in Nat
    BY DEF IInv, Threads, TypeOK
  <2>2. CASE w > nthreads
    BY <2>2 DEF IInv, Threads
  <2>3. CASE ~(w > nthreads)
    BY <2>1, <2>3, MaxThreadsAssumption DEF IInv, Threads, Workers
  <2> QED
    BY <2>2, <2>3
<1> QED
  BY <1>1, AlwaysIInv, PTL

\* pool_join leaves no earlier job behind, if there is a thread at all: the
\* first thread has seen the request at the front of the queue.
THEOREM JoinLeavesNoJob == Spec => []JoinDrains
<1>1. IInv => JoinDrains
  <2> SUFFICES ASSUME IInv, owner = "freed", nthreads > 0, NEW j \in accepted \ late
               PROVE  j \in handled
    BY DEF JoinDrains
  <2>1. joined = nthreads /\ nthreads \in Nat /\ nthreads <= MaxThreads
    BY MaxThreadsAssumption DEF IInv, Threads, TypeOK
  <2>2. 1 \in Workers /\ pc[1] = "exited"
    BY <2>1, MaxThreadsAssumption DEF IInv, Threads, Workers
  <2>3. jobs # <<>> /\ jobs[1] = Terminate
    BY <2>2 DEF IInv, Ending, At
  <2>4. ~Queued(j)
    BY <2>3, JobsType DEF IInv, Queued
  <2>5. \A w \in Workers : pc[w] # "run"
    <3> TAKE w \in Workers
    <3>1. CASE w > nthreads
      BY <3>1 DEF IInv, Threads
    <3>2. CASE ~(w > nthreads)
      BY <2>1, <3>2, MaxThreadsAssumption DEF IInv, Threads, Workers
    <3> QED
      BY <3>1, <3>2
  <2>6. ~Running(j)
    BY <2>5 DEF Running, At
  <2> QED
    BY <2>4, <2>6 DEF IInv, Accounted
<1> QED
  BY <1>1, AlwaysIInv, PTL

-----------------------------------------------------------------------------
(* The pool implements the job service. *)

\* No job is in two places, or twice in one, and the request is in one.
Serial ==
    /\ \A i, k \in DOMAIN jobs : jobs[i] = jobs[k] => i = k
    /\ \A i \in DOMAIN jobs : jobs[i] \in (accepted \ handled) \cup {Terminate}
    /\ \A w \in At("run") : work[w] \in accepted \ handled
    /\ \A w \in At("run") : \A i \in DOMAIN jobs : work[w] # jobs[i]
    /\ \A w, x \in At("run") : work[w] = work[x] => w = x
    /\ handled \subseteq accepted

\* Nothing is queued and nothing runs before pool_create returns.
Idle == State = "absent" => jobs = <<>> /\ At("run") = {}

SInv == Serial /\ Idle

Active == {work[w] : w \in At("run")}
-----------------------------------------------------------------------------
\* A cut of a queue is not moved by what is added behind it.
LEMMA CutOfAppend ==
    ASSUME NEW S, NEW q \in Seq(S), NEW j \in S, NEW e \in 1..(Len(q) + 1)
    PROVE  SubSeq(Append(q, j), 1, e - 1) = SubSeq(q, 1, e - 1)
<1> DEFINE a == Append(q, j)
<1>1. /\ Len(q) \in Nat /\ a \in Seq(S) /\ Len(a) = Len(q) + 1
      /\ \A i \in 1..Len(q) : a[i] = q[i] /\ q[i] \in S
  BY LenProperties, AppendProperties
<1> HIDE DEF a
<1>2. /\ SubSeq(q, 1, e - 1) \in Seq(S) /\ Len(SubSeq(q, 1, e - 1)) = e - 1
      /\ \A i \in 1..(e - 1) : SubSeq(q, 1, e - 1)[i] = q[i]
  <2>1. \A i \in 1..(e - 1) : q[i] \in S
    BY <1>1
  <2>2. e - 1 \in Int /\ 1 \in Int /\ e - 1 >= 0 /\ (e - 1) - 1 + 1 = e - 1
    BY <1>1
  <2>3. /\ SubSeq(q, 1, e - 1) \in Seq(S)
        /\ Len(SubSeq(q, 1, e - 1)) = IF 1 <= e - 1 THEN (e - 1) - 1 + 1 ELSE 0
        /\ \A i \in 1..((e - 1) - 1 + 1) : SubSeq(q, 1, e - 1)[i] = q[1 + i - 1]
    BY <2>1, <2>2, SubSeqProperties
  <2> QED
    BY <2>2, <2>3
<1>3. /\ SubSeq(a, 1, e - 1) \in Seq(S) /\ Len(SubSeq(a, 1, e - 1)) = e - 1
      /\ \A i \in 1..(e - 1) : SubSeq(a, 1, e - 1)[i] = a[i]
  <2>1. \A i \in 1..(e - 1) : a[i] \in S
    BY <1>1
  <2>2. e - 1 \in Int /\ 1 \in Int /\ e - 1 >= 0 /\ (e - 1) - 1 + 1 = e - 1
    BY <1>1
  <2>3. /\ SubSeq(a, 1, e - 1) \in Seq(S)
        /\ Len(SubSeq(a, 1, e - 1)) = IF 1 <= e - 1 THEN (e - 1) - 1 + 1 ELSE 0
        /\ \A i \in 1..((e - 1) - 1 + 1) : SubSeq(a, 1, e - 1)[i] = a[1 + i - 1]
    BY <2>1, <2>2, SubSeqProperties
  <2> QED
    BY <2>2, <2>3
<1>4. \A i \in 1..(e - 1) : SubSeq(a, 1, e - 1)[i] = SubSeq(q, 1, e - 1)[i]
  <2> TAKE i \in 1..(e - 1)
  <2>1. i \in 1..Len(q)
    BY <1>1
  <2> QED
    BY <1>1, <1>2, <1>3, <2>1
<1>5. SubSeq(a, 1, e - 1) = SubSeq(q, 1, e - 1)
  BY <1>2, <1>3, <1>4, SeqEqual
<1> QED
  BY <1>5 DEF a

\* Taking the first job shortens the cut of a queue by it.
LEMMA CutOfTail ==
    ASSUME NEW S, NEW q \in Seq(S), NEW e \in 2..Len(q)
    PROVE  /\ SubSeq(q, 1, e - 1) # <<>>
           /\ Head(SubSeq(q, 1, e - 1)) = q[1]
           /\ Tail(SubSeq(q, 1, e - 1)) = SubSeq(Tail(q), 1, e - 2)
<1> DEFINE c == SubSeq(q, 1, e - 1)
           d == SubSeq(Tail(q), 1, e - 2)
<1>1. Len(q) \in Nat /\ \A i \in 1..Len(q) : q[i] \in S
  BY LenProperties
<1>2. /\ e - 1 \in 1..Len(q) /\ 1 \in 1..Len(q) /\ q # <<>>
      /\ e - 2 \in Int /\ e - 1 \in Int /\ 1 \in Int
  BY <1>1
<1>3. Head(c) = q[1]
  BY <1>2, HeadTailOfSubSeq
<1>4. /\ c \in Seq(S) /\ Len(c) = e - 1 /\ \A i \in 1..(e - 1) : c[i] = q[i]
  <2>1. /\ c \in Seq(S)
        /\ Len(c) = IF 1 <= e - 1 THEN (e - 1) - 1 + 1 ELSE 0
        /\ \A i \in 1..((e - 1) - 1 + 1) : c[i] = q[1 + i - 1]
    <3>1. \A i \in 1..(e - 1) : q[i] \in S
      BY <1>1, <1>2
    <3> QED
      BY <1>2, <3>1, SubSeqProperties
  <2> QED
    BY <1>2, <2>1
<1>5. Tail(q) \in Seq(S) /\ Len(Tail(q)) = Len(q) - 1
      /\ \A i \in 1..(Len(q) - 1) : Tail(q)[i] = q[i + 1] /\ q[i + 1] \in S
  BY <1>1, <1>2, HeadTailProperties
<1>6. /\ d \in Seq(S) /\ Len(d) = e - 2 /\ \A i \in 1..(e - 2) : d[i] = q[i + 1]
  <2>1. /\ d \in Seq(S)
        /\ Len(d) = IF 1 <= e - 2 THEN (e - 2) - 1 + 1 ELSE 0
        /\ \A i \in 1..((e - 2) - 1 + 1) : d[i] = Tail(q)[1 + i - 1]
    <3>1. \A i \in 1..(e - 2) : Tail(q)[i] \in S
      BY <1>1, <1>2, <1>5
    <3> QED
      BY <1>2, <3>1, SubSeqProperties
  <2> QED
    BY <1>1, <1>2, <1>5, <2>1
<1> HIDE DEF c, d
<1>7. c # <<>>
  BY <1>2, <1>4
<1>8. /\ Tail(c) \in Seq(S) /\ Len(Tail(c)) = e - 2
      /\ \A i \in 1..(e - 2) : Tail(c)[i] = q[i + 1]
  BY <1>2, <1>4, <1>7, HeadTailProperties
<1>9. Tail(c) = d
  BY <1>6, <1>8, SeqEqual
<1> QED
  BY <1>3, <1>7, <1>9 DEF c, d

\* A queue whose only request is at e, and one that has none.
LEMMA BeforeIs ==
    /\ Ends = {} => Before = jobs
    /\ \A e : Ends = {e} => Before = SubSeq(jobs, 1, e - 1)
BY DEF Before

\* The same in the state that follows.
LEMMA BeforeWillBe ==
    /\ Ends' = {} => Before' = jobs'
    /\ \A e : Ends' = {e} => Before' = SubSeq(jobs', 1, e - 1)
BY DEF Before

\* There is one request at most, and there is one from pool_join on.
LEMMA OneRequest ==
    ASSUME IInv, Serial
    PROVE  Ended => \E e \in 1..Len(jobs) : Ends = {e} /\ jobs[e] = Terminate
<1>1. DOMAIN jobs = 1..Len(jobs)
  BY JobsType DEF IInv
<1>2. \A i, k \in Ends : i = k
  BY DEF Ends, Serial
<1> SUFFICES ASSUME Ended PROVE \E e \in 1..Len(jobs) : Ends = {e} /\ jobs[e] = Terminate
  OBVIOUS
<1>3. PICK e \in Ends : TRUE
  BY DEF IInv, Ending
<1>4. Ends = {e}
  BY <1>2, <1>3
<1> QED
  BY <1>1, <1>3, <1>4 DEF Ends

-----------------------------------------------------------------------------
\* Nothing is there before pool_create.
LEMMA InitSInv == Init => SInv
<1> SUFFICES ASSUME Init PROVE SInv
  OBVIOUS
<1>1. At("run") = {} /\ jobs = <<>> /\ handled = {} /\ DOMAIN jobs = {}
  BY DEF Init, At
<1> QED
  BY <1>1 DEF SInv, Serial, Idle

\* A step that leaves the queue and the jobs alone, and State unless the queue
\* is empty and nothing runs.
LEMMA QuietStep ==
    ASSUME SInv, UNCHANGED <<jobs, work, accepted, handled>>, At("run")' = At("run"),
           State' = "absent" => State = "absent"
    PROVE  SInv'
BY DEF SInv, Serial, Idle

\* The owner is in none of the states before pool_create returns.
LEMMA StateIs ==
    ASSUME TypeOK
    PROVE  /\ State = "absent" <=> owner \in {"none", "failed", "creating"}
           /\ State = "open" <=> owner = "up"
           /\ State = "closing" <=> owner = "joining"
           /\ State = "closed" <=> owner = "freed"
BY DEF State, TypeOK

\* An accepted job is new, wherever one looks.
LEMMA DispatchKeeps ==
    ASSUME IInv, SInv, NEW j \in Jobs, pool_dispatch(j)
    PROVE  SInv'
<1> USE DEF IInv
<1>1. /\ jobs' = Append(jobs, j) /\ UNCHANGED <<owner, work, handled>>
      /\ accepted' = accepted \cup {j} /\ j \notin accepted
      /\ owner \in {"up", "joining"}
  BY DEF pool_dispatch, MayDispatch, pool
<1>2. At("run")' = At("run")
  <2>1. \A x \in Workers : pc'[x] = pc[x] \/ (pc[x] = "wait" /\ pc'[x] = "lock")
    BY SignalStep DEF pool_dispatch
  <2> QED
    BY <2>1 DEF At
<1>3. /\ DOMAIN jobs = 1..Len(jobs) /\ Len(jobs) \in Nat
      /\ DOMAIN jobs' = 1..(Len(jobs) + 1) /\ jobs'[Len(jobs) + 1] = j
      /\ \A i \in 1..Len(jobs) : jobs'[i] = jobs[i]
  BY <1>1, AppendToJobs, JobsType
<1>4. j # Terminate
  BY TerminateAssumption
<1>5. \A i \in DOMAIN jobs' : i = Len(jobs) + 1 \/ i \in DOMAIN jobs
  BY <1>3
<1>6. j \notin handled /\ \A i \in DOMAIN jobs : jobs[i] # j
  BY <1>1, <1>4 DEF SInv, Serial
<1>7. Serial'
  BY <1>1, <1>2, <1>3, <1>5, <1>6 DEF SInv, Serial
<1>8. Idle'
  BY <1>1, StateIs DEF Idle, State
<1> QED
  BY <1>7, <1>8 DEF SInv

\* The request is put into a queue that has none.
LEMMA JoinKeeps ==
    ASSUME IInv, SInv, pool_join
    PROVE  SInv'
<1> USE DEF IInv
<1>1. /\ jobs' = Append(jobs, Terminate) /\ owner = "up" /\ owner' = "joining"
      /\ UNCHANGED <<work, accepted, handled>> /\ ~Ended
      /\ pc' = [w \in Workers |-> IF pc[w] = "wait" THEN "lock" ELSE pc[w]]
  BY DEF pool_join, Ended
<1>2. At("run")' = At("run")
  BY <1>1 DEF At
<1>3. /\ DOMAIN jobs = 1..Len(jobs) /\ Len(jobs) \in Nat
      /\ DOMAIN jobs' = 1..(Len(jobs) + 1) /\ jobs'[Len(jobs) + 1] = Terminate
      /\ \A i \in 1..Len(jobs) : jobs'[i] = jobs[i]
  BY <1>1, AppendToJobs, JobsType
<1>4. \A i \in DOMAIN jobs : jobs[i] # Terminate
  BY <1>1 DEF Ending, Ends
<1>5. \A i \in DOMAIN jobs' : i = Len(jobs) + 1 \/ i \in DOMAIN jobs
  BY <1>3
<1>6. \A w \in At("run") : work[w] # Terminate
  BY TerminateAssumption DEF Threads
<1>7. Serial'
  BY <1>1, <1>2, <1>3, <1>4, <1>5, <1>6 DEF SInv, Serial
<1>8. Idle'
  BY <1>1 DEF Idle, State
<1> QED
  BY <1>7, <1>8 DEF SInv

\* The job taken leaves the queue for one worker.
LEMMA TakeKeeps ==
    ASSUME IInv, SInv, NEW w \in Workers, TakeJob(w)
    PROVE  SInv'
<1> USE DEF IInv
<1>1. /\ pc[w] = "lock" /\ jobs # <<>> /\ jobs[1] # Terminate
      /\ work' = [work EXCEPT ![w] = jobs[1]] /\ jobs' = Tail(jobs)
      /\ pc' = [pc EXCEPT ![w] = "run"]
      /\ UNCHANGED <<owner, accepted, handled>>
  BY JobsType DEF TakeJob, pool
<1>2. /\ DOMAIN jobs = 1..Len(jobs) /\ Len(jobs) \in Nat \ {0}
      /\ DOMAIN jobs' = 1..(Len(jobs) - 1)
      /\ \A i \in 1..(Len(jobs) - 1) : jobs'[i] = jobs[i + 1]
  BY <1>1, TailOfJobs, JobsType
<1>3. /\ \A x \in Workers : work'[x] = IF x = w THEN jobs[1] ELSE work[x]
      /\ At("run")' = At("run") \cup {w} /\ w \notin At("run")
  <2>1. \A x \in Workers : pc'[x] = IF x = w THEN "run" ELSE pc[x]
    BY <1>1, OneMoves
  <2> QED
    BY <1>1, <2>1 DEF TypeOK, At
<1>4. \A x \in At("run") : x \in Workers /\ x # w /\ work'[x] = work[x]
  BY <1>3 DEF At
<1>5. work'[w] = jobs[1] /\ 1 \in DOMAIN jobs
  BY <1>2, <1>3
<1>6. \A i \in DOMAIN jobs' : jobs'[i] = jobs[i + 1] /\ i + 1 \in DOMAIN jobs /\ i + 1 # 1
  BY <1>2
<1>7. \A i, k \in DOMAIN jobs' : jobs'[i] = jobs'[k] => i = k
  <2> SUFFICES ASSUME NEW i \in DOMAIN jobs', NEW k \in DOMAIN jobs', jobs'[i] = jobs'[k]
               PROVE  i = k
    OBVIOUS
  <2>1. i + 1 = k + 1
    BY <1>6 DEF SInv, Serial
  <2> QED
    BY <1>2, <2>1
<1>8. jobs[1] \in accepted \ handled
  BY <1>1, <1>5 DEF SInv, Serial
<1>9. /\ \A i \in DOMAIN jobs' : jobs'[i] \in (accepted \ handled) \cup {Terminate}
      /\ \A i \in DOMAIN jobs' : jobs'[i] # jobs[1]
  BY <1>5, <1>6 DEF SInv, Serial
<1>10. /\ \A x \in At("run")' : work'[x] \in accepted \ handled
       /\ \A x \in At("run")' : \A i \in DOMAIN jobs' : work'[x] # jobs'[i]
       /\ \A x, y \in At("run")' : work'[x] = work'[y] => x = y
  BY <1>3, <1>4, <1>5, <1>6, <1>8, <1>9 DEF SInv, Serial
<1>11. Serial'
  BY <1>1, <1>7, <1>9, <1>10 DEF SInv, Serial
<1>12. Idle'
  BY <1>1 DEF SInv, Idle, State
<1> QED
  BY <1>11, <1>12 DEF SInv

\* A job handled was running, and nowhere else.
LEMMA DoneKeeps ==
    ASSUME IInv, SInv, NEW w \in Workers, JobDone(w)
    PROVE  SInv'
<1> USE DEF IInv
<1>1. /\ pc[w] = "run" /\ pc' = [pc EXCEPT ![w] = "lock"]
      /\ handled' = handled \cup {work[w]} /\ UNCHANGED <<owner, jobs, work, accepted>>
  BY DEF JobDone, pool
<1>2. At("run")' = At("run") \ {w} /\ w \in At("run")
  <2>1. \A x \in Workers : pc'[x] = IF x = w THEN "lock" ELSE pc[x]
    BY <1>1, OneMoves
  <2> QED
    BY <1>1, <2>1 DEF At
<1>3. Serial'
  BY <1>1, <1>2, TerminateAssumption DEF SInv, Serial
<1>4. Idle'
  BY <1>1, <1>2 DEF SInv, Idle, State
<1> QED
  BY <1>3, <1>4 DEF SInv

\* A step of a worker that touches no job.
LEMMA OthersKeep ==
    ASSUME IInv, SInv, NEW w \in Workers,
           Sleep(w) \/ WakeSpuriously(w) \/ SeeTerminate(w) \/ Exit(w)
    PROVE  /\ UNCHANGED <<owner, nthreads, jobs, work, accepted, late, handled>>
           /\ At("run")' = At("run")
<1> USE DEF IInv
<1>1. PICK l \in {"wait", "lock", "leave", "exited"} :
          pc' = [pc EXCEPT ![w] = l] /\ pc[w] # "run"
  BY DEF Sleep, WakeSpuriously, SeeTerminate, Exit
<1>2. \A x \in Workers : pc'[x] = IF x = w THEN l ELSE pc[x]
  BY <1>1, OneMoves
<1>3. At("run")' = At("run")
  BY <1>1, <1>2 DEF At
<1> QED
  BY <1>3 DEF Sleep, WakeSpuriously, SeeTerminate, Exit, pool

\* A step of the owner that touches no job.
LEMMA OwnerKeeps ==
    ASSUME IInv, SInv,
           \/ \E n \in -1..MaxThreads : pool_create(n)
           \/ CreateFails \/ CreateThread \/ CreateReturns \/ JoinThread \/ FreePool
    PROVE  /\ UNCHANGED <<jobs, work, accepted, late, handled>>
           /\ At("run")' = At("run") /\ (State' = "absent" => State = "absent")
<1> USE DEF IInv
<1>1. CASE CreateThread
  <2>1. nthreads + 1 \in Workers /\ pc[nthreads + 1] = "none"
    BY <1>1, MaxThreadsAssumption DEF CreateThread, TypeOK, Threads, Workers
  <2>2. \A x \in Workers : pc'[x] = IF x = nthreads + 1 THEN "lock" ELSE pc[x]
    BY <1>1, <2>1, OneMoves DEF CreateThread
  <2>3. At("run")' = At("run")
    BY <2>1, <2>2 DEF At
  <2> QED
    BY <1>1, <2>3 DEF CreateThread, State
<1>2. CASE \/ \E n \in -1..MaxThreads : pool_create(n)
           \/ CreateFails \/ CreateReturns \/ JoinThread \/ FreePool
  BY <1>2 DEF pool_create, CreateFails, CreateReturns, JoinThread, FreePool, State, At
<1> QED
  BY <1>1, <1>2

\* Every step keeps jobs apart.
LEMMA NextSInv == IInv /\ SInv /\ [Next]_vars => SInv'
<1> SUFFICES ASSUME IInv, SInv, [Next]_vars PROVE SInv'
  OBVIOUS
<1>1. CASE \/ \E n \in -1..MaxThreads : pool_create(n)
           \/ CreateFails \/ CreateThread \/ CreateReturns \/ JoinThread \/ FreePool
  BY <1>1, OwnerKeeps, QuietStep
<1>2. ASSUME NEW j \in Jobs, pool_dispatch(j) PROVE SInv'
  BY <1>2, DispatchKeeps
<1>3. CASE pool_join
  BY <1>3, JoinKeeps
<1>4. ASSUME NEW w \in Workers, worker_routine(w) \/ WakeSpuriously(w) PROVE SInv'
  <2>1. CASE TakeJob(w) \/ JobDone(w)
    BY <2>1, TakeKeeps, DoneKeeps
  <2>2. CASE Sleep(w) \/ WakeSpuriously(w) \/ SeeTerminate(w) \/ Exit(w)
    <3>1. UNCHANGED <<owner, jobs, work, accepted, handled>> /\ At("run")' = At("run")
      BY <2>2, OthersKeep
    <3>2. State' = State
      BY <3>1 DEF State
    <3> QED
      BY <3>1, <3>2, QuietStep
  <2> QED
    BY <1>4, <2>1, <2>2 DEF worker_routine
<1>5. CASE UNCHANGED vars
  BY <1>5, QuietStep DEF vars, pool, At, State
<1> QED
  BY <1>1, <1>2, <1>3, <1>4, <1>5 DEF Next
-----------------------------------------------------------------------------
\* What the service sees of a step that moves no job: nothing.
LEMMA Unseen ==
    ASSUME UNCHANGED <<jobs, work, late, handled>>, At("run")' = At("run"),
           State' = State, nthreads' = nthreads \/ State = "absent"
    PROVE  UNCHANGED JS!vars
<1>1. Before' = Before
  BY DEF Before, Ends
<1>2. Active' = Active
  BY DEF Active
<1> QED
  BY <1>1, <1>2 DEF JS!vars, Active

\* The service opens when pool_create returns.
LEMMA OwnerMaps ==
    ASSUME IInv, SInv,
           \/ \E n \in -1..MaxThreads : pool_create(n)
           \/ CreateFails \/ CreateThread \/ CreateReturns \/ JoinThread
    PROVE  [JS!Next]_(JS!vars)
<1>1. UNCHANGED <<jobs, work, accepted, late, handled>> /\ At("run")' = At("run")
  BY OwnerKeeps
<1>2. CASE \/ \E n \in -1..MaxThreads : pool_create(n)
           \/ CreateFails \/ CreateThread \/ JoinThread
  <2>1. State' = State /\ (nthreads' = nthreads \/ State = "absent")
    BY <1>2 DEF pool_create, CreateFails, CreateThread, JoinThread, State
  <2> QED
    BY <1>1, <2>1, Unseen
<1>3. CASE CreateReturns
  <2>1. State = "absent" /\ State' = "open" /\ nthreads' = nthreads
    BY <1>3 DEF CreateReturns, State
  <2>2. Before' = Before /\ Active' = Active
    BY <1>1 DEF Before, Ends, Active
  <2>3. JS!Open
    BY <1>1, <2>1, <2>2 DEF JS!Open, Active
  <2> QED
    BY <2>3 DEF JS!Next
<1> QED
  BY <1>2, <1>3

\* A job is accepted while the service is open and abandoned while it closes.
LEMMA DispatchMaps ==
    ASSUME IInv, SInv, NEW j \in Jobs, pool_dispatch(j)
    PROVE  [JS!Next]_(JS!vars)
<1> USE DEF IInv
<1>1. /\ jobs' = Append(jobs, j) /\ UNCHANGED <<owner, nthreads, work, handled>>
      /\ late' = IF owner = "joining" THEN late \cup {j} ELSE late
      /\ owner = "up" \/ (owner = "joining" /\ At("run") # {})
      /\ State' = State
  BY DEF pool_dispatch, MayDispatch, pool, State
<1>2. Active' = Active
  <2>1. \A x \in Workers : pc'[x] = pc[x] \/ (pc[x] = "wait" /\ pc'[x] = "lock")
    BY SignalStep DEF pool_dispatch
  <2>2. At("run")' = At("run")
    BY <2>1 DEF At
  <2> QED
    BY <1>1, <2>2 DEF Active
<1>3. /\ jobs \in Seq(Jobs \cup {Terminate}) /\ j \in Jobs \cup {Terminate}
      /\ DOMAIN jobs = 1..Len(jobs) /\ Len(jobs) \in Nat
      /\ DOMAIN jobs' = 1..(Len(jobs) + 1) /\ jobs'[Len(jobs) + 1] = j
      /\ \A i \in 1..Len(jobs) : jobs'[i] = jobs[i]
  BY <1>1, AppendToJobs, JobsType DEF TypeOK
<1>4. Ends' = Ends
  BY <1>3, TerminateAssumption DEF Ends
<1>5. CASE owner = "up"
  <2>1. Ends = {}
    BY <1>5 DEF Ending, Ended
  <2>2. Before' = Append(Before, j)
    BY <1>1, <1>4, <2>1, BeforeIs, BeforeWillBe
  <2>3. State = "open"
    BY <1>5 DEF State
  <2>4. JS!Accept(j)
    BY <1>1, <1>2, <1>5, <2>2, <2>3 DEF JS!Accept, Active
  <2> QED
    BY <2>4 DEF JS!Next
<1>6. CASE owner = "joining" /\ At("run") # {}
  <2>1. PICK e \in 1..Len(jobs) : Ends = {e}
    BY <1>6, OneRequest DEF SInv, Ended
  <2>2. Before = SubSeq(jobs, 1, e - 1) /\ Before' = SubSeq(jobs', 1, e - 1)
    BY <1>4, <2>1, BeforeIs, BeforeWillBe
  <2>3. e \in 1..(Len(jobs) + 1)
    BY <1>3
  <2>4. Before' = Before
    BY <1>1, <1>3, <2>2, <2>3, CutOfAppend
  <2>5. State = "closing" /\ Active # {}
    BY <1>6 DEF State, Active
  <2>6. JS!Abandon(j)
    BY <1>1, <1>2, <1>6, <2>4, <2>5 DEF JS!Abandon, Active
  <2> QED
    BY <2>6 DEF JS!Next
<1> QED
  BY <1>1, <1>5, <1>6

\* The request goes behind every pending job.
LEMMA JoinMaps ==
    ASSUME IInv, SInv, pool_join
    PROVE  [JS!Next]_(JS!vars)
<1> USE DEF IInv
<1>1. /\ jobs' = Append(jobs, Terminate) /\ owner = "up" /\ owner' = "joining"
      /\ UNCHANGED <<nthreads, work, late, handled>>
      /\ pc' = [w \in Workers |-> IF pc[w] = "wait" THEN "lock" ELSE pc[w]]
      /\ State = "open" /\ State' = "closing"
  BY DEF pool_join, State
<1>2. At("run")' = At("run")
  BY <1>1 DEF At
<1>3. Active' = Active
  BY <1>1, <1>2 DEF Active
<1>4. /\ jobs \in Seq(Jobs \cup {Terminate})
      /\ DOMAIN jobs = 1..Len(jobs) /\ Len(jobs) \in Nat
      /\ DOMAIN jobs' = 1..(Len(jobs) + 1) /\ jobs'[Len(jobs) + 1] = Terminate
      /\ \A i \in 1..Len(jobs) : jobs'[i] = jobs[i]
  BY <1>1, AppendToJobs, JobsType DEF TypeOK
<1>5. Ends = {}
  BY <1>1 DEF Ending, Ended
<1>6. Ends' = {Len(jobs) + 1}
  BY <1>4, <1>5 DEF Ends
<1>7. Before' = SubSeq(jobs', 1, (Len(jobs) + 1) - 1)
  BY <1>6, BeforeWillBe
<1>8. SubSeq(jobs', 1, (Len(jobs) + 1) - 1) = SubSeq(jobs, 1, (Len(jobs) + 1) - 1)
  <2>1. Terminate \in Jobs \cup {Terminate} /\ Len(jobs) + 1 \in 1..(Len(jobs) + 1)
    BY <1>4
  <2> QED
    BY <1>1, <1>4, <2>1, CutOfAppend
<1>9. SubSeq(jobs, 1, (Len(jobs) + 1) - 1) = jobs
  <2>1. (Len(jobs) + 1) - 1 = Len(jobs)
    BY <1>4
  <2> QED
    BY <1>4, <2>1, SubSeqFull
<1>10. Before' = Before
  BY <1>5, <1>7, <1>8, <1>9, BeforeIs
<1>11. JS!Close
  BY <1>1, <1>3, <1>10 DEF JS!Close, Active
<1> QED
  BY <1>11 DEF JS!Next

\* The pool is freed when nothing runs and, if it has a thread, nothing pends.
LEMMA FreeMaps ==
    ASSUME IInv, SInv, FreePool
    PROVE  [JS!Next]_(JS!vars)
<1> USE DEF IInv
<1>1. /\ owner = "joining" /\ owner' = "freed" /\ joined = nthreads
      /\ UNCHANGED <<nthreads, jobs, pc, work, late, handled>>
      /\ State = "closing" /\ State' = "closed"
  BY DEF FreePool, State
<1>2. At("run")' = At("run") /\ Before' = Before
  BY <1>1 DEF At, Before, Ends
<1>3. At("run") = {}
  <2>1. \A w \in Workers : w > nthreads \/ w \in 1..joined
    BY <1>1, MaxThreadsAssumption DEF TypeOK, Workers
  <2>2. \A w \in Workers : pc[w] \in {"none", "exited"}
    BY <2>1 DEF Threads
  <2> QED
    BY <2>2 DEF At
<1>4. Active = {} /\ Active' = Active
  BY <1>1, <1>2, <1>3 DEF Active
<1>5. ASSUME nthreads > 0 PROVE Before = <<>>
  <2>1. 1 \in 1..joined /\ 1 \in Workers
    BY <1>1, <1>5, MaxThreadsAssumption DEF TypeOK, Workers
  <2>2. 1 \in At("exited")
    BY <2>1 DEF Threads, At
  <2>3. jobs # <<>> /\ jobs[1] = Terminate
    BY <2>2 DEF Ending
  <2>4. 1 \in Ends
    BY <2>3, JobsType DEF Ends
  <2>5. Ends = {1}
    BY <1>1, <2>4, OneRequest DEF SInv, Ended
  <2>6. Before = SubSeq(jobs, 1, 1 - 1)
    BY <2>5, BeforeIs
  <2> QED
    BY <2>6, SubSeqEmpty
<1>6. JS!Closed
  BY <1>1, <1>2, <1>4, <1>5 DEF JS!Closed, Active
<1> QED
  BY <1>6 DEF JS!Next

\* The job at the head of the queue is the one that has waited longest.
LEMMA TakeMaps ==
    ASSUME IInv, SInv, NEW w \in Workers, TakeJob(w)
    PROVE  [JS!Next]_(JS!vars)
<1> USE DEF IInv
<1>1. /\ pc[w] = "lock" /\ jobs # <<>> /\ jobs[1] # Terminate
      /\ work' = [work EXCEPT ![w] = jobs[1]] /\ jobs' = Tail(jobs)
      /\ pc' = [pc EXCEPT ![w] = "run"]
      /\ UNCHANGED <<owner, nthreads, late, handled>> /\ State' = State
      /\ Head(jobs) = jobs[1]
  BY JobsType DEF TakeJob, pool, State
<1>2. /\ jobs \in Seq(Jobs \cup {Terminate})
      /\ DOMAIN jobs = 1..Len(jobs) /\ Len(jobs) \in Nat \ {0}
      /\ DOMAIN jobs' = 1..(Len(jobs) - 1)
      /\ \A i \in 1..(Len(jobs) - 1) : jobs'[i] = jobs[i + 1]
  BY <1>1, TailOfJobs, JobsType DEF TypeOK
<1>3. Active' = Active \cup {jobs[1]}
  <2>1. \A x \in Workers : pc'[x] = IF x = w THEN "run" ELSE pc[x]
    <3>1. TypeOK /\ pc' = [pc EXCEPT ![w] = "run"]
      BY <1>1
    <3> QED
      BY <3>1, OneMoves
  <2>2. \A x \in Workers : work'[x] = IF x = w THEN jobs[1] ELSE work[x]
    BY <1>1 DEF TypeOK
  <2> QED
    BY <1>1, <2>1, <2>2 DEF Active, At
<1>4. jobs[1] \notin Active \cup handled
  <2>1. 1 \in DOMAIN jobs
    BY <1>2
  <2> QED
    BY <1>1, <2>1 DEF SInv, Serial, Active
<1>5. State \in {"open", "closing"} /\ nthreads > 0
  <2>1. State # "absent"
    BY <1>1 DEF SInv, Idle
  <2>2. State # "closed"
    <3>1. \A x \in Workers : joined = nthreads => x > nthreads \/ x \in 1..joined
      BY MaxThreadsAssumption DEF TypeOK, Workers
    <3>2. joined = nthreads => pc[w] \in {"none", "exited"}
      BY <3>1 DEF Threads
    <3> QED
      BY <1>1, <3>2, StateIs DEF Threads
  <2>3. ~(w > nthreads)
    BY <1>1 DEF Threads
  <2> QED
    BY <2>1, <2>2, <2>3, StateIs, MaxThreadsAssumption DEF TypeOK, Workers
<1>6. Before # <<>> /\ Head(Before) = jobs[1] /\ Before' = Tail(Before)
  <2>1. CASE Ends = {}
    <3>1. Ends' = {}
      BY <1>2, <2>1 DEF Ends
    <3> QED
      BY <1>1, <2>1, <3>1, BeforeIs, BeforeWillBe
  <2>2. CASE Ends # {}
    <3>1. PICK e \in 1..Len(jobs) : Ends = {e} /\ jobs[e] = Terminate
      BY <2>2, OneRequest DEF Ending, SInv
    <3>2. e \in 2..Len(jobs)
      BY <1>1, <1>2, <3>1
    <3>3. e - 1 \in 1..(Len(jobs) - 1) /\ jobs'[e - 1] = Terminate
      BY <1>2, <3>1, <3>2
    <3>4. Ends' = {e - 1}
      <4>1. \A i \in Ends' : i + 1 \in Ends
        BY <1>2 DEF Ends
      <4>2. \A i \in Ends' : i \in Int
        BY <1>2 DEF Ends
      <4>3. e - 1 \in Ends'
        BY <1>2, <3>3 DEF Ends
      <4> QED
        BY <3>1, <4>1, <4>2, <4>3
    <3>5. Before = SubSeq(jobs, 1, e - 1) /\ Before' = SubSeq(jobs', 1, (e - 1) - 1)
      BY <3>1, <3>4, BeforeIs, BeforeWillBe
    <3>6. (e - 1) - 1 = e - 2
      BY <3>2
    <3> QED
      BY <1>1, <1>2, <3>2, <3>5, <3>6, CutOfTail
  <2> QED
    BY <2>1, <2>2
<1>7. JS!Start
  BY <1>1, <1>3, <1>4, <1>5, <1>6 DEF JS!Start, Active
<1> QED
  BY <1>7 DEF JS!Next

\* No other worker runs the job that is done.
LEMMA DoneMaps ==
    ASSUME IInv, SInv, NEW w \in Workers, JobDone(w)
    PROVE  [JS!Next]_(JS!vars)
<1> USE DEF IInv
<1>1. /\ pc[w] = "run" /\ pc' = [pc EXCEPT ![w] = "lock"]
      /\ handled' = handled \cup {work[w]}
      /\ UNCHANGED <<owner, nthreads, jobs, work, late>> /\ State' = State
  BY DEF JobDone, pool, State
<1>2. At("run")' = At("run") \ {w} /\ w \in At("run")
  <2>1. \A x \in Workers : pc'[x] = IF x = w THEN "lock" ELSE pc[x]
    BY <1>1, OneMoves
  <2> QED
    BY <1>1, <2>1 DEF At
<1>3. Active' = Active \ {work[w]} /\ work[w] \in Active
  BY <1>1, <1>2 DEF SInv, Serial, Active
<1>4. Before' = Before
  BY <1>1 DEF Before, Ends
<1>5. PICK j \in Jobs : j = work[w]
  BY <1>2 DEF Threads
<1>6. JS!Finish(j)
  BY <1>1, <1>3, <1>4, <1>5 DEF JS!Finish, Active
<1> QED
  BY <1>6 DEF JS!Next

\* Every step of the pool is a step of the service, or none.
LEMMA NextMaps == IInv /\ SInv /\ [Next]_vars => [JS!Next]_(JS!vars)
<1> SUFFICES ASSUME IInv, SInv, [Next]_vars PROVE [JS!Next]_(JS!vars)
  OBVIOUS
<1>1. CASE \/ \E n \in -1..MaxThreads : pool_create(n)
           \/ CreateFails \/ CreateThread \/ CreateReturns \/ JoinThread
  BY <1>1, OwnerMaps
<1>2. CASE pool_join \/ FreePool
  BY <1>2, JoinMaps, FreeMaps
<1>3. ASSUME NEW j \in Jobs, pool_dispatch(j) PROVE [JS!Next]_(JS!vars)
  BY <1>3, DispatchMaps
<1>4. ASSUME NEW w \in Workers, worker_routine(w) \/ WakeSpuriously(w)
      PROVE  [JS!Next]_(JS!vars)
  <2>1. CASE TakeJob(w) \/ JobDone(w)
    BY <2>1, TakeMaps, DoneMaps
  <2>2. CASE Sleep(w) \/ WakeSpuriously(w) \/ SeeTerminate(w) \/ Exit(w)
    <3>1. /\ UNCHANGED <<owner, nthreads, jobs, work, late, handled>>
          /\ At("run")' = At("run")
      BY <2>2, OthersKeep
    <3>2. State' = State
      BY <3>1 DEF State
    <3> QED
      BY <3>1, <3>2, Unseen
  <2> QED
    BY <1>4, <2>1, <2>2 DEF worker_routine
<1>5. CASE UNCHANGED vars
  BY <1>5, Unseen DEF vars, pool, At, State
<1> QED
  BY <1>1, <1>2, <1>3, <1>4, <1>5 DEF Next

\* A pool that does not exist yet is a service that is not open.
LEMMA InitMaps == Init => JS!Init
<1> SUFFICES ASSUME Init PROVE JS!Init
  OBVIOUS
<1>1. At("run") = {} /\ Ends = {} /\ State = "absent"
  BY DEF Init, At, Ends, State
<1>2. Before = <<>> /\ Active = {}
  BY <1>1, BeforeIs DEF Init, Active
<1> QED
  BY <1>1, <1>2 DEF Init, JS!Init, Active

\* The threads, the mutex and the condition variable of pool.c implement the
\* service, for every number of threads and jobs: jobs start in the order in
\* which they were dispatched, none twice, and pool_join returns only when those
\* before it are done (pool.c:170-245).
THEOREM PoolIsAJobService == Spec => ImplementsJobService
<1>1. Spec => [](IInv /\ SInv)
  BY InitIInv, InitSInv, NextIInv, NextSInv, PTL DEF Spec
<1> QED
  BY <1>1, InitMaps, NextMaps, PTL DEF Spec, ImplementsJobService, JS!Spec
=============================================================================
