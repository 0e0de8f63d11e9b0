----------------------------- MODULE WorkerPool -----------------------------
(***************************************************************************)
(* The worker pool of pool.c: its owner creates it, hands it jobs and      *)
(* joins it; its threads take the jobs from a queue under one mutex and    *)
(* sleep on one condition variable.                                        *)
(*                                                                         *)
(* A step is one critical section, or what a thread does between two.      *)
(* Transient workers are left out: nothing in pool.c creates one.          *)
(***************************************************************************)
EXTENDS Integers, Sequences, FiniteSets

CONSTANTS MaxThreads,   \* bound on the nthreads a client asks for
          Jobs,         \* the calls of pool_dispatch
          Terminate     \* &pool->terminate

ASSUME MaxThreadsAssumption == MaxThreads \in Nat
ASSUME TerminateAssumption == Terminate \notin Jobs

Workers == 1..MaxThreads

VARIABLES owner,     \* where the owner of the pool is
          want,      \* the nthreads it asked for
          nthreads,  \* threads created
          joined,    \* threads joined
          jobs,      \* the list at jobs_head
          pc,        \* where each worker is
          work,      \* the job a worker took last
          accepted,  \* history: jobs that pool_dispatch queued
          late,      \* history: those it queued behind &pool->terminate
          handled    \* history: jobs whose handler has returned

pool == <<owner, want, nthreads, joined>>
vars == <<pool, jobs, pc, work, accepted, late, handled>>

At(label) == {w \in Workers : pc[w] = label}
-----------------------------------------------------------------------------
\* The owner: pool_create.  A pool that cannot be allocated is NULL.
pool_create(n) ==
    /\ owner = "none"
    /\ owner' = "creating"
    /\ want' = IF n < 0 THEN 0 ELSE n
    /\ UNCHANGED <<nthreads, joined, jobs, pc, work, accepted, late, handled>>

CreateFails ==
    /\ owner = "none"
    /\ owner' = "failed"
    /\ UNCHANGED <<want, nthreads, joined, jobs, pc, work, accepted, late, handled>>

CreateThread ==
    /\ owner = "creating" /\ nthreads < want
    /\ nthreads' = nthreads + 1
    /\ pc' = [pc EXCEPT ![nthreads + 1] = "lock"]
    /\ UNCHANGED <<owner, want, joined, jobs, work, accepted, late, handled>>

\* The loop ends, also at the first thread that cannot be created.
CreateReturns ==
    /\ owner = "creating"
    /\ owner' = "up"
    /\ UNCHANGED <<want, nthreads, joined, jobs, pc, work, accepted, late, handled>>

\* pool_dispatch, by a client of a pool that is not being joined or by the
\* handler of another job.  (One that cannot allocate changes nothing.)
MayDispatch == owner = "up" \/ (owner = "joining" /\ At("run") # {})

\* Variant: nobody is signalled.
SignalNobody == UNCHANGED pc

\* pthread_cond_signal wakes one sleeper, if there is one.
Signal ==
    IF At("wait") = {}
      THEN UNCHANGED pc
      ELSE \E w \in At("wait") : pc' = [pc EXCEPT ![w] = "lock"]

pool_dispatch(j) ==
    /\ MayDispatch
    /\ j \notin accepted
    /\ jobs' = Append(jobs, j)
    /\ accepted' = accepted \cup {j}
    /\ late' = IF owner = "joining" THEN late \cup {j} ELSE late
    /\ Signal
    /\ UNCHANGED <<pool, work, handled>>

\* Variants: the terminate request goes before the jobs; only one is signalled.
pool_joinAtFront ==
    /\ owner = "up"
    /\ owner' = "joining"
    /\ jobs' = <<Terminate>> \o jobs
    /\ pc' = [w \in Workers |-> IF pc[w] = "wait" THEN "lock" ELSE pc[w]]
    /\ UNCHANGED <<want, nthreads, joined, work, accepted, late, handled>>

pool_joinSignal ==
    /\ owner = "up"
    /\ owner' = "joining"
    /\ jobs' = Append(jobs, Terminate)
    /\ Signal
    /\ UNCHANGED <<want, nthreads, joined, work, accepted, late, handled>>

\* pool_join up to its unlock: the terminate request goes to the end of the
\* queue and everybody is woken.
pool_join ==
    /\ owner = "up"
    /\ owner' = "joining"
    /\ jobs' = Append(jobs, Terminate)
    /\ pc' = [w \in Workers |-> IF pc[w] = "wait" THEN "lock" ELSE pc[w]]
    /\ UNCHANGED <<want, nthreads, joined, work, accepted, late, handled>>

\* Variant: the threads are counted, not waited for.
JoinThreadAtOnce ==
    /\ owner = "joining" /\ joined < nthreads
    /\ joined' = joined + 1
    /\ UNCHANGED <<owner, want, nthreads, jobs, pc, work, accepted, late, handled>>

JoinThread ==
    /\ owner = "joining" /\ joined < nthreads
    /\ pc[joined + 1] = "exited"
    /\ joined' = joined + 1
    /\ UNCHANGED <<owner, want, nthreads, jobs, pc, work, accepted, late, handled>>

FreePool ==
    /\ owner = "joining" /\ joined = nthreads
    /\ owner' = "freed"
    /\ UNCHANGED <<want, nthreads, joined, jobs, pc, work, accepted, late, handled>>
-----------------------------------------------------------------------------
\* worker_routine, from one lock of the mutex to the next.
Sleep(w) ==
    /\ pc[w] = "lock" /\ jobs = <<>>
    /\ pc' = [pc EXCEPT ![w] = "wait"]
    /\ UNCHANGED <<pool, jobs, work, accepted, late, handled>>

\* pthread_cond_wait may return for no reason.
WakeSpuriously(w) ==
    /\ pc[w] = "wait"
    /\ pc' = [pc EXCEPT ![w] = "lock"]
    /\ UNCHANGED <<pool, jobs, work, accepted, late, handled>>

\* Variant: the newest job is taken.
TakeJobLast(w) ==
    /\ pc[w] = "lock" /\ jobs # <<>> /\ jobs[Len(jobs)] # Terminate
    /\ work' = [work EXCEPT ![w] = jobs[Len(jobs)]]
    /\ jobs' = SubSeq(jobs, 1, Len(jobs) - 1)
    /\ pc' = [pc EXCEPT ![w] = "run"]
    /\ UNCHANGED <<pool, accepted, late, handled>>

TakeJob(w) ==
    /\ pc[w] = "lock" /\ jobs # <<>> /\ Head(jobs) # Terminate
    /\ work' = [work EXCEPT ![w] = Head(jobs)]
    /\ jobs' = Tail(jobs)
    /\ pc' = [pc EXCEPT ![w] = "run"]
    /\ UNCHANGED <<pool, accepted, late, handled>>

\* handle_job returns and the job is freed.
JobDone(w) ==
    /\ pc[w] = "run"
    /\ pc' = [pc EXCEPT ![w] = "lock"]
    /\ handled' = handled \cup {work[w]}
    /\ UNCHANGED <<pool, jobs, work, accepted, late>>

\* The terminate request is never taken off the queue.
SeeTerminate(w) ==
    /\ pc[w] = "lock" /\ jobs # <<>> /\ Head(jobs) = Terminate
    /\ pc' = [pc EXCEPT ![w] = "leave"]
    /\ UNCHANGED <<pool, jobs, work, accepted, late, handled>>

\* self->transient is read from the pool after the unlock.
Exit(w) ==
    /\ pc[w] = "leave"
    /\ pc' = [pc EXCEPT ![w] = "exited"]
    /\ UNCHANGED <<pool, jobs, work, accepted, late, handled>>

worker_routine(w) == Sleep(w) \/ TakeJob(w) \/ JobDone(w) \/ SeeTerminate(w) \/ Exit(w)

Init ==
    /\ owner = "none" /\ want = 0 /\ nthreads = 0 /\ joined = 0
    /\ jobs = <<>>
    /\ pc = [w \in Workers |-> "none"]
    /\ work = [w \in Workers |-> Terminate]
    /\ accepted = {} /\ late = {} /\ handled = {}

Next ==
    \/ \E n \in -1..MaxThreads : pool_create(n)
    \/ CreateFails \/ CreateThread \/ CreateReturns
    \/ \E j \in Jobs : pool_dispatch(j)
    \/ pool_join \/ JoinThread \/ FreePool
    \/ \E w \in Workers : worker_routine(w) \/ WakeSpuriously(w)

Spec == Init /\ [][Next]_vars

\* Threads are scheduled, the mutex is granted, and handlers return.
Fairness ==
    /\ \A w \in Workers : WF_vars(worker_routine(w))
    /\ WF_vars(CreateThread \/ CreateReturns) /\ WF_vars(JoinThread) /\ WF_vars(FreePool)

FairSpec == Spec /\ Fairness
-----------------------------------------------------------------------------
\* The values each variable takes.
TypeOK ==
    /\ owner \in {"none", "failed", "creating", "up", "joining", "freed"}
    /\ want \in 0..MaxThreads /\ nthreads \in 0..want /\ joined \in 0..nthreads
    /\ jobs \in Seq(Jobs \cup {Terminate})
    /\ pc \in [Workers -> {"none", "lock", "wait", "run", "leave", "exited"}]
    /\ work \in [Workers -> Jobs \cup {Terminate}]
    /\ accepted \in SUBSET Jobs /\ late \in SUBSET accepted
    /\ handled \in SUBSET Jobs

\* No wakeup is lost: while a worker sleeps, every queued job has a worker of
\* its own on its way to the queue, although pool_dispatch signals only one and
\* a worker that is busy takes jobs others were woken for.
WorkConserving == At("wait") # {} => Len(jobs) <= Cardinality(At("lock"))

\* The pool is freed only when no thread will look at it again: not at its
\* mutex, its queue or its own entry in perms.
FreedIsUnused == owner = "freed" => \A w \in Workers : pc[w] \in {"none", "exited"}

\* A pool that has a thread is freed only after every job dispatched before
\* pool_join has been handled, however many threads find the terminate request.
JoinDrains == owner = "freed" /\ nthreads > 0 => accepted \ late \subseteq handled

\* Liveness: pool_join returns, ...
JoinReturns == owner = "joining" ~> owner = "freed"

\* ... and a job dispatched before pool_join to a pool with threads is handled.
EveryJobIsHandled ==
    \A j \in Jobs :
        (j \in accepted \ late /\ nthreads > 0) ~> j \in handled
-----------------------------------------------------------------------------
\* The part of the queue before the terminate request, and the part behind it.
Ends == {i \in DOMAIN jobs : jobs[i] = Terminate}
Before == IF Ends = {} THEN jobs ELSE SubSeq(jobs, 1, (CHOOSE i \in Ends : TRUE) - 1)

State ==
    CASE owner \in {"none", "failed", "creating"} -> "absent"
      [] owner = "up" -> "open"
      [] owner = "joining" -> "closing"
      [] owner = "freed" -> "closed"

JS == INSTANCE JobService WITH
        state     <- State,
        staffed   <- State # "absent" /\ nthreads > 0,
        pending   <- Before,
        active    <- {work[w] : w \in At("run")},
        done      <- handled,
        abandoned <- late

\* The threads, the mutex and the condition variable implement the service:
\* jobs start in order, none twice, none after the close, none is forgotten.
ImplementsJobService == JS!Spec
=============================================================================
