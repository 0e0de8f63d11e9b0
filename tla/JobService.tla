----------------------------- MODULE JobService -----------------------------
(***************************************************************************)
(* What a worker pool promises its owner: jobs are started in the order in *)
(* which they were accepted, each once; closing it waits for every job     *)
(* accepted before, if it is staffed at all; and a job accepted while it   *)
(* is closing, which only the handler of another job can submit, is        *)
(* abandoned.                                                              *)
(***************************************************************************)
EXTENDS Sequences

CONSTANT Jobs

VARIABLES state,      \* "absent", "open", "closing" or "closed"
          staffed,    \* somebody handles the jobs
          pending,    \* jobs accepted before closing and not started yet
          active,     \* jobs being handled
          done,       \* jobs handled
          abandoned   \* jobs accepted while closing
vars == <<state, staffed, pending, active, done, abandoned>>

Init == /\ state = "absent" /\ staffed = FALSE
        /\ pending = <<>> /\ active = {} /\ done = {} /\ abandoned = {}

Open == /\ state = "absent" /\ state' = "open"
        /\ staffed' \in BOOLEAN
        /\ UNCHANGED <<pending, active, done, abandoned>>

Accept(j) == /\ state = "open"
             /\ pending' = Append(pending, j)
             /\ UNCHANGED <<state, staffed, active, done, abandoned>>

Abandon(j) == /\ state = "closing" /\ active # {}
              /\ abandoned' = abandoned \cup {j}
              /\ UNCHANGED <<state, staffed, pending, active, done>>

Start == /\ state \in {"open", "closing"} /\ staffed
         /\ pending # <<>> /\ Head(pending) \notin active \cup done
         /\ active' = active \cup {Head(pending)}
         /\ pending' = Tail(pending)
         /\ UNCHANGED <<state, staffed, done, abandoned>>

Finish(j) == /\ j \in active
             /\ active' = active \ {j}
             /\ done' = done \cup {j}
             /\ UNCHANGED <<state, staffed, pending, abandoned>>

Close == /\ state = "open" /\ state' = "closing"
         /\ UNCHANGED <<staffed, pending, active, done, abandoned>>

Closed == /\ state = "closing" /\ state' = "closed"
          /\ active = {} /\ (staffed => pending = <<>>)
          /\ UNCHANGED <<staffed, pending, active, done, abandoned>>

Next == \/ Open \/ Start \/ Close \/ Closed
        \/ \E j \in Jobs : Accept(j) \/ Abandon(j) \/ Finish(j)

Spec == Init /\ [][Next]_vars
=============================================================================
