--------------------------- MODULE JobLifecycle ---------------------------
(***************************************************************************)
(* What the durable job queue promises to the rest of the system, without  *)
(* leases, clocks, attempts or a database: every job that was submitted is *)
(* held by at most one worker at a time, only its holder can finish,       *)
(* postpone or park it, a holder can lose its job without warning, and a   *)
(* finished job is never given out again.  JobQueue implements it.         *)
(***************************************************************************)

CONSTANTS Worker,     \* worker identities (lease_owner values)
          Job,        \* the jobs that may ever be submitted
          NoWorker    \* the holder of a job nobody holds

VARIABLES phase,      \* phase[j]: "absent", "open", "held", "done" or "parked"
          holder      \* holder[j]: the worker that may act on job j

lvars == <<phase, holder>>

Init == /\ phase = [j \in Job |-> "absent"]
        /\ holder = [j \in Job |-> NoWorker]

Move(S, from, to, w) ==
    /\ \A j \in S : phase[j] = from
    /\ phase' = [j \in Job |-> IF j \in S THEN to ELSE phase[j]]
    /\ holder' = [j \in Job |-> IF j \in S THEN w ELSE holder[j]]

\* A job enters the queue.
Submit(j) == Move({j}, "absent", "open", NoWorker)

\* A worker receives a batch of open jobs.
Assign(w, S) == Move(S, "open", "held", w)

\* Any set of holders loses its jobs: they are open again.
Lapse(S) == Move(S, "held", "open", NoWorker)

\* Only the holder decides how its job goes on.
Complete(w, j) == holder[j] = w /\ Move({j}, "held", "done", NoWorker)
Postpone(w, j) == holder[j] = w /\ Move({j}, "held", "open", NoWorker)
Park(w, j) == holder[j] = w /\ Move({j}, "held", "parked", NoWorker)

\* An operator puts a parked job back into the queue.
Reopen(j) == Move({j}, "parked", "open", NoWorker)

Next == \/ \E j \in Job : Submit(j) \/ Reopen(j)
        \/ \E S \in SUBSET Job : Lapse(S)
        \/ \E w \in Worker, S \in SUBSET Job : Assign(w, S)
        \/ \E w \in Worker, j \in Job :
              Complete(w, j) \/ Postpone(w, j) \/ Park(w, j)

Spec == Init /\ [][Next]_lvars
=============================================================================
