------------------------------ MODULE JobPool ------------------------------
(***************************************************************************)
(* What a caller of myrefl_thread_request may rely on: a job it submits is *)
(* run at most once, by one thread, and a thread runs one job at a time.   *)
(* Nothing is said of the order of the jobs, nor of when one is run.       *)
(***************************************************************************)
CONSTANTS Workers, Jobs, None

VARIABLES waiting,   \* the jobs submitted and not started
          running,   \* the job each thread runs, or None
          done       \* the jobs that have run

vars == <<waiting, running, done>>

Init ==
    /\ waiting = {}
    /\ running = [w \in Workers |-> None]
    /\ done = {}

IsRunning(j) == \E w \in Workers : running[w] = j

Submit(j) ==
    /\ j \notin waiting \cup done
    /\ ~ IsRunning(j)
    /\ waiting' = waiting \cup {j}
    /\ UNCHANGED <<running, done>>

Start(w, j) ==
    /\ running[w] = None
    /\ j \in waiting
    /\ waiting' = waiting \ {j}
    /\ running' = [running EXCEPT ![w] = j]
    /\ UNCHANGED done

Finish(w) ==
    /\ running[w] # None
    /\ done' = done \cup {running[w]}
    /\ running' = [running EXCEPT ![w] = None]
    /\ UNCHANGED waiting

Next ==
    \/ \E j \in Jobs : Submit(j)
    \/ \E w \in Workers : Finish(w) \/ \E j \in Jobs : Start(w, j)

Spec == Init /\ [][Next]_vars
=============================================================================
