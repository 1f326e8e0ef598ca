------------------------------ MODULE MCTasking ------------------------------
(* Instances of Tasking for TLC.                                           *)
EXTENDS Tasking, TLC

CONSTANTS cpu0, cpu1, init, sh, job, job2, reaper

OneTick == [p \in {init, sh, job, reaper} |-> 1]

FamilyTicks == [p \in {init, sh, job, job2, reaper} |-> 1]

PairTicks == [p \in {init, job, reaper} |-> 1]

\* A shell that starts jobs, runs programs and waits, and jobs that sleep.
ShellProgram == (init :> {"fork", "wait"}) @@ (sh :> {"fork", "wait", "exec", "exit"})
                @@ (job :> {"usleep", "exit"})

\* The smallest family for two CPUs: a parent that also polls, and a child whose
\* exec may fail.
PairProgram == (init :> {"fork", "wait", "nohang"})
               @@ (job :> {"usleep", "badexec", "exit"})

\* A family for two CPUs: the shell may end before its job.
OrphanProgram == (init :> {"fork", "wait", "nohang"}) @@ (sh :> {"fork", "exit"})
                 @@ (job :> {"badexec", "exit"})

\* A shell that ends while two jobs run.
FamilyProgram == (init :> {"fork", "wait"}) @@ (sh :> {"fork", "exit"})
                 @@ (job :> {"exit"}) @@ (job2 :> {"exit"})

\* A parent and a child that only exits, so that nothing else wakes the parent.
WaitProgram == (init :> {"fork", "wait"}) @@ (job :> {"exit"})
=============================================================================
