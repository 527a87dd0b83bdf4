---------------------------- MODULE Dependencies ----------------------------
(***************************************************************************)
(* What the task graph promises, whatever its threads do to each other:    *)
(* work on a task begins only after every task it was declared to depend   *)
(* on has been completed.  No rows, no sessions, no threads: only which    *)
(* dependencies are declared, which tasks have been finished at least once *)
(* and which have been begun.                                              *)
(***************************************************************************)
CONSTANT Tasks

VARIABLES declared,   \* the dependencies of each task
          done,       \* the tasks finished so far
          begun       \* the tasks on which a run has been accepted

dvars == <<declared, done, begun>>

Init ==
    /\ declared = [t \in Tasks |-> {}]
    /\ done = {}
    /\ begun = {}

Declare(t, deps) ==
    /\ t \notin begun
    /\ declared' = [declared EXCEPT ![t] = deps]
    /\ UNCHANGED <<done, begun>>

\* A client edits a task: it may release it from its dependencies, finish it, or both.
Edit(t) ==
    /\ declared' \in {declared, [declared EXCEPT ![t] = {}]}
    /\ done' \in {done, done \cup {t}}
    /\ UNCHANGED begun

Begin(t) ==
    /\ declared[t] \subseteq done
    /\ begun' = begun \cup {t}
    /\ UNCHANGED <<declared, done>>

Finish(t) ==
    /\ t \in begun
    /\ done' = done \cup {t}
    /\ UNCHANGED <<declared, begun>>

Next ==
    \E t \in Tasks :
        \/ \E deps \in SUBSET Tasks : Declare(t, deps)
        \/ Edit(t)
        \/ Begin(t)
        \/ Finish(t)

Spec == Init /\ [][Next]_dvars

TypeOK ==
    /\ declared \in [Tasks -> SUBSET Tasks]
    /\ done \subseteq Tasks
    /\ begun \subseteq Tasks

\* No task is begun before its dependencies are done.
InOrder == \A t \in begun : declared[t] \subseteq done
=============================================================================
