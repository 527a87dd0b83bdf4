----------------------------- MODULE MCHarness -----------------------------
(* A small instance of the harness for TLC: two parents and their child.   *)
EXTENDS Harness, TLC

CONSTANTS a, b, c, r1, r2, r3, e1

Bag(parents) == [q \in Tasks |-> IF q \in parents THEN 1 ELSE 0]
Post(t, parents) == [task |-> t, bag |-> Bag(parents)]
SetTo(t, status) == [task |-> t, bag |-> Keep, status |-> status]
Block(t, parents) == [task |-> t, bag |-> Bag(parents), status |-> Keep]

\* Two parents and their child; one parent and its child.  They come in any order, or
\* not at all: a child may list ids of no task.
Posts == {Post(a, {}), Post(b, {}), Post(c, {a, b})}
Family == {Post(a, {}), Post(b, {a})}

\* A parent finished by hand, a child forced open, a child released, a task that is made
\* to wait for itself.
Requests == {SetTo(b, "completed"), SetTo(c, "pending"), Block(c, {}), Block(b, {b})}

Interchangeable == Permutations(Runs)
\* Every task is posted before the first one is started.
NextPostsFirst == Next /\ (Begun # {} => UNCHANGED declared)
SpecPostsFirst == Init /\ [][NextPostsFirst]_vars
=============================================================================
