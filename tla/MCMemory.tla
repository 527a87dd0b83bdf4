------------------------------ MODULE MCMemory ------------------------------
(* A small instance of the memory for TLC: a preference in two similar wordings *)
(* and one in words of its own, about a symbol and about none.                  *)
EXTENDS Memory, TLC

CONSTANTS c1, c2, i1, i2, ofSymbol, ofNone, short, long, other

Common == 1..6
WordsOf == short :> Common @@ long :> (Common \cup {7}) @@ other :> {7}

Asked(t, scope, content, ttl) ==
    [topic |-> t, scope |-> scope, content |-> content, ttl |-> ttl]

SomeWrites ==
    {Asked(ofSymbol, "long_term", short, 1), Asked(ofSymbol, "long_term", long, Forever),
     Asked(ofNone, "long_term", other, Forever), Asked(ofSymbol, "short_term", short, 1)}

SomeQueries == [topics : {{ofSymbol, ofNone}}, words : {{6, 7}}, limit : {1}]

\* All but promised, which no step reads and which matters to Persisted alone.
AllButPromised ==
    <<memory, clock, local, restarts, unseen, missed, due, rivals, doubtful>>

Interchangeable == Permutations(Clients) \cup Permutations(Ids)
=============================================================================
