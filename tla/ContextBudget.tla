----------------------------- MODULE ContextBudget -----------------------------
(***************************************************************************)
(* How the memory's answer is cut to a budget of tokens (services/memory/  *)
(* token_budget.py, compressor.py and the end of search_context): the      *)
(* memories as they are, as far as they fit, or a summary by the model of  *)
(* summaries of chunks.                                                    *)
(*                                                                         *)
(* A memory is its token_estimate.                                         *)
(***************************************************************************)
EXTENDS Integers, FiniteSets, SequencesExt

CONSTANTS DefaultBudget,  \* 900
          ChunkSize,      \* 5
          MaxItems        \* 8: the lines of a context that is no summary

ASSUME BudgetAssumption ==
    DefaultBudget \in Nat \ {0} /\ ChunkSize \in Nat \ {0} /\ MaxItems \in Nat

Tokens(memories) ==
    LET sum[n \in 0..Len(memories)] == IF n = 0 THEN 0 ELSE sum[n - 1] + memories[n]
    IN  sum[Len(memories)]

\* `budget or default_budget'.
Active(budget) == IF budget = 0 THEN DefaultBudget ELSE budget

Allocate(budget) ==
    LET total == Active(budget)
        history == (total * 60) \div 100
        summary == (total * 25) \div 100
    IN  [total |-> total, history |-> history, summary |-> summary,
         reserved |-> total - history - summary, trigger |-> (total * 80) \div 100]

ShouldCompress(tokens, budget) == tokens >= Allocate(budget).trigger

\* Mutant: the first memory that does not fit ends the selection.
Trim_Stops(memories, budget) ==
    LET pick(acc, m) ==
            IF m <= acc.remaining
            THEN [acc EXCEPT !.remaining = @ - m, !.selected = Append(@, m)]
            ELSE [acc EXCEPT !.remaining = 0]
    IN  FoldLeft(pick, [remaining |-> Active(budget), selected |-> <<>>], memories).selected

\* A memory that does not fit is passed over; later ones may fit.
Pick(acc, m) ==
    IF m <= acc.remaining
    THEN [remaining |-> acc.remaining - m, selected |-> Append(acc.selected, m)]
    ELSE acc

Trim(memories, budget) ==
    LET after[n \in 0..Len(memories)] ==
            IF n = 0 THEN [remaining |-> Active(budget), selected |-> <<>>]
            ELSE Pick(after[n - 1], memories[n])
    IN  after[Len(memories)].selected

Chunks(memories) ==
    [k \in 1..((Len(memories) + ChunkSize - 1) \div ChunkSize) |->
        SubSeq(memories, (k - 1) * ChunkSize + 1,
               IF k * ChunkSize < Len(memories) THEN k * ChunkSize ELSE Len(memories))]

\* One call of the model for each chunk, and one for the summary of the summaries.
MapReduce(memories) ==
    LET chunks == Chunks(memories)
    IN  [strategy |-> IF memories = <<>> THEN "none" ELSE "map_reduce",
         mapped |-> chunks,
         reduceCalls |-> IF Len(chunks) > 1 THEN 1 ELSE 0]

\* The answer lists all that was kept, its text the first MaxItems of them.
Context(memories, budget) ==
    IF ShouldCompress(Tokens(memories), budget)
    THEN [compressed |-> TRUE, kept |-> memories, shown |-> <<>>, summary |-> MapReduce(memories)]
    ELSE LET kept == Trim(memories, Allocate(budget).history)
         IN  [compressed |-> FALSE, kept |-> kept,
              shown |-> SubSeq(kept, 1, IF Len(kept) < MaxItems THEN Len(kept) ELSE MaxItems),
              summary |-> MapReduce(<<>>)]

---------------------------------------------------------------------------
Count(s, x) == Cardinality({n \in DOMAIN s : s[n] = x})

\* A context that is no summary fits into the share of the history, and leaves out no
\* memory for which there would still be room; a summary has read every memory once, in
\* order, and no chunk is empty or too long.
Fits(memories, budget) ==
    LET context == Context(memories, budget)
        room == Allocate(budget).history
    IN  IF context.compressed
        THEN /\ FlattenSeq(context.summary.mapped) = memories
             /\ \A k \in DOMAIN context.summary.mapped :
                    Len(context.summary.mapped[k]) \in 1..ChunkSize
        ELSE /\ Tokens(context.kept) <= room
             /\ \A x \in ToSet(memories) :
                    Count(context.kept, x) < Count(memories, x) => Tokens(context.kept) + x > room
=============================================================================
