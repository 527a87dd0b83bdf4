----------------------------- MODULE MCAlgorithms -----------------------------
(* Every series of closes for every request, every list of memories for every     *)
(* budget and every LLM_PROFILES_JSON for every settings: one element more with   *)
(* each step.                                                                     *)
EXTENDS Backtest, ContextBudget, LLMProfiles

CONSTANTS Requests,                 \* of a backtest
          Closes, MaxBars, Estimates, Budgets, MaxMemories, MaxProfiles

\* A price is positive, and a request without a train_ratio above 0.5 and below 1 is
\* turned down before it gets to the engine.
ASSUME AlgorithmsAssumption ==
    /\ Closes \subseteq Nat \ {0}
    /\ \A r \in Requests : r.train \in 51..99
    /\ Estimates \subseteq Nat /\ Budgets \subseteq Nat

const_Requests ==
    [strategy : {"moving_average_cross", "valuation_band"}, bps : {0, 500},
     commission : {0, 20}, train : {70}]
const_Scores == {-50, 0, 10, 50, 100}

VARIABLES kind, request, input

Settings == [provider : {"mock", "openai", "gemini"}, keys : SUBSET {"openai", "gemini", "llm"}]

Items ==
    [id : {"default", "extra"},
     entry : [provider : {"openai", "gemini", "unknown"}, key : {"own", "unset", "none"},
              isDefault : BOOLEAN]]

Init ==
    /\ \/ kind = "backtest" /\ request \in Requests
       \/ kind = "context" /\ request \in Budgets
       \/ kind = "profiles" /\ request \in Settings
    /\ input = <<>>

OneMoreBar ==
    /\ kind = "backtest" /\ Len(input) < MaxBars
    /\ \E close \in Closes : input' = Append(input, close)
    /\ UNCHANGED <<kind, request>>

OneMoreMemory ==
    /\ kind = "context" /\ Len(input) < MaxMemories
    /\ \E tokens \in Estimates : input' = Append(input, tokens)
    /\ UNCHANGED <<kind, request>>

OneMoreProfile ==
    /\ kind = "profiles" /\ Len(input) < MaxProfiles
    /\ \E item \in Items : input' = Append(input, item)
    /\ UNCHANGED <<kind, request>>

Next == OneMoreBar \/ OneMoreMemory \/ OneMoreProfile
Spec == Init /\ [][Next]_<<kind, request, input>>

\* bars[: index + 1] is all that the engine looks at, as bias_guard.py says without
\* looking: no later bar changes the curve.
NoLookAhead == kind = "backtest" => LooksBack(input, request)

\* The badge of a walk-forward is above F only when both parts have traded.
BadgeIsEarned == (kind = "backtest" /\ HasWalkForward(input)) => Earned(input, request)

\* What search_context hands to an agent fits its budget or is a summary of everything.
ContextFits == kind = "context" => Fits(input, request)

\* What list_llm_profiles shows is what get_llm_provider_for_profile builds.
ProfilesAgree == kind = "profiles" => Agree(request, input)
=============================================================================
