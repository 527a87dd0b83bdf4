------------------------------- MODULE LLMCalls -------------------------------
(***************************************************************************)
(* One call of a language model: the retries around it (services/llm/      *)
(* base.py), the providers' generate and the row that the caller adds to   *)
(* llm_calls for each response (services/llm/call_logger.py).              *)
(*                                                                         *)
(* A job (an HTTP request) has at most one call at a time.  The model that *)
(* answers is external: it gives a reply, a transient error, a ValueError  *)
(* or another exception; every request has a timeout, so that one of these *)
(* happens.  What is in a reply turns out when the caller parses it.       *)
(***************************************************************************)
EXTENDS Naturals, Sequences

CONSTANTS Jobs,
          MaxRetries,    \* settings.llm_max_retries
          MaxFaults      \* bound on writes that the database refuses, and on crashes

ASSUME CallAssumption == MaxRetries \in Nat /\ MaxFaults \in Nat

VARIABLES call,      \* the call of each job
          faults,
          unpaid     \* how many responses it has received that have no row in llm_calls

callVars == <<call, faults, unpaid>>

NoCall == [stage |-> "none", tries |-> 0]
CallStage == {"none", "calling", "answered", "recorded", "refused", "broken"}

CallInit ==
    /\ call = [j \in Jobs |-> NoCall]
    /\ faults = 0
    /\ unpaid = [j \in Jobs |-> 0]

\* stop_after_attempt(max_retries); without the decorator there is one attempt.
Attempts == IF MaxRetries = 0 THEN 1 ELSE MaxRetries

Generate(j) ==
    call' = [call EXCEPT ![j] = [NoCall EXCEPT !.stage = "calling"]]

Respond(j) ==
    /\ call[j].stage = "calling"
    /\ call' = [call EXCEPT ![j].stage = "answered"]
    /\ unpaid' = [unpaid EXCEPT ![j] = @ + 1]
    /\ UNCHANGED faults

\* Mutant: one attempt too many.
Transient_OneMore(j) ==
    /\ call[j].stage = "calling"
    /\ \/ /\ call[j].tries < Attempts
          /\ call' = [call EXCEPT ![j].tries = @ + 1]
       \/ /\ call[j].tries >= Attempts
          /\ call' = [call EXCEPT ![j].stage = "broken"]
    /\ UNCHANGED <<faults, unpaid>>

\* A ConnectionError, TimeoutError or OSError is tried again, and raised in the end.
Transient(j) ==
    /\ call[j].stage = "calling"
    /\ \/ /\ call[j].tries + 1 < Attempts
          /\ call' = [call EXCEPT ![j].tries = @ + 1]
       \/ /\ call[j].tries + 1 >= Attempts
          /\ call' = [call EXCEPT ![j].stage = "broken"]
    /\ UNCHANGED <<faults, unpaid>>

\* Any other exception is raised at once; callers tell a ValueError from the rest.
Raise(j) ==
    /\ call[j].stage = "calling"
    /\ \E how \in {"refused", "broken"} : call' = [call EXCEPT ![j].stage = how]
    /\ UNCHANGED <<faults, unpaid>>

\* Mutant: the row of a call that needed a second attempt is left out.
RecordUsage_FirstTry(j) ==
    /\ call[j].stage = "answered"
    /\ call' = [call EXCEPT ![j].stage = "recorded"]
    /\ unpaid' = [unpaid EXCEPT ![j] = IF call[j].tries > 0 THEN @ ELSE @ - 1]
    /\ UNCHANGED faults

\* The row is committed before anyone looks at the reply.
RecordUsage(j) ==
    /\ call[j].stage = "answered"
    /\ call' = [call EXCEPT ![j].stage = "recorded"]
    /\ unpaid' = [unpaid EXCEPT ![j] = @ - 1]
    /\ UNCHANGED faults

UsageRefused(j) ==
    /\ call[j].stage = "answered"
    /\ faults < MaxFaults
    /\ faults' = faults + 1
    /\ call' = [call EXCEPT ![j].stage = "broken"]
    /\ UNCHANGED unpaid

Calling(j) ==
    \/ Respond(j) \/ Transient(j) \/ Raise(j)
    \/ RecordUsage(j) \/ UsageRefused(j)
=============================================================================
