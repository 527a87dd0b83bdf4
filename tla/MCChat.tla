-------------------------------- MODULE MCChat --------------------------------
(* Two requests and one PATCH on one conversation; a panel of two agents. *)
EXTENDS Chat

const_Jobs == {"j1", "j2"}
const_Conversations == {"c"}
const_Asked == [j \in const_Jobs |-> "c"]
const_Actions == [j \in const_Jobs |-> IF j = "j1" THEN {"chat"}
                                      ELSE {"chat", "research", "automation"}]
const_MaxSteps == [j \in const_Jobs |-> IF j = "j1" THEN 2 ELSE 1]
const_Panel == <<"news_agent", "investment_committee_agent">>
const_StepLists == {<<"completed">>, <<"in_progress">>, <<"in_progress", "in_progress">>}
=============================================================================
