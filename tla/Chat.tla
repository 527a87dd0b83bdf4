--------------------------------- MODULE Chat ---------------------------------
(***************************************************************************)
(* Conversations (services/chat/service.py, api/v1/endpoints/chat.py): a   *)
(* reply stores the question, runs the ReAct agent, the research workflow  *)
(* or an automation run, and stores the answer, while other requests reply *)
(* to the same conversation or edit it.                                    *)
(*                                                                         *)
(* Of a conversation's columns only the title is kept: it is what the      *)
(* first reply and an edit both write.  The automation run is the subject  *)
(* of module AutomationFlow; here it delivers or raises.                   *)
(***************************************************************************)
EXTENDS ReAct

CONSTANTS Conversations, Editors, Users,
          Asked,          \* the conversation that each job replies to
          Actions,        \* what each job may be asked to do
          NewTitles       \* titles that a PATCH may set

ASSUME ChatAssumption ==
    /\ "default" \in Users /\ "none" \notin Users \cup Conversations
    /\ Asked \in [Jobs -> Conversations]
    /\ Actions \in [Jobs -> SUBSET (Kinds \ {"none"})]
    /\ NewTitles \subseteq {"New Chat", "edited"}

Titles == {"none", "New Chat", "question", "edited"}

VARIABLES conversations, \* chat_conversations: owner and title
          messages,      \* the chat_messages that each job has stored, in the order of their ids
          edit,          \* the PATCH that each editor serves
          seen,          \* the title that each reply has read
          wanted,        \* history: the title of the last PATCH
          clashed        \* history: conversations in which two writes of the title overlapped

chatVars == <<conversations, messages, edit, seen, wanted, clashed>>
vars == <<reactVars, chatVars>>

NoEdit == [conversation |-> "none", loaded |-> "none", crossed |-> FALSE]
Unseen == [loaded |-> "none", crossed |-> FALSE]

Init ==
    /\ ReActInit
    /\ conversations = [c \in Conversations |-> [owner |-> "none", title |-> "none"]]
    /\ messages = [j \in Jobs |-> <<>>]
    /\ edit = [e \in Editors |-> NoEdit]
    /\ seen = [j \in Jobs |-> Unseen]
    /\ wanted = [c \in Conversations |-> "none"]
    /\ clashed = {}

Exists(c) == conversations[c].owner # "none"
Of(j) == Asked[j]

---------------------------------------------------------------------------
\* POST /conversations takes the user from the request; every other endpoint serves
\* the user `default'.
Create(c, u) ==
    /\ ~Exists(c)
    /\ conversations' = [conversations EXCEPT ![c] = [owner |-> u, title |-> "New Chat"]]
    /\ UNCHANGED <<reactVars, messages, edit, seen, wanted, clashed>>

\* Whoever has read c's title and not yet written it notes that it has been written.
Cross(c, seenNow, editNow) ==
    /\ seen' = [j \in Jobs |-> IF Of(j) = c /\ seenNow[j] # Unseen
                               THEN [seenNow[j] EXCEPT !.crossed = TRUE] ELSE seenNow[j]]
    /\ edit' = [e \in Editors |-> IF editNow[e].conversation = c
                                  THEN [editNow[e] EXCEPT !.crossed = TRUE] ELSE editNow[e]]

\* PATCH /conversations/{id}: read, then commit.
EditRead(e, c) ==
    /\ edit[e] = NoEdit
    /\ conversations[c].owner = "default"
    /\ edit' = [edit EXCEPT ![e] = [conversation |-> c, loaded |-> conversations[c].title,
                                    crossed |-> FALSE]]
    /\ UNCHANGED <<reactVars, conversations, messages, seen, wanted, clashed>>

EditCommit(e, title) ==
    LET c == edit[e].conversation
    IN  /\ edit[e] # NoEdit
        /\ conversations' = [conversations EXCEPT ![c].title =
                                Written(title, edit[e].loaded, @)]
        /\ wanted' = [wanted EXCEPT ![c] = title]
        /\ clashed' = IF edit[e].crossed THEN clashed \cup {c} ELSE clashed
        /\ Cross(c, seen, [edit EXCEPT ![e] = NoEdit])
        /\ UNCHANGED <<reactVars, messages>>

---------------------------------------------------------------------------
\* POST /conversations/{id}/reply.
PrepareRead(j) ==
    /\ work[j].stage = "idle"
    /\ Exists(Of(j))
    /\ \/ /\ conversations[Of(j)].owner = "default"
          /\ \E action \in Actions[j] :
                work' = [work EXCEPT ![j].stage = "preparing", ![j].kind = action]
          /\ seen' = [seen EXCEPT ![j] = [loaded |-> conversations[Of(j)].title,
                                          crossed |-> FALSE]]
       \/ /\ conversations[Of(j)].owner # "default"
          /\ Goto(j, "rejected")
          /\ UNCHANGED seen
    /\ UNCHANGED <<callVars, ledger, planVars, conversations, messages, edit, wanted, clashed>>

Post(j, role, status) ==
    messages' = [messages EXCEPT ![j] = Append(@, [role |-> role, status |-> status])]

\* Mutant: every question becomes the title.
PrepareCommit_Retitles(j) ==
    /\ work[j].stage = "preparing"
    /\ conversations' = [conversations EXCEPT ![Of(j)].title = "question"]
    /\ clashed' = IF seen[j].crossed THEN clashed \cup {Of(j)} ELSE clashed
    /\ Cross(Of(j), [seen EXCEPT ![j] = Unseen], edit)
    /\ Post(j, "user", "completed")
    /\ Goto(j, "prepared")
    /\ UNCHANGED <<callVars, ledger, planVars, wanted>>

\* The question is stored with the title: that of a new chat is made of its question
\* (blanks alone make it "New Chat" again).
PrepareCommit(j) ==
    LET c == Of(j)
        later == [seen EXCEPT ![j] = Unseen]
    IN  /\ work[j].stage = "preparing"
        /\ \/ /\ seen[j].loaded = "New Chat"
              /\ \E title \in {"question", "New Chat"} :
                    conversations' = [conversations EXCEPT ![c].title =
                                         Written(title, "New Chat", @)]
              /\ clashed' = IF seen[j].crossed THEN clashed \cup {c} ELSE clashed
              /\ Cross(c, later, edit)
           \/ /\ seen[j].loaded # "New Chat"
              /\ seen' = later
              /\ UNCHANGED <<conversations, edit, clashed>>
        /\ Post(j, "user", "completed")
        /\ Goto(j, "prepared")
        /\ UNCHANGED <<callVars, ledger, planVars, wanted>>

\* The profile may be unknown or have no key, the market provider may be unknown.
Begin(j) ==
    /\ work[j].stage = "prepared"
    /\ \/ Goto(j, CASE work[j].kind = "chat" -> "recall"
                    [] work[j].kind = "research" -> "context"
                    [] work[j].kind = "automation" -> "running")
       \/ Goto(j, "failed")
    /\ UNCHANGED <<callVars, ledger, planVars, chatVars>>

RunAutomation(j) ==
    /\ work[j].stage = "running"
    /\ Goto(j, "delivered") \/ Goto(j, "failed")
    /\ UNCHANGED <<callVars, ledger, planVars, chatVars>>

\* A research reply files the report once more, with the conversation's id.
LinkCase(j) ==
    /\ work[j].kind = "research" /\ work[j].stage = "delivered"
    /\ cases' = [cases EXCEPT ![j] = Append(@, "chat")]
    /\ Goto(j, "linked")
    /\ UNCHANGED <<callVars, runs, memories, planVars, chatVars>>

Ready(j) == work[j].stage = IF work[j].kind = "research" THEN "linked" ELSE "delivered"

\* Mutant: research is answered before it is filed.
Answer_Early(j) ==
    /\ work[j].stage = "delivered"
    /\ Post(j, "assistant", "completed")
    /\ Goto(j, "answered")
    /\ UNCHANGED <<callVars, ledger, planVars, conversations, edit, seen, wanted, clashed>>

Answer(j) ==
    /\ Ready(j)
    /\ Post(j, "assistant", "completed")
    /\ Goto(j, "answered")
    /\ UNCHANGED <<callVars, ledger, planVars, conversations, edit, seen, wanted, clashed>>

\* Mutant: the error is raised, and not stored.
AnswerError_Raises(j) ==
    /\ work[j].stage = "failed"
    /\ Goto(j, "errored")
    /\ UNCHANGED <<callVars, ledger, planVars, chatVars>>

\* The exception is raised again when the message has been stored.
AnswerError(j) ==
    /\ work[j].stage = "failed"
    /\ Post(j, "assistant", "error")
    /\ Goto(j, "errored")
    /\ UNCHANGED <<callVars, ledger, planVars, conversations, edit, seen, wanted, clashed>>

\* The database refuses a write of the chat itself.
ChatRefused(j) ==
    /\ faults < MaxFaults
    /\ faults' = faults + 1
    /\ \/ /\ work[j].stage = "preparing"
          /\ seen' = [seen EXCEPT ![j] = Unseen]
          /\ Goto(j, "rejected")
       \/ /\ work[j].kind = "research" /\ work[j].stage = "delivered"
          /\ Goto(j, "failed")
          /\ UNCHANGED seen
       \/ /\ Ready(j) \/ work[j].stage = "failed"
          /\ Goto(j, "unanswered")
          /\ UNCHANGED seen
    /\ UNCHANGED <<call, unpaid, ledger, planVars,
                   conversations, messages, edit, wanted, clashed>>

\* The process dies with the requests it serves; nothing takes them up again.
Crash ==
    /\ faults < MaxFaults
    /\ faults' = faults + 1
    /\ work' = [j \in Jobs |-> IF work[j].stage \in {"idle", "answered", "errored",
                                                     "unanswered", "rejected"}
                               THEN work[j] ELSE [work[j] EXCEPT !.stage = "lost"]]
    /\ call' = [j \in Jobs |-> NoCall]
    /\ update' = [j \in Jobs |-> NoUpdate]
    /\ seen' = [j \in Jobs |-> Unseen]
    /\ edit' = [e \in Editors |-> NoEdit]
    /\ UNCHANGED <<unpaid, ledger, plans, mixed,
                   conversations, messages, wanted, clashed>>

Reply(j) ==
    \/ Research(j) /\ UNCHANGED <<planVars, chatVars>>
    \/ React(j) /\ UNCHANGED chatVars
    \/ PrepareCommit(j) \/ Begin(j) \/ RunAutomation(j) \/ LinkCase(j)
    \/ Answer(j) \/ AnswerError(j) \/ ChatRefused(j)

Next ==
    \/ \E c \in Conversations, u \in Users : Create(c, u)
    \/ \E e \in Editors, c \in Conversations : EditRead(e, c)
    \/ \E e \in Editors, title \in NewTitles : EditCommit(e, title)
    \/ \E j \in Jobs : PrepareRead(j) \/ Reply(j)
    \/ Crash

Spec == Init /\ [][Next]_vars

\* A request that has been accepted is carried on by its thread, and each call of the
\* model ends, by its timeout at the latest.
FairSpec == Spec /\ \A j \in Jobs : WF_vars(Reply(j))
---------------------------------------------------------------------------
TypeOK ==
    /\ call \in [Jobs -> [stage : CallStage, tries : 0..Attempts - 1]]
    /\ work \in [Jobs -> [kind : Kinds, stage : Stages, agent : 1..Len(Panel), step : 1..5]]
    /\ runs \in [Jobs -> [RunTypes -> Nat]] /\ memories \in [Jobs -> [RunTypes -> Nat]]
    /\ cases \in [Jobs -> Seq({"own", "chat"})]
    /\ unpaid \in [Jobs -> Nat]
    /\ faults \in 0..MaxFaults
    /\ plans \in [Plans -> {NoPlan} \cup [status : {"active", "completed"}, steps : StepLists]]
    /\ mixed \subseteq Plans
    /\ conversations \in [Conversations -> [owner : Users \cup {"none"}, title : Titles]]
    /\ messages \in [Jobs -> Seq([role : {"user", "assistant"}, status : {"completed", "error"}])]
    /\ \A j \in Jobs :
        /\ update[j].plan \in Plans \cup {"none"}
        /\ update[j] # NoUpdate => work[j].stage = "planning"
        /\ seen[j] # Unseen => work[j].stage = "preparing"
    /\ \A e \in Editors : edit[e].conversation \in Conversations \cup {"none"}
    /\ wanted \in [Conversations -> Titles] /\ clashed \subseteq Conversations

Posted(j, role, status) ==
    \E n \in DOMAIN messages[j] : messages[j][n] = [role |-> role, status |-> status]

\* An answer is shown only when everything behind it has been written down: of
\* research, a run and a memory of every agent, the run of the workflow, and the case
\* twice, the second time for the conversation; of a chat, the run and its memory.
AnsweredIsRecorded ==
    \A j \in Jobs : Posted(j, "assistant", "completed") =>
        CASE work[j].kind = "research" ->
                /\ \A t \in Agent : runs[j][t] = 1 /\ memories[j][t] = 1
                /\ runs[j]["research"] = 1
                /\ cases[j] = <<"own", "chat">>
          [] work[j].kind = "chat" ->
                runs[j]["react_agent"] = 1 /\ memories[j]["react_agent"] = 1
          [] OTHER -> TRUE

\* However often the model fails and the database refuses a write, a request leaves no
\* run twice, remembers nothing that it has not logged, answers once, and its answer
\* comes after its question.
NothingTwice ==
    \A j \in Jobs :
        /\ \A t \in RunTypes : memories[j][t] <= runs[j][t] /\ runs[j][t] <= 1
        /\ \A n \in DOMAIN messages[j] :
                /\ n <= 2
                /\ messages[j][n].role = IF n = 1 THEN "user" ELSE "assistant"

\* Every response of the model has its row in llm_calls when the request that received
\* it ends in an answer, also the ones that could not be used; otherwise at most the
\* last response is missing.
PaidIsRecorded ==
    \A j \in Jobs :
        /\ unpaid[j] <= 1
        /\ work[j].stage \in {"delivered", "linked", "answered"} => unpaid[j] = 0

\* A title that a user has given to a conversation stays, whatever is asked in it, as
\* long as no request has read the title before a change and written it after.
TitleKeptWhenApart ==
    \A c \in Conversations :
        (c \notin clashed /\ wanted[c] \notin {"none", "New Chat"})
            => conversations[c].title = wanted[c]

\* A plan never has two steps in progress, and it is completed exactly when its steps
\* are, unless two runs have updated it at once.
PlanAgreesWhenApart ==
    \A p \in Plans :
        /\ InProgress(plans[p].steps) <= 1
        /\ (p \notin mixed /\ plans[p] # NoPlan) => plans[p].status = StatusOf(plans[p].steps)

\* A question that is stored gets an answer or an error message, unless the process
\* dies or the database refuses that very message.
EveryQuestionAnswered ==
    \A j \in Jobs : (work[j].stage = "prepared") ~>
        \/ \E status \in {"completed", "error"} : Posted(j, "assistant", status)
        \/ work[j].stage \in {"lost", "unanswered"}
=============================================================================
