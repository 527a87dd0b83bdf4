SPECIFICATION FairSpec
CONSTANTS
    Jobs <- const_Jobs
    Conversations <- const_Conversations
    Asked <- const_Asked
    Actions <- const_Actions
    Panel <- const_Panel
    StepLists <- const_StepLists
    Plans = {"plan"}
    Editors = {"e"}
    Users = {"default", "guest"}
    NewTitles = {"edited"}
    MaxRetries = 2
    MaxSteps <- const_MaxSteps
    MaxFaults = 1
INVARIANTS TypeOK AnsweredIsRecorded NothingTwice PaidIsRecorded TitleKeptWhenApart PlanAgreesWhenApart
PROPERTY EveryQuestionAnswered
CHECK_DEADLOCK FALSE
