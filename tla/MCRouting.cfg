SPECIFICATION FairSpec
CONSTANTS
    Configs <- MCConfigs
    Requests <- MCRequests
    Answers <- MCAnswers
INVARIANTS NoProfileTwice ContextGate ExpertGate ValidationSuffices
PROPERTY RouteEnds
CHECK_DEADLOCK FALSE
