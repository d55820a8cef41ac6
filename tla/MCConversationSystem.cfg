SPECIFICATION Spec
CONSTANTS
    Callers <- MCCallers
    Tiers <- MCTiers
    Profiles <- MCProfiles
    Questions <- MCQuestions
    Answers <- MCAnswers
    ClassifierAnswers <- MCClassifierAnswers
    Defaults <- MCDefaults
    Strings <- MCStrings
    MaxPosts = 3
INVARIANT ContextPreserved
CHECK_DEADLOCK FALSE
