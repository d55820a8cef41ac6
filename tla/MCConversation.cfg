SPECIFICATION Spec
CONSTANTS
    Callers <- MCCallers
    Tiers <- MCTiers
    Profiles <- MCProfiles
    Questions <- MCQuestions
    Answers <- MCAnswers
    ClassifierAnswers <- MCClassifierAnswers
    Defaults <- MCDefaults
    Strings <- MCStrings
    MaxPosts = 3
INVARIANTS Echo Paired PromptsFirst CallerWins AsksTheQuestion
CHECK_DEADLOCK FALSE
