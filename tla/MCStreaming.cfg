SPECIFICATION FairSpec
CONSTANTS
    AnthropicScripts <- MCAnthropicScripts
    OpenAIScripts <- MCOpenAIScripts
    OllamaScripts <- MCOllamaScripts
    ToolScripts <- MCToolScripts
    ReplyScripts <- MCReplyScripts
    Text <- MCText
    Words <- MCWords
    Tools = {"t1", "t2"}
    Capacity = 2
INVARIANTS Faithful Prompt DoneMeansComplete
PROPERTIES SendsEnd
CHECK_DEADLOCK FALSE
