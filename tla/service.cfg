SPECIFICATION FairSpec
CONSTANTS
    Short = 4
    Word = 8
    Long = 16
    NoNumber = NoNumber
    Nothing = Nothing
    Calls = {call, own}
    OnLoop = {own}
    Null = Null
    Pushed <- MCPushed
    Foreign <- MCForeign
    Samples <- MCSamples
    Inputs = {"none", "Signed"}
    Outputs = {"Unsigned", "Real"}
INVARIANTS
    TypeOK
    AnsweredOnce
    ResultWhole
    OwnCallFails
    StepsReady
PROPERTIES
    RpcSpec
    RequestAnswered
