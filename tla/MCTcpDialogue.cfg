\* Two connections of two units, every form of the client with a form of the server.
SPECIFICATION Spec
CONSTANTS
    MaxConns = 2
    Units = 2
    MAX = 2
    connect_num = 2
    Pairings <- MCPairings
INVARIANTS
    InStep
    NeverWritesAfterReset
    SuccessIsComplete
    NamesDistinct
PROPERTIES
    AllSucceed
\* Everything comes to its end, or one side waits for what never comes.
CHECK_DEADLOCK FALSE
