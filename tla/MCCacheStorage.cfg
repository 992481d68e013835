SPECIFICATION Spec
CONSTANTS
    w1 = w1
    w2 = w2
    w3 = w3
    same = same
    other = other
    Writer = {w1, w2, w3}
    Reader = {r1}
    Content = {same, other}
    NoContent = NoContent
    ContentOf <- MCContentOf
    MaxGeneration = 4
INVARIANT OneWinnerPerGeneration
INVARIANT OnlyTwinsTakeObjects
INVARIANT ObjectsAccounted
PROPERTY ImplementsLinkedPage
CHECK_DEADLOCK FALSE
