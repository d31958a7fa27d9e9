SPECIFICATION LiveSpec
CONSTANTS
    Statuses <- EdgeStatuses
    TransientErrors = {"reset", "unexpectedEOF"}
    OtherErrors = {"noHost"}
    CustomStatuses = {404, 503}
    CustomErrors = {"noHost", "deadline"}
    NoError = "nil"
    NoResponse = NoResponse
    BadHeader = "badHeader"
    MaxAttempts = 3
INVARIANTS
    TypeOK
    EachAttemptWhole
    ResponsesClosed
    DoneStopsRetries
    TransientTriedAgain
PROPERTIES
    DoneEndsCall
