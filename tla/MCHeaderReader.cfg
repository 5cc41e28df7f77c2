CONSTANTS
    Responses <- MCResponses
    Requests <- MCRequests
    MaxHttpHeaderSize = 18
    HeaderHeap = 13
    StatusSize = 5
    Faults = {"earlyFin", "reset"}
SPECIFICATION FairSpec
INVARIANTS BodyExact HeaderEndFound OkMeansComplete RightOutcome
PROPERTY ReadEnds
