\* Two questions on one session, a round of up to two tool calls and
\* one of one.  Citations do not steer the loop: WebChat.cfg has them.
CONSTANTS
    r1 = r1
    r2 = r2
    Requests <- MCRequests
    Sources <- MCSources
    Roster <- MCRoster
    MaxIterations = 2
    MaxCalls <- MCMaxCalls
SPECIFICATION MCSpec
INVARIANTS
    OpenCallsExplained
    ExchangesOrdered
PROPERTIES
    StreamsEnd
