SPECIFICATION FairSpec
CONSTANTS
    Workers = {w1, w2}
    Nobody = Nobody
    Names = {n1, n2}
    Passwords = {p1, p2}
    n1 = n1 n2 = n2 p1 = p1 p2 = p2
    Requests <- ClientRequests
    NoUser = NoUser
    Empty = Empty
INVARIANTS MapAgreesWithTable ToldStayRegistered
PROPERTIES RefinesAccounts EveryRequestAnswered
