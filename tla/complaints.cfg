SPECIFICATION FairSpec
CONSTANTS
    Student = {s1, s2}
    Hostel = {h1}
    HostelOf <- MCHostelOf
    Staff = {1}
    Email = {e1}
    Client = {k1, k2}
    Request = {q1, q2}
    MaxComplaints = 1
INVARIANTS UpvotesCounted
PROPERTIES EveryRequestEnds
