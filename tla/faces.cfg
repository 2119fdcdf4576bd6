SPECIFICATION FairSpec
CONSTANTS
    Student = {s1}
    Request = {q1, q2}
    MAX_FACE_IMAGES = 2
    MaxFaults = 1
INVARIANTS FacesAgree
PROPERTIES EveryRequestEnds
