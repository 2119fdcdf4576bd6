---------------------------- MODULE LayoutMatcher ----------------------------
(* constraintMatcher.js of src/src/roomallocation/first-year-allocation:   *)
(* which unassigned students go to which of the warden's target rooms.     *)
(* The layout has a node for each bed (layout.validator.js), with the      *)
(* state and the branch it asks for.                                       *)
EXTENDS Integers, Sequences, SequencesExt

CONSTANTS
    state_category,   \* state_category[s]: "HOME_STATE" or "OTHER_STATE"
    branch            \* branch[s]: the department of student s

matchesStateAndBranch(s, node) ==
    /\ node.state \in {"ANY", state_category[s]}
    /\ node.branch \in {"ANY", branch[s]}

matchesBranchDiversity(s, group, rule) ==
    group # <<>> => CASE rule = "MUST_BE_UNIQUE" -> \A i \in DOMAIN group : branch[group[i]] # branch[s]
                      [] rule = "EXACT_MATCH" -> branch[group[1]] = branch[s]
                      [] OTHER -> TRUE

\* Faulty variant of TakeNode: the student is not taken out of the pool (used by a mutant).
TakeNodeAgain(found, node, rule) ==
    LET i == SelectInSeq(found.pool, LAMBDA s : /\ matchesStateAndBranch(s, node)
                                                /\ matchesBranchDiversity(s, found.group, rule)) IN
    IF found.full /\ i # 0
    THEN [found EXCEPT !.group = Append(@, found.pool[i])]
    ELSE [found EXCEPT !.full = FALSE]

\* The first student who fits takes the node's bed; after a node nobody fits the loop ends.
TakeNode(found, node, rule) ==
    LET i == SelectInSeq(found.pool, LAMBDA s : /\ matchesStateAndBranch(s, node)
                                                /\ matchesBranchDiversity(s, found.group, rule)) IN
    IF found.full /\ i # 0
    THEN [found EXCEPT !.group = Append(@, found.pool[i]), !.pool = RemoveAt(@, i)]
    ELSE [found EXCEPT !.full = FALSE]

\* The beds of one room, in the order of the nodes.
TakeNodes(pool, layout) ==
    FoldLeft(LAMBDA found, node : TakeNode(found, node, layout.branchDiversity),
             [group |-> <<>>, pool |-> pool, full |-> TRUE], layout.nodes)

\* The map of groups by room with a group for the room.
Put(groups, room, group) ==
    [r \in {room} \cup DOMAIN groups |-> IF r = room THEN group ELSE groups[r]]

\* A room whose nodes are not all taken gives its candidates back, at the end of the pool.
FillRoom(done, room, layout) ==
    LET found == TakeNodes(done.pool, layout) IN
    IF found.full
    THEN [pool |-> found.pool, allocations |-> Put(done.allocations, room, found.group)]
    ELSE [pool |-> found.pool \o found.group, allocations |-> done.allocations]

\* The allocations, a function from some of the rooms to sequences of students.
matchConstraints(pool, rooms, layout) ==
    FoldLeft(LAMBDA done, room : FillRoom(done, room, layout),
             [pool |-> pool, allocations |-> <<>>], rooms).allocations
=============================================================================
