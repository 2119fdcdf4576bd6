---------------------- MODULE AllocationEngine_proofs -----------------------
(***************************************************************************)
(* Proofs about AllocationEngine: type correctness, no overbooking, a      *)
(* group is allocated once and for good, nothing of a dissolved group is   *)
(* left, every step is a step or a stutter of GroupPlacement, and, when    *)
(* the engine is left alone, a group is turned away for lack of beds only. *)
(***************************************************************************)
EXTENDS AllocationEngine, FiniteSetTheorems, WellFoundedInduction, TLAPS

-----------------------------------------------------------------------------
(* Lemmas                                                                  *)

\* A non-empty set of naturals has a least element.
LEMMA LeastNatural ==
    ASSUME NEW T \in SUBSET Nat, T # {}
    PROVE  \E m \in T : \A n \in T : m <= n
<1>1. IsWellFoundedOn({p \in Nat \X Nat : p[1] < p[2]}, Nat)
  BY NatLessThanWellFounded, Zenon DEF OpToRel
<1>2. PICK less : less = {p \in Nat \X Nat : p[1] < p[2]} OBVIOUS
<1>3. PICK m \in T : \A n \in T : <<n, m>> \notin less BY <1>1, <1>2, WFMin
<1>4. \A n \in T : n < m => <<n, m>> \in less BY <1>2
<1>5. \A n \in T : ~ (n < m) BY <1>3, <1>4
<1>6. \A n \in T : m <= n BY <1>5
<1> QED BY <1>6

\* An executor that has work looks at a submission of its list.
LEMMA CurrentInTodo ==
    ASSUME NEW e, executor[e].todo \in SUBSET Group, executor[e].todo # {}
    PROVE  Current(e) \in executor[e].todo
<1> DEFINE todo == executor[e].todo
           ranks == {Rank[g] : g \in todo}
<1>1. ranks \in SUBSET Nat /\ ranks # {} BY EngineAssumption
<1>2. PICK m \in ranks : \A n \in ranks : m <= n BY <1>1, LeastNatural
<1>3. \E g \in todo : \A h \in todo : Rank[g] <= Rank[h] BY <1>2
<1> QED BY <1>3 DEF Current

\* The room that is selected is a room of the list, and has beds for the whole group.
LEMMA SelectedRoomFits ==
    ASSUME TypeOK, NEW x \in Submission, Fitting(x) # {}
    PROVE  /\ selectPreferredRoom(x) \in Room
           /\ canFitGroupStrict(selectPreferredRoom(x), Cardinality(Members(x[1])))
<1> DEFINE fits == Fitting(x)
           i == CHOOSE i \in fits : \A j \in fits : i <= j
<1>1. preferences[x] \in {<<>>} \cup PreferenceList BY DEF TypeOK
<1>2. fits \subseteq DOMAIN preferences[x] BY DEF Fitting
<1>3. PICK n \in 1..Cardinality(Room) : preferences[x] \in [1..n -> Room]
  <2>1. preferences[x] # <<>> BY <1>2
  <2> QED BY <1>1, <2>1 DEF PreferenceList
<1>4. Cardinality(Room) \in Nat BY EngineAssumption, FS_CardinalityType
<1>5. fits \in SUBSET Nat BY <1>2, <1>3, <1>4
<1>6. \E k \in fits : \A j \in fits : k <= j BY <1>5, LeastNatural
<1>7. i \in fits BY <1>6
<1>8. selectPreferredRoom(x) = preferences[x][i] BY DEF selectPreferredRoom
<1> QED BY <1>2, <1>3, <1>4, <1>7, <1>8 DEF Fitting

-----------------------------------------------------------------------------
(* Type correctness                                                        *)

Working ==
    [pc : {"check", "allocate", "mark"}, batch : Batch, round : Round,
     todo : (SUBSET Group) \ {{}}]

\* An executor that is not idle has a submission to look at.
LEMMA WorkingType ==
    ASSUME TypeOK, NEW e \in Executor, executor[e].pc # "idle"
    PROVE  /\ executor[e] \in Working
           /\ Current(e) \in executor[e].todo
           /\ Current(e) \in Group
           /\ CurrentSubmission(e) \in Submission
           /\ CurrentSubmission(e)[1] = Current(e)
<1>1. executor[e] \in {Idle} \cup Working BY DEF TypeOK, Working
<1>2. executor[e] \in Working BY <1>1 DEF Idle
<1>3. executor[e].todo \in SUBSET Group /\ executor[e].todo # {} BY <1>2 DEF Working
<1>4. Current(e) \in executor[e].todo BY <1>3, CurrentInTodo
<1> QED BY <1>2, <1>3, <1>4 DEF CurrentSubmission, Submission, Working

\* Going on to the next submission keeps the type.
LEMMA AdvanceType ==
    ASSUME TypeOK, NEW e \in Executor, executor[e].pc # "idle", Advance(e)
    PROVE  executor' \in [Executor -> {Idle} \cup Working]
<1> DEFINE rest == executor[e].todo \ {Current(e)}
           next == IF rest = {} THEN Idle
                   ELSE [pc |-> "check", batch |-> executor[e].batch,
                         round |-> executor[e].round, todo |-> rest]
<1>1. executor[e] \in Working BY WorkingType
<1>2. next \in {Idle} \cup Working BY <1>1 DEF Working
<1>3. executor' = [executor EXCEPT ![e] = next] BY DEF Advance
<1>4. executor \in [Executor -> {Idle} \cup Working] BY DEF TypeOK, Working
<1> HIDE DEF next
<1> QED BY <1>2, <1>3, <1>4

\* Initially every variable has its type.
LEMMA TypeInit == Init => TypeOK
BY EngineAssumption DEF Init, TypeOK, GroupStatus, Result

\* The batch the failed groups go to is a batch, or there is none.
LEMMA NextBatchType ==
    ASSUME TypeOK, NEW b \in Batch, FindNextBatch(b)
    PROVE  \E n \in Batch \cup {NoBatch} :
              evaluation' = [evaluation EXCEPT ![b] = [pc |-> "failed", todo |-> {}, next |-> n]]
<1> DEFINE later == LaterBatches(b)
           first == CHOOSE c \in later : \A d \in later : c <= d
<1>1. later # {} => first \in later
  <2> SUFFICES ASSUME later # {} PROVE first \in later OBVIOUS
  <2>1. later \in SUBSET Nat BY DEF Batch, LaterBatches
  <2>2. \E c \in later : \A d \in later : c <= d
    <3> HIDE DEF later
    <3> QED BY <2>1, LeastNatural
  <2> QED BY <2>2
<1> DEFINE n == IF later = {} THEN NoBatch ELSE first
<1>2. evaluation' = [evaluation EXCEPT ![b] = [pc |-> "failed", todo |-> {}, next |-> n]]
  BY DEF FindNextBatch
<1>3. n \in Batch \cup {NoBatch} BY <1>1 DEF LaterBatches
<1> HIDE DEF n
<1> QED BY <1>2, <1>3

EvaluationState ==
    [pc : {"idle", "next", "failed", "rollover", "penalize", "done"},
     next : Batch \cup {NoBatch}, todo : SUBSET Group]

\* Taking a group off the list of an evaluation, or ending it, keeps the type.
LEMMA EvaluationType ==
    ASSUME TypeOK, NEW b \in Batch, NEW g,
           \/ evaluation' = [evaluation EXCEPT ![b].todo = @ \ {g}]
           \/ evaluation' = [evaluation EXCEPT ![b].pc = "done"]
    PROVE  evaluation' \in [Batch -> EvaluationState]
<1>1. evaluation \in [Batch -> EvaluationState] BY DEF TypeOK, EvaluationState
<1>2. [evaluation[b] EXCEPT !.todo = @ \ {g}] \in EvaluationState
  BY <1>1 DEF EvaluationState
<1>3. [evaluation[b] EXCEPT !.pc = "done"] \in EvaluationState
  BY <1>1 DEF EvaluationState
<1> QED BY <1>1, <1>2, <1>3

\* Every step preserves the types.
LEMMA TypeStep == TypeOK /\ [Next]_vars => TypeOK'
<1> SUFFICES ASSUME TypeOK, [Next]_vars PROVE TypeOK' OBVIOUS
<1>1. ASSUME NEW b \in Batch, StartBatch(b) PROVE TypeOK'
  BY <1>1 DEF StartBatch, TypeOK, batchVars, groupVars, memberVars, bedVars,
     submissionVars, officeVars
<1>2. ASSUME NEW b \in Batch, HardLockGroups(b) PROVE TypeOK'
  BY <1>2 DEF HardLockGroups, GroupStatus, TypeOK, batchVars, groupVars, memberVars, bedVars,
     submissionVars, officeVars
<1>3. ASSUME NEW b \in Batch, HardLockLost(b) PROVE TypeOK'
  BY <1>3 DEF HardLockLost, TypeOK, batchVars, groupVars, memberVars, bedVars,
     submissionVars, officeVars
<1>4. ASSUME NEW g \in Group, NEW b \in Batch, NEW k \in Round, BeginSubmit(g, b, k) PROVE TypeOK'
  BY <1>4 DEF BeginSubmit, TypeOK, batchVars, groupVars, memberVars, bedVars,
     submissionVars, officeVars
<1>5. ASSUME NEW g \in Group, NEW p \in PreferenceList, CommitSubmit(g, p) PROVE TypeOK'
  BY <1>5
  DEF CommitSubmit, Unlocked, Result, Submission, TypeOK, batchVars, groupVars,
      memberVars, bedVars, submissionVars, officeVars
<1>6. ASSUME NEW g \in Group, AbortSubmit(g) PROVE TypeOK'
  BY <1>6 DEF AbortSubmit, TypeOK, batchVars, groupVars, memberVars, bedVars,
     submissionVars, officeVars
<1>7. ASSUME NEW e \in Executor, NEW b \in Batch, NEW k \in Round, FetchRound(e, b, k) PROVE TypeOK'
  BY <1>7 DEF FetchRound, TypeOK, batchVars, groupVars, memberVars, bedVars,
     submissionVars, officeVars
<1>8. ASSUME NEW e \in Executor, SkipProcessed(e) PROVE TypeOK'
  BY <1>8, AdvanceType
  DEF SkipProcessed, Working, TypeOK, batchVars, groupVars, memberVars, bedVars,
      submissionVars, officeVars
<1>9. ASSUME NEW e \in Executor, PassGuard(e) PROVE TypeOK'
  BY <1>9, WorkingType, ZenonT(40)
  DEF PassGuard, Working, TypeOK, batchVars, groupVars, memberVars, bedVars,
      submissionVars, officeVars
<1>10. ASSUME NEW e \in Executor, GuardReadFails(e) PROVE TypeOK'
  BY <1>10 DEF GuardReadFails, TypeOK, batchVars, groupVars, memberVars, bedVars,
     submissionVars, officeVars
<1>11. ASSUME NEW e \in Executor, RollBack(e) PROVE TypeOK'
  BY <1>11, WorkingType, ZenonT(40)
  DEF RollBack, Working, TypeOK, batchVars, groupVars, memberVars, bedVars,
      submissionVars, officeVars
<1>12. ASSUME NEW e \in Executor, TransactionFails(e) PROVE TypeOK'
  BY <1>12, WorkingType, ZenonT(40)
  DEF TransactionFails, Working, TypeOK, batchVars, groupVars, memberVars, bedVars,
      submissionVars, officeVars
<1>13. ASSUME NEW e \in Executor, TurnAway(e) PROVE TypeOK'
  BY <1>13, AdvanceType
  DEF TurnAway, Working, Result, TypeOK, batchVars, groupVars, memberVars, bedVars,
      submissionVars, officeVars
<1>14. ASSUME NEW e \in Executor, Allocate(e) PROVE TypeOK'
  BY <1>14, AdvanceType, WorkingType, SelectedRoomFits
  DEF Allocate, Working, Result, GroupStatus, Members, TypeOK, batchVars, groupVars,
      memberVars, bedVars, submissionVars, officeVars
<1>15. ASSUME NEW e \in Executor, MarkFailed(e) PROVE TypeOK'
  BY <1>15, AdvanceType
  DEF MarkFailed, Working, Result, TypeOK, batchVars, groupVars, memberVars, bedVars,
      submissionVars, officeVars
<1>16. ASSUME NEW e \in Executor, MarkingFails(e) PROVE TypeOK'
  BY <1>16, AdvanceType
  DEF MarkingFails, Working, TypeOK, batchVars, groupVars, memberVars, bedVars,
      submissionVars, officeVars
<1>17. ASSUME NEW b \in Batch, EndBatch(b) PROVE TypeOK'
  BY <1>17, ZenonT(40) DEF EndBatch, TypeOK, batchVars, groupVars, memberVars, bedVars,
     submissionVars, officeVars
<1>18. ASSUME NEW b \in Batch, FindNextBatch(b) PROVE TypeOK'
  <2>1. PICK n \in Batch \cup {NoBatch} :
            evaluation' = [evaluation EXCEPT ![b] = [pc |-> "failed", todo |-> {}, next |-> n]]
    BY <1>18, NextBatchType
  <2>2. UNCHANGED <<batchVars, groupVars, memberVars, bedVars, submissionVars, executor,
                    officeVars>>
    BY <1>18 DEF FindNextBatch
  <2> QED
    BY <2>1, <2>2
    DEF TypeOK, batchVars, groupVars, memberVars, bedVars, submissionVars, officeVars
<1>19. ASSUME NEW b \in Batch, ListFailed(b) PROVE TypeOK'
  BY <1>19 DEF ListFailed, TypeOK, batchVars, groupVars, memberVars, bedVars,
     submissionVars, officeVars
<1>20. ASSUME NEW b \in Batch, NEW g \in Group, RolloverGroup(b, g) PROVE TypeOK'
  <2>1. evaluation' \in [Batch -> EvaluationState] BY <1>20, EvaluationType DEF RolloverGroup
  <2>2. batch_id' \in [Group -> Batch] /\ rollover_count' \in [Group -> Nat]
    <3> DEFINE next == evaluation[b].next
               moves == next # NoBatch /\ status[g] # "DELETED" /\ batch_id[g] # next
    <3>1. batch_id \in [Group -> Batch] /\ rollover_count \in [Group -> Nat]
      BY DEF TypeOK
    <3>2. next \in Batch \cup {NoBatch} BY DEF TypeOK
    <3>3. moves => /\ batch_id' = [batch_id EXCEPT ![g] = next]
                   /\ rollover_count' = [rollover_count EXCEPT ![g] = @ + 1]
      BY <1>20 DEF RolloverGroup
    <3>4. ~ moves => UNCHANGED <<batch_id, rollover_count>> BY <1>20 DEF RolloverGroup
    <3>5. CASE moves
      <4>1. next \in Batch BY <3>2, <3>5
      <4> HIDE DEF next
      <4> QED BY <3>1, <3>3, <3>5, <4>1
    <3>6. CASE ~ moves BY <3>1, <3>4, <3>6
    <3> QED BY <3>5, <3>6
  <2> QED
    BY <1>20, <2>1, <2>2 DEF RolloverGroup, EvaluationState, TypeOK, batchVars, memberVars,
       bedVars, submissionVars, officeVars
<1>21. ASSUME NEW b \in Batch, RolloverAborts(b) PROVE TypeOK'
  BY <1>21, ZenonT(40) DEF RolloverAborts, TypeOK, batchVars, groupVars, memberVars, bedVars,
     submissionVars, officeVars
<1>22. ASSUME NEW b \in Batch, ListGhosts(b) PROVE TypeOK'
  BY <1>22 DEF ListGhosts, TypeOK, batchVars, groupVars, memberVars, bedVars,
     submissionVars, officeVars
<1>23. ASSUME NEW b \in Batch, NEW g \in Group, PenalizeGroup(b, g) PROVE TypeOK'
  <2>1. evaluation' \in [Batch -> EvaluationState] BY <1>23, EvaluationType DEF PenalizeGroup
  <2>2. status' \in [Group -> GroupStatus] /\ group_id' \in [Student -> Group \cup {NoGroup}]
    <3>1. /\ status \in [Group -> GroupStatus]
          /\ group_id \in [Student -> Group \cup {NoGroup}]
      BY DEF TypeOK
    <3>2. CASE StillGhost(g, b)
      <4>1. (IF Members(g) = {} THEN "PENALIZED" ELSE "DELETED") \in GroupStatus
        BY DEF GroupStatus
      <4>2. DissolveGroup(g) BY <1>23, <3>2 DEF PenalizeGroup
      <4> QED BY <3>1, <4>1, <4>2 DEF DissolveGroup
    <3>3. CASE ~ StillGhost(g, b) BY <1>23, <3>1, <3>3 DEF PenalizeGroup
    <3> QED BY <3>2, <3>3
  <2>3. /\ invitations' \subseteq Student \X Group
        /\ allocation_result' \in [Submission -> Result]
        /\ preferences' \in [Submission -> {<<>>} \cup PreferenceList]
    BY <1>23 DEF PenalizeGroup, DissolveGroup, TypeOK, Result
  <2> QED
    BY <1>23, <2>1, <2>2, <2>3 DEF PenalizeGroup, EvaluationState, TypeOK, batchVars,
       bedVars, officeVars
<1>24. ASSUME NEW b \in Batch, NEW g \in Group, PenaltyFails(b, g) PROVE TypeOK'
  BY <1>24, EvaluationType DEF PenaltyFails, EvaluationState, TypeOK, batchVars, groupVars,
     memberVars, bedVars, submissionVars, officeVars
<1>25. ASSUME NEW b \in Batch, FinishEvaluation(b) PROVE TypeOK'
  BY <1>25, EvaluationType DEF FinishEvaluation, EvaluationState, TypeOK, batchVars,
     groupVars, memberVars, bedVars, submissionVars, officeVars
<1>26. ASSUME NEW s \in Student, NEW g \in Group, AcceptInvitation(s, g) PROVE TypeOK'
  BY <1>26 DEF AcceptInvitation, TypeOK, batchVars, groupVars, memberVars, bedVars,
     submissionVars, officeVars
<1>27. ASSUME NEW s \in Student, NEW g \in Group, JoinGroup(s, g) PROVE TypeOK'
  BY <1>27 DEF JoinGroup, TypeOK, batchVars, groupVars, memberVars, bedVars,
     submissionVars, officeVars
<1>28. ASSUME NEW s \in Student, NEW g \in Group, JoinFails(s, g) PROVE TypeOK'
  BY <1>28 DEF JoinFails, TypeOK, batchVars, groupVars, memberVars, bedVars,
     submissionVars, officeVars
<1>29. ASSUME NEW s \in Student, NEW r \in Room, CheckResident(s, r) PROVE TypeOK'
  BY <1>29, EngineAssumption
  DEF CheckResident, OfficeCall, TypeOK, batchVars, groupVars, memberVars, bedVars,
      submissionVars
<1>30. ASSUME NEW s \in Student, NEW r \in Room, AssignResident(s, r) PROVE TypeOK'
  BY <1>30 DEF AssignResident, TypeOK, batchVars, groupVars, memberVars, submissionVars
<1>31. ASSUME NEW s \in Student, NEW r \in Room, AssignFails(s, r) PROVE TypeOK'
  BY <1>31 DEF AssignFails, TypeOK, batchVars, groupVars, memberVars, bedVars, submissionVars
<1>32. ASSUME NEW s \in Student, NEW r \in Room, ForceAssignRoom(s, r) PROVE TypeOK'
  BY <1>32, EngineAssumption
  DEF ForceAssignRoom, OfficeCall, TypeOK, batchVars, groupVars, memberVars, submissionVars
<1>33. ASSUME NEW s \in Student, NEW r \in Room, RemoveResident(s, r) PROVE TypeOK'
  BY <1>33, EngineAssumption
  DEF RemoveResident, OfficeCall, TypeOK, batchVars, groupVars, memberVars, submissionVars
<1>34. CASE UNCHANGED vars
  BY <1>34
  DEF vars, TypeOK, batchVars, groupVars, memberVars, bedVars, submissionVars, officeVars
<1> QED
  BY <1>1, <1>2, <1>3, <1>4, <1>5, <1>6, <1>7, <1>8, <1>9, <1>10, <1>11, <1>12, <1>13,
     <1>14, <1>15, <1>16, <1>17, <1>18, <1>19, <1>20, <1>21, <1>22, <1>23, <1>24, <1>25,
     <1>26, <1>27, <1>28, <1>29, <1>30, <1>31, <1>32, <1>33, <1>34
  DEF Next, QuietNext, Submit, Execute, Evaluate, Invite, Office, Fault

\* Every variable has its type in every reachable state.
THEOREM TypeCorrect == Spec => []TypeOK
<1>1. Init => TypeOK BY TypeInit
<1>2. TypeOK /\ [Next]_vars => TypeOK' BY TypeStep
<1> QED BY <1>1, <1>2, PTL DEF Spec

-----------------------------------------------------------------------------
(* A room never has more bookings than beds                                *)

Booked(f, r) == {s \in Student : f[s] = r}

\* The bookings of a room are finitely many.
LEMMA BookedFinite ==
    ASSUME NEW f, NEW r
    PROVE  IsFiniteSet(Booked(f, r)) /\ Cardinality(Booked(f, r)) \in Nat
BY EngineAssumption, FS_Subset, FS_CardinalityType DEF Booked

\* Fewer bookings count less.
LEMMA BookedFewer ==
    ASSUME NEW f, NEW h, NEW r, Booked(f, r) \subseteq Booked(h, r)
    PROVE  Cardinality(Booked(f, r)) <= Cardinality(Booked(h, r))
BY BookedFinite, FS_Subset

\* One booking counts one.
LEMMA BookedOneMore ==
    ASSUME NEW f, NEW h, NEW r, NEW s, Booked(f, r) \subseteq Booked(h, r) \cup {s}
    PROVE  Cardinality(Booked(f, r)) <= Cardinality(Booked(h, r)) + 1
<1>1. /\ IsFiniteSet(Booked(h, r) \cup {s})
      /\ Cardinality(Booked(h, r) \cup {s}) <= Cardinality(Booked(h, r)) + 1
  BY BookedFinite, FS_AddElement
<1>2. Cardinality(Booked(f, r)) <= Cardinality(Booked(h, r) \cup {s}) BY <1>1, FS_Subset
<1>3. Cardinality(Booked(h, r) \cup {s}) \in Nat BY <1>1, FS_CardinalityType
<1> QED BY <1>1, <1>2, <1>3, BookedFinite

\* NoOverbooking, with a name for the bookings of a room.
LEMMA NoOverbookingCounts ==
    NoOverbooking <=> \A r \in Room :
        Cardinality(Booked(upcoming, r)) + Cardinality(Booked(active, r)) <= Capacity[r]
BY DEF NoOverbooking, Booked

\* Bookings are made by the engine and by the office, and by nobody else.
LEMMA WhoBooks ==
    ASSUME [Next]_vars
    PROVE  \/ UNCHANGED bedVars
           \/ \E e \in Executor : Allocate(e)
           \/ Office
BY ZenonT(40) DEF Next, QuietNext, Submit, Execute, Evaluate, Invite, Fault, vars, bedVars,
   StartBatch, HardLockGroups, HardLockLost, BeginSubmit, CommitSubmit, AbortSubmit,
   FetchRound, SkipProcessed, PassGuard, GuardReadFails, RollBack, TransactionFails,
   TurnAway, MarkFailed, MarkingFails, EndBatch, FindNextBatch, ListFailed, RolloverGroup,
   RolloverAborts, ListGhosts, PenalizeGroup, PenaltyFails, FinishEvaluation,
   AcceptInvitation, JoinGroup, JoinFails

\* The members of the group take the beds that were counted under the room's lock.
LEMMA AllocateFits ==
    ASSUME TypeOK, NoOverbooking, NEW e \in Executor, Allocate(e)
    PROVE  NoOverbooking'
<1> DEFINE g == Current(e)
           x == CurrentSubmission(e)
           room == selectPreferredRoom(x)
<1>1. x \in Submission /\ x[1] = g BY WorkingType DEF Allocate
<1>2. room \in Room /\ canFitGroupStrict(room, Cardinality(Members(g)))
  BY <1>1, SelectedRoomFits DEF Allocate
<1>3. /\ \A s \in Members(g) : upcoming[s] = NoRoom
      /\ upcoming' = [s \in Student |-> IF s \in Members(g) THEN room ELSE upcoming[s]]
      /\ active' = active
  BY DEF Allocate
<1>4. IsFiniteSet(Members(g)) /\ Cardinality(Members(g)) \in Nat
  BY EngineAssumption, FS_Subset, FS_CardinalityType DEF Members
<1> SUFFICES ASSUME NEW r \in Room
             PROVE  Cardinality(Booked(upcoming', r)) + Cardinality(Booked(active', r))
                        <= Capacity[r]
  BY DEF NoOverbooking, Booked
<1>5. CASE r = room
  <2>1. Booked(upcoming', r) = Booked(upcoming, r) \cup Members(g)
    BY <1>3, <1>5 DEF Booked, Members
  <2>2. Booked(upcoming, r) \cap Members(g) = {}
    BY <1>3, EngineAssumption DEF Booked
  <2>3. Cardinality(Booked(upcoming', r))
            = Cardinality(Booked(upcoming, r)) + Cardinality(Members(g))
    <3> DEFINE B == Booked(upcoming, r)
               M == Members(g)
    <3>1. IsFiniteSet(B) /\ Cardinality(B) \in Nat BY BookedFinite
    <3>2. IsFiniteSet(M) /\ Cardinality(M) \in Nat BY <1>4
    <3>3. B \cap M = {} BY <2>2
    <3> HIDE DEF B, M
    <3>4. Cardinality(B \cup M) = Cardinality(B) + Cardinality(M) - Cardinality(B \cap M)
      BY <3>1, <3>2, FS_Union
    <3>5. Cardinality(B \cap M) = 0 BY <3>3, FS_EmptySet
    <3>6. Cardinality(B \cup M) = Cardinality(B) + Cardinality(M) BY <3>1, <3>2, <3>4, <3>5
    <3> QED BY <2>1, <3>6 DEF B, M
  <2>4. Cardinality(Booked(upcoming, r)) + Cardinality(Booked(active, r))
            + Cardinality(Members(g)) <= Capacity[r]
    BY <1>2, <1>5 DEF canFitGroupStrict, Occupancy, Booked
  <2> QED BY <1>3, <1>4, <2>3, <2>4, BookedFinite
<1>6. CASE r # room
  <2>1. Booked(upcoming', r) = Booked(upcoming, r)
    BY <1>3, <1>6, EngineAssumption DEF Booked, Members
  <2> QED BY <1>3, <2>1, NoOverbookingCounts
<1> QED BY <1>5, <1>6

\* The office takes one bed at most, and only where one is free.
LEMMA OfficeFits ==
    ASSUME TypeOK, NoOverbooking, Office
    PROVE  NoOverbooking'
<1> SUFFICES ASSUME NEW r \in Room
             PROVE  Cardinality(Booked(upcoming', r)) + Cardinality(Booked(active', r))
                        <= Capacity[r]
  BY DEF NoOverbooking, Booked
<1>1. PICK s \in Student, room \in Room :
          \/ CheckResident(s, room) \/ AssignResident(s, room) \/ AssignFails(s, room)
          \/ ForceAssignRoom(s, room) \/ RemoveResident(s, room)
  BY DEF Office
<1>2. /\ Cardinality(Booked(upcoming, r)) + Cardinality(Booked(active, r)) <= Capacity[r]
      /\ Capacity[r] \in Nat
  BY NoOverbookingCounts, EngineAssumption
<1>3. Occupancy(r) = Cardinality(Booked(upcoming, r)) + Cardinality(Booked(active, r))
  BY DEF Occupancy, Booked
<1>4. CASE r # room \/ CheckResident(s, room) \/ AssignFails(s, room) \/ RemoveResident(s, room)
  <2>1. /\ Booked(upcoming', r) \subseteq Booked(upcoming, r)
        /\ Booked(active', r) \subseteq Booked(active, r)
    BY <1>1, <1>4, EngineAssumption
       DEF Booked, CheckResident, AssignResident, AssignFails, ForceAssignRoom,
           RemoveResident, TypeOK, bedVars
  <2> QED BY <1>2, <2>1, BookedFewer, BookedFinite
<1>5. CASE AssignResident(s, room) /\ r = room
  <2>1. /\ Booked(upcoming', r) \subseteq Booked(upcoming, r) \cup {s}
        /\ active' = active
    BY <1>5 DEF Booked, AssignResident, TypeOK
  <2>2. Occupancy(r) < Capacity[r] BY <1>5 DEF AssignResident
  <2>3. Cardinality(Booked(upcoming', r)) <= Cardinality(Booked(upcoming, r)) + 1
    BY <2>1, BookedOneMore
  <2>4. /\ Cardinality(Booked(upcoming', r)) \in Nat
        /\ Cardinality(Booked(upcoming, r)) \in Nat
        /\ Cardinality(Booked(active, r)) \in Nat
    BY BookedFinite
  <2> QED BY <1>2, <1>3, <2>1, <2>2, <2>3, <2>4
<1>6. CASE ForceAssignRoom(s, room) /\ r = room
  <2>1. /\ Booked(active', r) \subseteq Booked(active, r) \cup {s}
        /\ upcoming' = upcoming
    BY <1>6 DEF Booked, ForceAssignRoom, TypeOK
  <2>2. Occupancy(r) < Capacity[r] BY <1>6 DEF ForceAssignRoom
  <2>3. Cardinality(Booked(active', r)) <= Cardinality(Booked(active, r)) + 1
    BY <2>1, BookedOneMore
  <2>4. /\ Cardinality(Booked(active', r)) \in Nat
        /\ Cardinality(Booked(active, r)) \in Nat
        /\ Cardinality(Booked(upcoming, r)) \in Nat
    BY BookedFinite
  <2> QED BY <1>2, <1>3, <2>1, <2>2, <2>3, <2>4
<1> QED BY <1>1, <1>4, <1>5, <1>6

\* A room never has more ACTIVE and UPCOMING bookings than beds, for any number of
\* students, rooms, batches, rounds and executors.
THEOREM NeverOverbooked == Spec => []NoOverbooking
<1>1. Init => NoOverbooking BY DEF Init, Occupancy, NoOverbooking
<1>2. TypeOK /\ NoOverbooking /\ [Next]_vars => NoOverbooking'
  <2> SUFFICES ASSUME TypeOK, NoOverbooking, [Next]_vars PROVE NoOverbooking' OBVIOUS
  <2>1. CASE UNCHANGED bedVars BY <2>1 DEF bedVars, NoOverbooking
  <2>2. CASE \E e \in Executor : Allocate(e) BY <2>2, AllocateFits
  <2>3. CASE Office BY <2>3, OfficeFits
  <2> QED BY <2>1, <2>2, <2>3, WhoBooks
<1> QED BY <1>1, <1>2, TypeCorrect, PTL DEF Spec

-----------------------------------------------------------------------------
(* A group is allocated once, and for good                                 *)

Won(x) == allocation_result[x] = "ALLOCATED"

AllocationsUnchanged ==
    /\ \A x \in Submission : Won(x)' <=> Won(x)
    /\ \A g \in Group : status'[g] = "ALLOCATED" <=> status[g] = "ALLOCATED"

\* Results and group statuses are written by these steps only.
LEMMA WhoDecides ==
    ASSUME [Next]_vars
    PROVE  \/ UNCHANGED <<status, allocation_result>>
           \/ \E b \in Batch : HardLockGroups(b)
           \/ \E g \in Group, p \in PreferenceList : CommitSubmit(g, p)
           \/ \E e \in Executor : TurnAway(e) \/ Allocate(e) \/ MarkFailed(e)
           \/ \E b \in Batch, g \in Group : PenalizeGroup(b, g) /\ DissolveGroup(g)
                                              /\ StillGhost(g, b)
BY ZenonT(40)
DEF Next, QuietNext, Submit, Execute, Evaluate, Invite, Office, Fault, vars, groupVars,
    submissionVars, StartBatch, HardLockLost, BeginSubmit, AbortSubmit, FetchRound,
    SkipProcessed, PassGuard, GuardReadFails, RollBack, TransactionFails, MarkingFails,
    EndBatch, FindNextBatch, ListFailed, RolloverGroup, RolloverAborts, ListGhosts,
    PenalizeGroup, PenaltyFails, FinishEvaluation, AcceptInvitation, JoinGroup, JoinFails,
    OfficeCall, CheckResident, AssignResident, AssignFails, ForceAssignRoom,
    RemoveResident

\* A group that is not ALLOCATED has no ALLOCATED submission to lose.
LEMMA NothingWon ==
    ASSUME AllocatedOnce, NEW x \in Submission, status[x[1]] # "ALLOCATED"
    PROVE  ~ Won(x)
BY DEF AllocatedOnce, Submission, Won

\* Only Allocate changes which groups and submissions are ALLOCATED.
LEMMA OnlyAllocateAllocates ==
    ASSUME TypeOK, AllocatedOnce, [Next]_vars, \A e \in Executor : ~ Allocate(e)
    PROVE  AllocationsUnchanged
<1>1. CASE UNCHANGED <<status, allocation_result>> BY <1>1 DEF AllocationsUnchanged, Won
<1>2. ASSUME NEW b \in Batch, HardLockGroups(b) PROVE AllocationsUnchanged
  BY <1>2 DEF HardLockGroups, AllocationsUnchanged, Won, submissionVars, TypeOK
<1>3. ASSUME NEW g \in Group, NEW p \in PreferenceList, CommitSubmit(g, p)
      PROVE  AllocationsUnchanged
  BY <1>3 DEF CommitSubmit, AllocationsUnchanged, Won, groupVars, TypeOK
<1>4. ASSUME NEW e \in Executor, TurnAway(e) PROVE AllocationsUnchanged
  <2> DEFINE x == CurrentSubmission(e)
  <2>1. x \in Submission /\ x[1] = Current(e) BY <1>4, WorkingType DEF TurnAway
  <2>2. ~ Won(x) BY <1>4, <2>1, NothingWon DEF TurnAway, Ineligible
  <2>3. allocation_result' = [allocation_result EXCEPT ![x] = "FAILED"] /\ status' = status
    BY <1>4 DEF TurnAway, groupVars
  <2> QED BY <2>1, <2>2, <2>3 DEF AllocationsUnchanged, Won, TypeOK
<1>5. ASSUME NEW e \in Executor, MarkFailed(e) PROVE AllocationsUnchanged
  BY <1>5 DEF MarkFailed, AllocationsUnchanged, Won, groupVars, TypeOK
<1>6. ASSUME NEW b \in Batch, NEW g \in Group, DissolveGroup(g), StillGhost(g, b)
      PROVE  AllocationsUnchanged
  <2>1. status[g] # "ALLOCATED" BY <1>6 DEF StillGhost
  <2>2. \A x \in Submission : x[1] = g => ~ Won(x) BY <2>1, NothingWon
  <2>3. \A x \in Submission : Won(x)' <=> Won(x)
    BY <1>6, <2>2 DEF DissolveGroup, Won
  <2>4. \A h \in Group : status'[h] = "ALLOCATED" <=> status[h] = "ALLOCATED"
    BY <1>6, <2>1 DEF DissolveGroup, TypeOK
  <2> QED BY <2>3, <2>4 DEF AllocationsUnchanged
<1> QED BY <1>1, <1>2, <1>3, <1>4, <1>5, <1>6, WhoDecides

\* What Allocate does to results and statuses.
LEMMA AllocateWins ==
    ASSUME TypeOK, AllocatedOnce, NEW e \in Executor, Allocate(e)
    PROVE  /\ CurrentSubmission(e) \in Submission
           /\ CurrentSubmission(e)[1] = Current(e)
           /\ \A x \in Submission : Won(x)' <=> x = CurrentSubmission(e) \/ Won(x)
           /\ \A x \in Submission : x[1] = Current(e) => ~ Won(x)
           /\ \A g \in Group : status'[g] = "ALLOCATED"
                                   <=> g = Current(e) \/ status[g] = "ALLOCATED"
<1> DEFINE x == CurrentSubmission(e)
<1>1. x \in Submission /\ x[1] = Current(e) /\ Current(e) \in Group
  BY WorkingType DEF Allocate
<1>2. status[Current(e)] # "ALLOCATED" BY DEF Allocate, Ineligible
<1>3. \A y \in Submission : y[1] = Current(e) => ~ Won(y) BY <1>2, NothingWon
<1>4. /\ allocation_result' = [allocation_result EXCEPT ![x] = "ALLOCATED"]
      /\ status' = [status EXCEPT ![Current(e)] = "ALLOCATED"]
  BY DEF Allocate
<1>5. \A y \in Submission : Won(y)' <=> y = x \/ Won(y) BY <1>1, <1>4 DEF Won, TypeOK
<1>6. \A g \in Group : status'[g] = "ALLOCATED"
                             <=> g = Current(e) \/ status[g] = "ALLOCATED"
  BY <1>1, <1>4 DEF TypeOK
<1> QED BY <1>1, <1>3, <1>5, <1>6

\* Every step preserves AllocatedOnce.
LEMMA AllocatedOnceStep == TypeOK /\ AllocatedOnce /\ [Next]_vars => AllocatedOnce'
<1> SUFFICES ASSUME TypeOK, AllocatedOnce, [Next]_vars PROVE AllocatedOnce' OBVIOUS
<1>1. CASE \A e \in Executor : ~ Allocate(e)
  <2>1. AllocationsUnchanged BY <1>1, OnlyAllocateAllocates
  <2>2. \A g \in Group, b \in Batch, k \in Round : <<g, b, k>> \in Submission
    BY DEF Submission
  <2> QED BY <2>1, <2>2 DEF AllocationsUnchanged, AllocatedOnce, Won
<1>2. ASSUME NEW e \in Executor, Allocate(e) PROVE AllocatedOnce'
  <2> DEFINE x == CurrentSubmission(e)
  <2>1. \A y, z \in Submission : (Won(y)' /\ Won(z)' /\ y[1] = z[1]) => y = z
    BY <1>2, AllocateWins DEF AllocatedOnce, Won
  <2>2. ASSUME NEW g \in Group
        PROVE  status'[g] = "ALLOCATED" <=>
                  \E b \in Batch, k \in Round : Won(<<g, b, k>>)'
    <3>1. \A b \in Batch, k \in Round : <<g, b, k>> \in Submission BY DEF Submission
    <3>2. PICK b \in Batch, k \in Round : x = <<Current(e), b, k>>
      BY <1>2, AllocateWins DEF Submission
    <3>3. status[g] = "ALLOCATED" <=> \E c \in Batch, l \in Round : Won(<<g, c, l>>)
      BY DEF AllocatedOnce, Won
    <3> QED BY <1>2, <3>1, <3>2, <3>3, AllocateWins
  <2> QED BY <2>1, <2>2 DEF AllocatedOnce, Won
<1> QED BY <1>1, <1>2

\* A group has one ALLOCATED submission when it is ALLOCATED, and none otherwise,
\* however many executors work on however many rounds at the same time.
THEOREM GroupAllocatedOnce == Spec => []AllocatedOnce
<1>1. Init => AllocatedOnce BY DEF Init, AllocatedOnce, Submission
<1>2. TypeOK /\ AllocatedOnce /\ [Next]_vars => AllocatedOnce' BY AllocatedOnceStep
<1> QED BY <1>1, <1>2, TypeCorrect, PTL DEF Spec

\* No step takes an ALLOCATED result back.
THEOREM AllocatedForGood == Spec => AllocationIsFinal
<1>1. TypeOK /\ AllocatedOnce /\ [Next]_vars =>
          [\A x \in Submission :
             allocation_result[x] = "ALLOCATED" => allocation_result'[x] = "ALLOCATED"]_vars
  <2> SUFFICES ASSUME TypeOK, AllocatedOnce, [Next]_vars,
                      NEW x \in Submission, Won(x)
               PROVE  Won(x)'
    BY DEF Won
  <2>1. CASE \A e \in Executor : ~ Allocate(e)
    BY <2>1, OnlyAllocateAllocates DEF AllocationsUnchanged
  <2>2. CASE \E e \in Executor : Allocate(e) BY <2>2, AllocateWins
  <2> QED BY <2>1, <2>2
<1> QED BY <1>1, TypeCorrect, GroupAllocatedOnce, PTL DEF Spec, AllocationIsFinal

-----------------------------------------------------------------------------
(* Nothing of a dissolved group is left behind                             *)

\* A submission in progress holds the lock of a group that is still open, so that the
\* group can neither be dissolved under it nor be gone when it commits.
SubmittingMeansOpen ==
    \A g \in Group : ~ Unlocked(g) => status[g] \in {"SOFT_LOCKED", "HARD_LOCKED"}

\* Every step preserves SubmittingMeansOpen.
LEMMA SubmittingStep == TypeOK /\ SubmittingMeansOpen /\ [Next]_vars => SubmittingMeansOpen'
<1> SUFFICES ASSUME TypeOK, SubmittingMeansOpen, [Next]_vars PROVE SubmittingMeansOpen'
  OBVIOUS
<1>1. \/ UNCHANGED submitting
      \/ \E g \in Group, b \in Batch, k \in Round : BeginSubmit(g, b, k)
      \/ \E g \in Group, p \in PreferenceList : CommitSubmit(g, p)
      \/ \E g \in Group : AbortSubmit(g)
  BY ZenonT(40)
  DEF Next, QuietNext, Submit, Execute, Evaluate, Invite, Office, Fault, vars,
      submissionVars, StartBatch, HardLockGroups, HardLockLost, FetchRound, SkipProcessed,
      PassGuard, GuardReadFails, RollBack, TransactionFails, TurnAway, Allocate,
      MarkFailed, MarkingFails, EndBatch, FindNextBatch, ListFailed, RolloverGroup,
      RolloverAborts, ListGhosts, PenalizeGroup, PenaltyFails, FinishEvaluation,
      AcceptInvitation, JoinGroup, JoinFails, OfficeCall, CheckResident, AssignResident,
      AssignFails, ForceAssignRoom, RemoveResident
<1>2. CASE UNCHANGED submitting
  <2>1. CASE UNCHANGED status
    BY <1>2, <2>1 DEF SubmittingMeansOpen, Unlocked
  <2>2. ASSUME NEW b \in Batch, HardLockGroups(b) PROVE SubmittingMeansOpen'
    BY <1>2, <2>2 DEF HardLockGroups, SubmittingMeansOpen, Unlocked
  <2>3. ASSUME NEW e \in Executor, Allocate(e) PROVE SubmittingMeansOpen'
    BY <1>2, <2>3 DEF Allocate, SubmittingMeansOpen, Unlocked, TypeOK
  <2>4. ASSUME NEW b \in Batch, NEW g \in Group, PenalizeGroup(b, g), DissolveGroup(g)
        PROVE  SubmittingMeansOpen'
    BY <1>2, <2>4 DEF PenalizeGroup, DissolveGroup, SubmittingMeansOpen, Unlocked, TypeOK
  <2> QED
    BY <2>1, <2>2, <2>3, <2>4, WhoDecides DEF CommitSubmit, TurnAway, MarkFailed, groupVars
<1>3. ASSUME NEW g \in Group, NEW b \in Batch, NEW k \in Round, BeginSubmit(g, b, k)
      PROVE  SubmittingMeansOpen'
  BY <1>3 DEF BeginSubmit, SubmittingMeansOpen, Unlocked, TypeOK, groupVars
<1>4. ASSUME NEW g \in Group, AbortSubmit(g) \/ \E p \in PreferenceList : CommitSubmit(g, p)
      PROVE  SubmittingMeansOpen'
  BY <1>4 DEF AbortSubmit, CommitSubmit, SubmittingMeansOpen, Unlocked, TypeOK, groupVars
<1> QED BY <1>1, <1>2, <1>3, <1>4

\* A group that is gone stays gone, and nothing is added to it.
LEMMA GoneStaysEmpty ==
    ASSUME TypeOK, SubmittingMeansOpen, DissolvedLeavesNothing, [Next]_vars,
           NEW g \in Group, status[g] = "DELETED"
    PROVE  /\ Members(g)' = {}
           /\ \A s \in Student : <<s, g>> \notin invitations'
           /\ \A b \in Batch, k \in Round : allocation_result'[<<g, b, k>>] = "NONE"
<1>1. /\ Members(g) = {}
      /\ \A s \in Student : <<s, g>> \notin invitations
      /\ \A b \in Batch, k \in Round : allocation_result[<<g, b, k>>] = "NONE"
  BY DEF DissolvedLeavesNothing
<1>2. \/ UNCHANGED <<group_id, invitations>>
      \/ \E s \in Student, h \in Group : JoinGroup(s, h)
      \/ \E h \in Group : DissolveGroup(h)
  BY ZenonT(40)
  DEF Next, QuietNext, Submit, Execute, Evaluate, Invite, Office, Fault, vars, memberVars,
     StartBatch, HardLockGroups, HardLockLost, BeginSubmit, CommitSubmit, AbortSubmit,
     FetchRound, SkipProcessed, PassGuard, GuardReadFails, RollBack, TransactionFails,
     TurnAway, Allocate, MarkFailed, MarkingFails, EndBatch, FindNextBatch, ListFailed,
     RolloverGroup, RolloverAborts, ListGhosts, PenalizeGroup, PenaltyFails,
     FinishEvaluation, AcceptInvitation, JoinFails, OfficeCall, CheckResident, AssignResident,
     AssignFails, ForceAssignRoom, RemoveResident
<1>3. Members(g)' = {} /\ \A s \in Student : <<s, g>> \notin invitations'
  <2>1. CASE UNCHANGED <<group_id, invitations>> BY <1>1, <2>1 DEF Members
  <2>2. ASSUME NEW s \in Student, NEW h \in Group, JoinGroup(s, h)
        PROVE  Members(g)' = {} /\ \A t \in Student : <<t, g>> \notin invitations'
    BY <1>1, <2>2 DEF JoinGroup, Members, TypeOK
  <2>3. ASSUME NEW h \in Group, DissolveGroup(h)
        PROVE  Members(g)' = {} /\ \A t \in Student : <<t, g>> \notin invitations'
    BY <1>1, <2>3, EngineAssumption DEF DissolveGroup, Members
  <2> QED BY <1>2, <2>1, <2>2, <2>3
<1>4. ASSUME NEW b \in Batch, NEW k \in Round
      PROVE  allocation_result'[<<g, b, k>>] = "NONE"
  <2> DEFINE x == <<g, b, k>>
  <2>1. x \in Submission /\ allocation_result[x] = "NONE" BY <1>1 DEF Submission
  <2>2. CASE UNCHANGED allocation_result BY <2>1, <2>2
  <2>3. ASSUME NEW c \in Batch, HardLockGroups(c) PROVE allocation_result'[x] = "NONE"
    BY <2>1, <2>3 DEF HardLockGroups, submissionVars
  <2>4. ASSUME NEW h \in Group, NEW p \in PreferenceList, CommitSubmit(h, p)
        PROVE  allocation_result'[x] = "NONE"
    <3>1. h # g BY <2>4 DEF CommitSubmit, SubmittingMeansOpen
    <3>2. x # <<h, submitting[h][1], submitting[h][2]>> BY <3>1
    <3> QED BY <2>1, <2>4, <3>2 DEF CommitSubmit, TypeOK
  <2>5. ASSUME NEW e \in Executor, TurnAway(e) \/ Allocate(e)
        PROVE  allocation_result'[x] = "NONE"
    <3>1. Current(e) # g BY <2>5 DEF TurnAway, Allocate, Ineligible
    <3>2. x # CurrentSubmission(e) BY <3>1 DEF CurrentSubmission
    <3> QED BY <2>1, <2>5, <3>2 DEF TurnAway, Allocate, TypeOK
  <2>6. ASSUME NEW e \in Executor, MarkFailed(e) PROVE allocation_result'[x] = "NONE"
    BY <2>1, <2>6 DEF MarkFailed, TypeOK
  <2>7. ASSUME NEW h \in Group, DissolveGroup(h) PROVE allocation_result'[x] = "NONE"
    BY <2>1, <2>7 DEF DissolveGroup
  <2> QED BY <2>2, <2>3, <2>4, <2>5, <2>6, <2>7, WhoDecides
<1> QED BY <1>3, <1>4

\* Only the ghost penalty removes a group, and it takes everything along.
LEMMA WhoRemoves ==
    ASSUME TypeOK, [Next]_vars, NEW g \in Group, status'[g] = "DELETED", status[g] # "DELETED"
    PROVE  DissolveGroup(g) /\ Members(g) # {}
<1>1. ASSUME NEW b \in Batch, HardLockGroups(b) PROVE FALSE
  BY <1>1 DEF HardLockGroups
<1>2. ASSUME NEW e \in Executor, Allocate(e) PROVE FALSE
  BY <1>2 DEF Allocate, TypeOK
<1>3. ASSUME NEW b \in Batch, NEW h \in Group, DissolveGroup(h)
      PROVE  h = g /\ Members(g) # {}
  BY <1>3 DEF DissolveGroup, TypeOK
<1> QED
  BY <1>1, <1>2, <1>3, WhoDecides DEF CommitSubmit, TurnAway, MarkFailed, groupVars

\* Every step preserves DissolvedLeavesNothing.
LEMMA DissolvedStep ==
    TypeOK /\ SubmittingMeansOpen /\ DissolvedLeavesNothing /\ [Next]_vars
        => DissolvedLeavesNothing'
<1> SUFFICES ASSUME TypeOK, SubmittingMeansOpen, DissolvedLeavesNothing, [Next]_vars,
                    NEW g \in Group, status'[g] = "DELETED"
             PROVE  /\ Members(g)' = {}
                    /\ \A s \in Student : <<s, g>> \notin invitations'
                    /\ \A b \in Batch, k \in Round :
                          allocation_result'[<<g, b, k>>] = "NONE"
  BY DEF DissolvedLeavesNothing
<1>1. CASE status[g] = "DELETED" BY <1>1, GoneStaysEmpty
<1>2. CASE status[g] # "DELETED"
  <2>1. DissolveGroup(g) /\ Members(g) # {} BY <1>2, WhoRemoves
  <2>2. Members(g)' = {} BY <2>1, EngineAssumption DEF DissolveGroup, Members
  <2> QED BY <2>1, <2>2 DEF DissolveGroup, Submission
<1> QED BY <1>1, <1>2

\* Nothing of a group is left once its row is deleted, and nothing is added later.
THEOREM DissolvedLeavesNothingBehind == Spec => []DissolvedLeavesNothing
<1>1. Init => SubmittingMeansOpen /\ DissolvedLeavesNothing
  BY DEF Init, SubmittingMeansOpen, DissolvedLeavesNothing
<1>2. TypeOK /\ SubmittingMeansOpen /\ DissolvedLeavesNothing /\ [Next]_vars
          => SubmittingMeansOpen' /\ DissolvedLeavesNothing'
  BY SubmittingStep, DissolvedStep
<1> QED BY <1>1, <1>2, TypeCorrect, PTL DEF Spec

-----------------------------------------------------------------------------
(* The engine implements GroupPlacement                                    *)

\* The instance has a Cardinality of its own, with the same definition.
LEMMA SameCardinality == \A S : Placement!Cardinality(S) = Cardinality(S)
BY DEF Cardinality, Placement!Cardinality

\* Initial states of the engine are initial states of GroupPlacement.
LEMMA PlacementInit == Init => Placement!Init
<1> SUFFICES ASSUME Init PROVE Placement!Init OBVIOUS
<1>1. Outcome = [g \in Group |-> "waiting"] BY DEF Init, Outcome
<1>2. Placement!WithinCapacity
  BY SameCardinality DEF Init, Occupancy, Placement!WithinCapacity, Placement!Load
<1> QED BY <1>1, <1>2, EngineAssumption DEF Init, Placement!Init

\* Only these actions change a student's group, the bookings the office was asked for, and
\* the number of its calls.
LEMMA WhoMoves ==
    ASSUME [Next]_vars
    PROVE  \/ UNCHANGED <<group_id, assigning, officeCalls>>
           \/ \E s \in Student, g \in Group : JoinGroup(s, g)
           \/ \E b \in Batch, g \in Group : PenalizeGroup(b, g) /\ DissolveGroup(g)
                                              /\ StillGhost(g, b)
           \/ Office
BY ZenonT(40) DEF Next, QuietNext, Submit, Execute, Evaluate, Invite, Fault, vars,
   memberVars, officeVars, StartBatch, HardLockGroups, HardLockLost, BeginSubmit,
   CommitSubmit, AbortSubmit, FetchRound, SkipProcessed, PassGuard, GuardReadFails,
   RollBack, TransactionFails, TurnAway, Allocate, MarkFailed, MarkingFails, EndBatch,
   FindNextBatch, ListFailed, RolloverGroup, RolloverAborts, ListGhosts, PenalizeGroup,
   PenaltyFails, FinishEvaluation, AcceptInvitation, JoinFails

\* A call of the office is one of GroupPlacement.
LEMMA PlacementOffice ==
    ASSUME TypeOK, TypeOK', Placement!WithinCapacity', UNCHANGED Outcome,
           NEW s \in Student, NEW r \in Room,
           \/ CheckResident(s, r) \/ AssignResident(s, r) \/ AssignFails(s, r)
           \/ ForceAssignRoom(s, r) \/ RemoveResident(s, r)
    PROVE  Placement!Request(s, r) \/ Placement!Answer(s, r) \/ Placement!Move(s, r)
<1>1. ASSUME CheckResident(s, r) PROVE Placement!Request(s, r)
  BY <1>1 DEF CheckResident, OfficeCall, Placement!Request, Placement!groupVars,
     Placement!bedVars, bedVars, memberVars
<1>2. ASSUME AssignResident(s, r) \/ AssignFails(s, r) PROVE Placement!Answer(s, r)
  BY <1>2 DEF AssignResident, AssignFails, Placement!Answer, Placement!groupVars, bedVars,
     memberVars
<1>3. ASSUME ForceAssignRoom(s, r) \/ RemoveResident(s, r) PROVE Placement!Move(s, r)
  BY <1>3 DEF ForceAssignRoom, RemoveResident, OfficeCall, Placement!Move,
     Placement!groupVars, memberVars
<1> QED BY <1>1, <1>2, <1>3

\* Every step of the engine is a step of GroupPlacement or a stutter.
LEMMA PlacementStep ==
    TypeOK /\ NoOverbooking' /\ TypeOK' /\ [Next]_vars => [Placement!Next]_(Placement!vars)
<1> SUFFICES ASSUME TypeOK, TypeOK', NoOverbooking', [Next]_vars
             PROVE  \/ Placement!Next
                    \/ UNCHANGED <<group_id, Outcome, bedVars, assigning, officeCalls>>
  BY DEF Placement!vars, Placement!groupVars, Placement!bedVars, Placement!officeVars, bedVars
<1>1. Placement!WithinCapacity'
  BY SameCardinality DEF NoOverbooking, Placement!WithinCapacity, Placement!Load
<1>2. UNCHANGED status => UNCHANGED Outcome BY DEF Outcome
<1>3. ASSUME NEW e \in Executor, Allocate(e) PROVE Placement!Next
  <2> DEFINE g == Current(e)
             x == CurrentSubmission(e)
  <2>1. g \in Group /\ x \in Submission /\ x[1] = g BY <1>3, WorkingType DEF Allocate
  <2>2. selectPreferredRoom(x) \in Room BY <1>3, <2>1, SelectedRoomFits DEF Allocate
  <2>3. Outcome[g] = "waiting" BY <1>3, <2>1 DEF Allocate, Ineligible, Outcome
  <2>4. Outcome' = [Outcome EXCEPT ![g] = "placed"]
    BY <1>3, <2>1 DEF Allocate, Outcome, TypeOK
  <2>5. Placement!Members(g) = Members(g) BY DEF Members, Placement!Members
  <2>6. Placement!Place(g, selectPreferredRoom(x))
    BY <1>1, <1>3, <2>3, <2>4, <2>5
       DEF Allocate, Ineligible, Placement!Place, Placement!officeVars, memberVars, officeVars
  <2> QED BY <2>1, <2>2, <2>6 DEF Placement!Next
<1>4. CASE Office
  <2>1. UNCHANGED Outcome BY <1>2, <1>4 DEF Office, AssignResident, ForceAssignRoom,
        RemoveResident, CheckResident, AssignFails, OfficeCall, groupVars
  <2>2. PICK s \in Student, r \in Room :
            \/ CheckResident(s, r) \/ AssignResident(s, r) \/ AssignFails(s, r)
            \/ ForceAssignRoom(s, r) \/ RemoveResident(s, r)
    BY <1>4 DEF Office
  <2>3. Placement!Request(s, r) \/ Placement!Answer(s, r) \/ Placement!Move(s, r)
    BY <1>1, <2>1, <2>2, PlacementOffice
  <2> QED BY <2>3 DEF Placement!Next
<1>5. ASSUME NEW b \in Batch, NEW g \in Group, PenalizeGroup(b, g), DissolveGroup(g),
             StillGhost(g, b)
      PROVE  Placement!Next
  <2>1. Outcome[g] = "waiting"
    <3>1. status[g] \in GroupStatus \ {"ALLOCATED", "PENALIZED", "DELETED"}
      BY <1>5 DEF StillGhost, TypeOK
    <3> QED BY <3>1 DEF Outcome
  <2>2. Placement!Members(g) = Members(g) BY DEF Members, Placement!Members
  <2>3. Outcome' = [Outcome EXCEPT ![g] = IF Members(g) = {} THEN "penalized" ELSE "dissolved"]
    BY <1>5 DEF DissolveGroup, Outcome, TypeOK
  <2>4. Placement!Dissolve(g)
    BY <1>5, <2>1, <2>2, <2>3 DEF PenalizeGroup, DissolveGroup, Placement!Dissolve,
       Placement!bedVars, Placement!officeVars, bedVars, officeVars
  <2> QED BY <2>4 DEF Placement!Next
<1>6. ASSUME NEW s \in Student, NEW g \in Group, JoinGroup(s, g) PROVE Placement!Next
  <2>1. UNCHANGED Outcome BY <1>2, <1>6 DEF JoinGroup, groupVars
  <2>2. Outcome[g] # "dissolved" BY <1>6 DEF JoinGroup, Outcome
  <2>3. Placement!Join(s, g)
    BY <1>6, <2>1, <2>2 DEF JoinGroup, Placement!Join, Placement!bedVars,
       Placement!officeVars, bedVars, officeVars
  <2> QED BY <2>3 DEF Placement!Next
<1>7. ASSUME NEW b \in Batch, HardLockGroups(b) PROVE UNCHANGED Outcome
  BY <1>7 DEF HardLockGroups, Outcome
<1>8. \/ UNCHANGED Outcome
      \/ \E e \in Executor : Allocate(e)
      \/ \E b \in Batch, g \in Group : PenalizeGroup(b, g) /\ DissolveGroup(g)
                                         /\ StillGhost(g, b)
  BY <1>2, <1>7, WhoDecides DEF CommitSubmit, TurnAway, MarkFailed, groupVars
<1>9. \/ UNCHANGED <<group_id, assigning, officeCalls>>
      \/ \E s \in Student, g \in Group : JoinGroup(s, g)
      \/ \E b \in Batch, g \in Group : PenalizeGroup(b, g) /\ DissolveGroup(g)
                                         /\ StillGhost(g, b)
      \/ Office
  BY WhoMoves
<1> QED BY <1>3, <1>4, <1>5, <1>6, <1>8, <1>9, WhoBooks

\* The engine keeps the promise of GroupPlacement: all members of a group are placed in one
\* room in one step, or the group is dissolved, for good, and beds change hands in no other
\* way but by the calls of the office.
THEOREM EngineImplementsPlacement == Spec => PlacementSpec
<1>1. Init => Placement!Init BY PlacementInit
<1>2. TypeOK /\ NoOverbooking' /\ TypeOK' /\ [Next]_vars
          => [Placement!Next]_(Placement!vars)
  BY PlacementStep
<1> QED
  BY <1>1, <1>2, TypeCorrect, NeverOverbooked, PTL DEF Spec, PlacementSpec, Placement!Spec

-----------------------------------------------------------------------------
(* A group is turned away only for lack of beds                            *)

\* A group whose status is final: the engine refuses it.
Decided(g) == status[g] \in {"ALLOCATED", "SHATTERED", "PENALIZED", "DELETED"}

\* A submission, and an executor's work on it, is of a group that has members or is past
\* all decisions.
PeopledInv ==
    \A g \in Group : Members(g) = {} /\ ~ Decided(g) =>
        /\ Unlocked(g)
        /\ \A b \in Batch, k \in Round : allocation_result[<<g, b, k>>] = "NONE"
        /\ \A e \in Executor : g \notin executor[e].todo

\* Without the office, only the members of an ALLOCATED group have a bed for next year,
\* so that no INSERT of the engine meets the unique index ...
BedInv ==
    \A s \in Student : upcoming[s] # NoRoom =>
        group_id[s] \in Group /\ status[group_id[s]] = "ALLOCATED"

\* ... and without failing statements, a transaction is rolled back only for a group that
\* is past all decisions.
MarkInv == \A e \in Executor : executor[e].pc = "mark" => Decided(Current(e))

QuietInv == PeopledInv /\ BedInv /\ MarkInv /\ FailedMeansFull

\* A quiet step is a step.
LEMMA QuietIsNext == [QuietNext]_vars => [Next]_vars
BY DEF Next

\* Without the office, only the engine books.
LEMMA QuietBooks ==
    ASSUME [QuietNext]_vars
    PROVE  UNCHANGED bedVars \/ \E e \in Executor : Allocate(e)
BY ZenonT(40) DEF QuietNext, Submit, Execute, Evaluate, Invite, vars, bedVars,
   StartBatch, HardLockGroups, BeginSubmit, CommitSubmit, AbortSubmit, FetchRound,
   SkipProcessed, PassGuard, RollBack, TurnAway, MarkFailed, EndBatch, FindNextBatch,
   ListFailed, RolloverGroup, ListGhosts, PenalizeGroup, FinishEvaluation,
   AcceptInvitation, JoinGroup, JoinFails

\* Who changes the members of a group.
LEMMA WhoJoins ==
    ASSUME [QuietNext]_vars
    PROVE  \/ UNCHANGED group_id
           \/ \E s \in Student, g \in Group : JoinGroup(s, g)
           \/ \E b \in Batch, g \in Group : DissolveGroup(g) /\ StillGhost(g, b)
BY DEF QuietNext, Submit, Execute, Evaluate, Invite, vars, memberVars,
   StartBatch, HardLockGroups, BeginSubmit, CommitSubmit, AbortSubmit, FetchRound,
   SkipProcessed, PassGuard, RollBack, TurnAway, Allocate, MarkFailed, EndBatch,
   FindNextBatch, ListFailed, RolloverGroup, ListGhosts, PenalizeGroup, FinishEvaluation,
   AcceptInvitation, JoinFails

\* Who opens a submission, and who writes its preferences.
LEMMA WhoSubmits ==
    ASSUME [QuietNext]_vars
    PROVE  \/ UNCHANGED <<submitting, preferences>>
           \/ \E g \in Group, b \in Batch, k \in Round : BeginSubmit(g, b, k)
           \/ \E g \in Group, p \in PreferenceList : CommitSubmit(g, p)
           \/ \E g \in Group : AbortSubmit(g)
           \/ UNCHANGED submitting /\ \E g \in Group : DissolveGroup(g)
BY ZenonT(40) DEF QuietNext, Submit, Execute, Evaluate, Invite, vars, submissionVars,
   StartBatch, HardLockGroups, FetchRound,
   SkipProcessed, PassGuard, RollBack, TurnAway, Allocate, MarkFailed, EndBatch,
   FindNextBatch, ListFailed, RolloverGroup, ListGhosts, PenalizeGroup, FinishEvaluation,
   AcceptInvitation, JoinGroup, JoinFails

\* Who changes the state of an executor.
LEMMA WhoExecutes ==
    ASSUME [QuietNext]_vars
    PROVE  \/ UNCHANGED executor
           \/ \E e \in Executor, b \in Batch, k \in Round : FetchRound(e, b, k)
           \/ \E e \in Executor : Execute(e)
BY DEF QuietNext, Submit, Evaluate, Invite, vars,
   StartBatch, HardLockGroups, BeginSubmit, CommitSubmit, AbortSubmit, EndBatch,
   FindNextBatch, ListFailed, RolloverGroup, ListGhosts, PenalizeGroup, FinishEvaluation,
   AcceptInvitation, JoinGroup, JoinFails

\* No step takes a group back that is past all decisions.
LEMMA DecidedStays ==
    ASSUME TypeOK, [QuietNext]_vars, NEW g \in Group, Decided(g)
    PROVE  Decided(g)'
<1>1. ASSUME NEW b \in Batch, HardLockGroups(b) PROVE Decided(g)'
  BY <1>1 DEF HardLockGroups, Decided
<1>2. ASSUME NEW e \in Executor, Allocate(e) PROVE Decided(g)'
  BY <1>2 DEF Allocate, Decided, TypeOK
<1>3. ASSUME NEW h \in Group, DissolveGroup(h) PROVE Decided(g)'
  BY <1>3 DEF DissolveGroup, Decided, TypeOK
<1> QED
  BY <1>1, <1>2, <1>3, QuietIsNext, WhoDecides
     DEF Decided, CommitSubmit, TurnAway, MarkFailed, groupVars

\* An open group loses no member.
LEMMA MembersStay ==
    ASSUME TypeOK, [QuietNext]_vars, NEW g \in Group, ~ Decided(g)'
    PROVE  ~ Decided(g) /\ Members(g) \subseteq Members(g)'
<1>1. ASSUME NEW s \in Student, NEW h \in Group, JoinGroup(s, h)
      PROVE  Members(g) \subseteq Members(g)'
  BY <1>1, EngineAssumption DEF JoinGroup, Members, TypeOK
<1>2. ASSUME NEW h \in Group, DissolveGroup(h) PROVE Members(g) \subseteq Members(g)'
  <2>1. h # g BY <1>2 DEF DissolveGroup, Decided, TypeOK
  <2> QED BY <1>2, <2>1 DEF DissolveGroup, Members
<1> QED BY <1>1, <1>2, WhoJoins, DecidedStays DEF Members

\* Bookings are only added.
LEMMA OccupancyGrows ==
    ASSUME TypeOK, [QuietNext]_vars, NEW r \in Room
    PROVE  Occupancy(r) \in Nat /\ Occupancy(r)' \in Nat /\ Occupancy(r) <= Occupancy(r)'
<1>1. /\ Occupancy(r) = Cardinality(Booked(upcoming, r)) + Cardinality(Booked(active, r))
      /\ Occupancy(r)' = Cardinality(Booked(upcoming', r)) + Cardinality(Booked(active', r))
  BY DEF Occupancy, Booked
<1>2. ASSUME NEW e \in Executor, Allocate(e)
      PROVE  Booked(upcoming, r) \subseteq Booked(upcoming', r) /\ active' = active
  BY <1>2, EngineAssumption DEF Allocate, Booked
<1>3. /\ Booked(upcoming, r) \subseteq Booked(upcoming', r)
      /\ Booked(active, r) \subseteq Booked(active', r)
  BY <1>2, QuietBooks DEF Booked, bedVars
<1>4. /\ Cardinality(Booked(upcoming, r)) <= Cardinality(Booked(upcoming', r))
      /\ Cardinality(Booked(active, r)) <= Cardinality(Booked(active', r))
  BY <1>3, BookedFewer
<1>5. /\ Cardinality(Booked(upcoming, r)) \in Nat /\ Cardinality(Booked(upcoming', r)) \in Nat
      /\ Cardinality(Booked(active, r)) \in Nat /\ Cardinality(Booked(active', r)) \in Nat
  BY BookedFinite
<1> QED BY <1>1, <1>4, <1>5

\* What the engine works on has members: nobody leaves an open group, and an empty one
\* cannot submit.
LEMMA PeopledStep == TypeOK /\ PeopledInv /\ [QuietNext]_vars => PeopledInv'
<1> SUFFICES ASSUME TypeOK, PeopledInv, [QuietNext]_vars,
                    NEW g \in Group, Members(g)' = {}, ~ Decided(g)'
             PROVE  /\ Unlocked(g)'
                    /\ \A b \in Batch, k \in Round : allocation_result'[<<g, b, k>>] = "NONE"
                    /\ \A e \in Executor : g \notin executor'[e].todo
  BY DEF PeopledInv
<1>1. Members(g) = {} /\ ~ Decided(g) BY MembersStay
<1>2. /\ Unlocked(g)
      /\ \A b \in Batch, k \in Round : allocation_result[<<g, b, k>>] = "NONE"
      /\ \A e \in Executor : g \notin executor[e].todo
  BY <1>1 DEF PeopledInv
<1>3. Unlocked(g)'
  <2>1. ASSUME NEW h \in Group, NEW b \in Batch, NEW k \in Round, BeginSubmit(h, b, k)
        PROVE  Unlocked(g)'
    <3>1. h # g BY <1>1, <2>1 DEF BeginSubmit
    <3> QED BY <1>2, <2>1, <3>1 DEF BeginSubmit, Unlocked, TypeOK
  <2>2. ASSUME NEW h \in Group, AbortSubmit(h) \/ \E p \in PreferenceList : CommitSubmit(h, p)
        PROVE  Unlocked(g)'
    BY <1>2, <2>2 DEF AbortSubmit, CommitSubmit, Unlocked, TypeOK
  <2>3. CASE UNCHANGED submitting BY <1>2, <2>3 DEF Unlocked
  <2> QED BY <2>1, <2>2, <2>3, WhoSubmits
<1>4. ASSUME NEW b \in Batch, NEW k \in Round
      PROVE  allocation_result'[<<g, b, k>>] = "NONE"
  <2> DEFINE x == <<g, b, k>>
  <2>1. x \in Submission /\ allocation_result[x] = "NONE" BY <1>2 DEF Submission
  <2>2. CASE UNCHANGED allocation_result BY <2>1, <2>2
  <2>3. ASSUME NEW c \in Batch, HardLockGroups(c) PROVE allocation_result'[x] = "NONE"
    BY <2>1, <2>3 DEF HardLockGroups, submissionVars
  <2>4. ASSUME NEW h \in Group, NEW p \in PreferenceList, CommitSubmit(h, p)
        PROVE  allocation_result'[x] = "NONE"
    <3>1. h # g BY <1>2, <2>4 DEF CommitSubmit
    <3>2. x # <<h, submitting[h][1], submitting[h][2]>> BY <3>1
    <3> QED BY <2>1, <2>4, <3>2 DEF CommitSubmit, TypeOK
  <2>5. ASSUME NEW e \in Executor, TurnAway(e) \/ Allocate(e)
        PROVE  allocation_result'[x] = "NONE"
    <3>1. Current(e) \in executor[e].todo BY <2>5, WorkingType DEF TurnAway, Allocate
    <3>2. x # CurrentSubmission(e) BY <1>2, <3>1 DEF CurrentSubmission
    <3> QED BY <2>1, <2>5, <3>2 DEF TurnAway, Allocate, TypeOK
  <2>6. ASSUME NEW e \in Executor, MarkFailed(e) PROVE allocation_result'[x] = "NONE"
    BY <2>1, <2>6 DEF MarkFailed, TypeOK
  <2>7. ASSUME NEW h \in Group, DissolveGroup(h) PROVE allocation_result'[x] = "NONE"
    BY <2>1, <2>7 DEF DissolveGroup
  <2> QED BY <2>2, <2>3, <2>4, <2>5, <2>6, <2>7, QuietIsNext, WhoDecides
<1>5. ASSUME NEW e \in Executor PROVE g \notin executor'[e].todo
  <2>1. ASSUME NEW f \in Executor, NEW b \in Batch, NEW k \in Round, FetchRound(f, b, k)
        PROVE  g \notin executor'[e].todo
    BY <1>2, <2>1 DEF FetchRound, TypeOK
  <2>2. ASSUME NEW f \in Executor, Execute(f) PROVE g \notin executor'[e].todo
    <3>1. CASE Advance(f) BY <1>2, <3>1 DEF Advance, Idle, TypeOK
    <3>2. CASE PassGuard(f) \/ RollBack(f)
      <4>1. executor[f] \in Working BY <3>2, WorkingType DEF PassGuard, RollBack
      <4>2. \A pc \in {"allocate", "mark"} :
                [executor[f] EXCEPT !.pc = pc].todo = executor[f].todo
        BY <4>1 DEF Working
      <4>3. \E pc \in {"allocate", "mark"} :
                executor' = [executor EXCEPT ![f] = [executor[f] EXCEPT !.pc = pc]]
        BY <3>2 DEF PassGuard, RollBack
      <4> QED BY <1>2, <4>2, <4>3 DEF TypeOK
    <3> QED
      BY <2>2, <3>1, <3>2 DEF Execute, SkipProcessed, TurnAway, Allocate, MarkFailed
  <2> QED BY <1>2, <2>1, <2>2, WhoExecutes
<1> QED BY <1>3, <1>4, <1>5

\* Only an allocation gives a student a bed, and it makes the student's group ALLOCATED.
LEMMA BedStep == TypeOK /\ BedInv /\ [QuietNext]_vars => BedInv'
<1> SUFFICES ASSUME TypeOK, BedInv, [QuietNext]_vars,
                    NEW s \in Student, upcoming'[s] # NoRoom
             PROVE  group_id'[s] \in Group /\ status'[group_id'[s]] = "ALLOCATED"
  BY DEF BedInv
<1>1. ASSUME NEW e \in Executor, Allocate(e)
      PROVE  group_id'[s] \in Group /\ status'[group_id'[s]] = "ALLOCATED"
  <2>1. Current(e) \in Group BY <1>1, WorkingType DEF Allocate
  <2>2. group_id' = group_id /\ status' = [status EXCEPT ![Current(e)] = "ALLOCATED"]
    BY <1>1 DEF Allocate, memberVars
  <2>3. CASE s \in Members(Current(e)) BY <2>1, <2>2, <2>3 DEF Members, TypeOK
  <2>4. CASE s \notin Members(Current(e))
    <3>1. upcoming[s] # NoRoom BY <1>1, <2>4 DEF Allocate
    <3> QED BY <2>2, <3>1 DEF BedInv, TypeOK
  <2> QED BY <2>3, <2>4
<1>2. CASE \A e \in Executor : ~ Allocate(e)
  <2>1. group_id[s] \in Group /\ status[group_id[s]] = "ALLOCATED"
    BY <1>2, QuietBooks DEF BedInv, bedVars
  <2>2. group_id'[s] = group_id[s]
    <3>1. ASSUME NEW t \in Student, NEW g \in Group, JoinGroup(t, g)
          PROVE  group_id'[s] = group_id[s]
      BY <2>1, <3>1, EngineAssumption DEF JoinGroup, TypeOK
    <3>2. ASSUME NEW b \in Batch, NEW g \in Group, DissolveGroup(g), StillGhost(g, b)
          PROVE  group_id'[s] = group_id[s]
      BY <2>1, <3>2 DEF DissolveGroup, StillGhost, Members
    <3> QED BY <3>1, <3>2, WhoJoins
  <2>3. status'[group_id[s]] = "ALLOCATED"
    <3>1. ASSUME NEW b \in Batch, HardLockGroups(b) PROVE status'[group_id[s]] = "ALLOCATED"
      BY <2>1, <3>1 DEF HardLockGroups
    <3>2. ASSUME NEW b \in Batch, NEW g \in Group, DissolveGroup(g), StillGhost(g, b)
          PROVE  status'[group_id[s]] = "ALLOCATED"
      BY <2>1, <3>2 DEF DissolveGroup, StillGhost, TypeOK
    <3> QED
      BY <1>2, <2>1, <3>1, <3>2, QuietIsNext, WhoDecides
         DEF CommitSubmit, TurnAway, MarkFailed, groupVars
  <2> QED BY <2>1, <2>2, <2>3
<1> QED BY <1>1, <1>2

\* A transaction is rolled back only for a group that is past all decisions.
LEMMA MarkStep ==
    TypeOK /\ PeopledInv /\ BedInv /\ MarkInv /\ [QuietNext]_vars => MarkInv'
<1> SUFFICES ASSUME TypeOK, PeopledInv, BedInv, MarkInv, [QuietNext]_vars,
                    NEW e \in Executor, executor'[e].pc = "mark"
             PROVE  Decided(Current(e))'
  BY DEF MarkInv
<1>1. CASE executor'[e] = executor[e]
  <2>1. executor[e].pc = "mark" BY <1>1
  <2>2. Decided(Current(e)) /\ Current(e) \in Group BY <2>1, WorkingType DEF MarkInv
  <2>3. Current(e)' = Current(e) BY <1>1 DEF Current
  <2> QED BY <2>2, <2>3, DecidedStays DEF Decided
<1>2. CASE RollBack(e)
  <2> DEFINE g == Current(e)
  <2>1. g \in Group /\ g \in executor[e].todo BY <1>2, WorkingType DEF RollBack
  <2>2. Decided(g)
    <3>1. CASE Ineligible(g) BY <2>1, <3>1 DEF Ineligible, Decided, PeopledInv
    <3>2. CASE \E s \in Members(g) : upcoming[s] # NoRoom
      BY <3>2 DEF BedInv, Members, Decided
    <3> QED BY <1>2, <3>1, <3>2 DEF RollBack
  <2>3. executor'[e].todo = executor[e].todo BY <1>2 DEF RollBack, TypeOK
  <2>4. Current(e)' = g BY <2>3 DEF Current
  <2>5. status' = status BY <1>2 DEF RollBack, groupVars
  <2> QED BY <2>2, <2>4, <2>5 DEF Decided
<1>3. ASSUME NEW f \in Executor, Execute(f), ~ RollBack(e)
      PROVE  executor'[e] = executor[e]
  <2>1. CASE Advance(f) BY <2>1 DEF Advance, Idle, TypeOK
  <2>2. CASE PassGuard(f) BY <2>2 DEF PassGuard, TypeOK
  <2>3. CASE RollBack(f) BY <1>3, <2>3 DEF RollBack, TypeOK
  <2> QED
    BY <1>3, <2>1, <2>2, <2>3 DEF Execute, SkipProcessed, TurnAway, Allocate, MarkFailed
<1>4. ASSUME NEW f \in Executor, NEW b \in Batch, NEW k \in Round, FetchRound(f, b, k)
      PROVE  executor'[e] = executor[e]
  BY <1>4 DEF FetchRound, TypeOK
<1> QED BY <1>1, <1>2, <1>3, <1>4, WhoExecutes

\* A group that was turned away does not fit later: beds are only taken, and nobody leaves
\* the group.
LEMMA FailedStep ==
    TypeOK /\ TypeOK' /\ QuietInv /\ [QuietNext]_vars => FailedMeansFull'
<1> SUFFICES ASSUME TypeOK, TypeOK', QuietInv, [QuietNext]_vars, NEW x \in Submission,
                    allocation_result'[x] = "FAILED", ~ Ineligible(x[1])',
                    NEW i \in DOMAIN preferences'[x], NEW r, r = preferences'[x][i]
             PROVE  Occupancy(r)' + Cardinality(Members(x[1]))' > Capacity[r]
  BY DEF FailedMeansFull, Occupancy
<1> DEFINE g == x[1]
<1>1. PICK b \in Batch, k \in Round : x = <<g, b, k>> /\ g \in Group BY DEF Submission
<1>2. ~ Decided(g)' BY DEF Ineligible, Decided
<1>3. ~ Decided(g) /\ Members(g) \subseteq Members(g)' BY <1>1, <1>2, MembersStay
<1>4. r \in Room
  <2>1. preferences'[x] \in {<<>>} \cup PreferenceList BY DEF TypeOK
  <2>2. PICK n \in 1..Cardinality(Room) : preferences'[x] \in [1..n -> Room]
    BY <2>1 DEF PreferenceList
  <2>3. Cardinality(Room) \in Nat BY EngineAssumption, FS_CardinalityType
  <2> QED BY <2>2, <2>3
<1>5. /\ Occupancy(r) \in Nat /\ Occupancy(r)' \in Nat /\ Occupancy(r) <= Occupancy(r)'
      /\ Capacity[r] \in Nat
  BY <1>4, OccupancyGrows, EngineAssumption
<1>6. /\ Cardinality(Members(g)) \in Nat /\ Cardinality(Members(g)') \in Nat
      /\ Cardinality(Members(g)) <= Cardinality(Members(g)')
  <2>1. IsFiniteSet(Members(g)) /\ IsFiniteSet(Members(g)')
    BY EngineAssumption, FS_Subset DEF Members
  <2> QED BY <1>3, <2>1, FS_Subset, FS_CardinalityType
<1>7. SUFFICES Occupancy(r) + Cardinality(Members(g)) > Capacity[r]
  BY <1>5, <1>6
<1>8. CASE allocation_result[x] = "FAILED"
  <2>1. Members(g) # {} BY <1>1, <1>3, <1>8 DEF QuietInv, PeopledInv
  <2>2. ~ Ineligible(g) BY <1>3, <2>1 DEF Ineligible, Decided
  <2>3. preferences'[x] = preferences[x]
    <3>1. ASSUME NEW h \in Group, NEW p \in PreferenceList, CommitSubmit(h, p)
          PROVE  preferences'[x] = preferences[x]
      BY <1>8, <3>1 DEF CommitSubmit, TypeOK
    <3>2. ASSUME NEW h \in Group, DissolveGroup(h) PROVE preferences'[x] = preferences[x]
      <4>1. h # g BY <1>2, <3>2 DEF DissolveGroup, Decided, TypeOK
      <4> QED BY <3>2, <4>1 DEF DissolveGroup
    <3> QED BY <3>1, <3>2, WhoSubmits DEF BeginSubmit, AbortSubmit
  <2> QED BY <1>8, <2>2, <2>3 DEF QuietInv, FailedMeansFull
<1>9. CASE allocation_result[x] # "FAILED"
  <2>1. ASSUME NEW e \in Executor, TurnAway(e)
        PROVE  Occupancy(r) + Cardinality(Members(g)) > Capacity[r]
    <3>1. x = CurrentSubmission(e) BY <1>9, <2>1 DEF TurnAway, TypeOK
    <3>2. Fitting(x) = {} /\ preferences' = preferences BY <2>1, <3>1 DEF TurnAway
    <3>3. ~ canFitGroupStrict(r, Cardinality(Members(g))) BY <3>2 DEF Fitting
    <3> QED BY <1>5, <1>6, <3>3 DEF canFitGroupStrict
  <2>2. ASSUME NEW e \in Executor, MarkFailed(e) PROVE FALSE
    <3>1. x = CurrentSubmission(e) BY <1>9, <2>2 DEF MarkFailed, TypeOK
    <3>2. Decided(g) BY <2>2, <3>1, WorkingType DEF MarkFailed, QuietInv, MarkInv
    <3> QED BY <1>3, <3>2
  <2>3. ASSUME NEW e \in Executor, Allocate(e) PROVE FALSE
    BY <1>9, <2>3 DEF Allocate, TypeOK
  <2>4. ASSUME NEW h \in Group, NEW p \in PreferenceList, CommitSubmit(h, p) PROVE FALSE
    BY <1>9, <2>4 DEF CommitSubmit, TypeOK
  <2>5. ASSUME NEW h \in Group, DissolveGroup(h) PROVE FALSE
    BY <1>9, <2>5 DEF DissolveGroup
  <2> QED
    BY <1>9, <2>1, <2>2, <2>3, <2>4, <2>5, QuietIsNext, WhoDecides
       DEF HardLockGroups, submissionVars
<1> QED BY <1>8, <1>9

\* Left alone, with any number of executors and members who come late, the engine turns a
\* group away only if none of its preferred rooms has beds for all members, then and later.
THEOREM TurnedAwayForLackOfBeds == QuietSpec => []FailedMeansFull
<1>1. Init => TypeOK /\ QuietInv
  <2>1. Init => PeopledInv
    BY DEF Init, PeopledInv, Unlocked, Submission, Idle
  <2>2. Init => BedInv /\ MarkInv /\ FailedMeansFull
    BY DEF Init, BedInv, MarkInv, FailedMeansFull, Idle
  <2> QED BY <2>1, <2>2, TypeInit DEF QuietInv
<1>2. TypeOK /\ QuietInv /\ [QuietNext]_vars => TypeOK' /\ QuietInv'
  <2> SUFFICES ASSUME TypeOK, QuietInv, [QuietNext]_vars PROVE TypeOK' /\ QuietInv'
    OBVIOUS
  <2>1. TypeOK' BY QuietIsNext, TypeStep
  <2>2. FailedMeansFull' BY <2>1, FailedStep
  <2> QED BY <2>1, <2>2, PeopledStep, BedStep, MarkStep DEF QuietInv
<1>3. QuietInv => FailedMeansFull BY DEF QuietInv
<1> QED BY <1>1, <1>2, <1>3, PTL DEF QuietSpec

-----------------------------------------------------------------------------
(* A ghost has not submitted                                               *)

\* A group is dissolved at the end of a batch only if it has no submission in this batch,
\* whatever was submitted after the ghosts were listed: the penalty looks again under the
\* group's lock.
THEOREM GhostsNeverSubmitted == Spec => GhostNeverSubmitted
<1>1. TypeOK /\ [Next]_vars =>
          [\A g \in Group, b \in Batch :
             (status[g] # "DELETED" /\ status'[g] = "DELETED"
                /\ evaluation'[b].todo # evaluation[b].todo)
                   => \A k \in Round : allocation_result[<<g, b, k>>] = "NONE"]_vars
  <2> SUFFICES ASSUME TypeOK, [Next]_vars, NEW g \in Group, NEW b \in Batch,
                      status[g] # "DELETED", status'[g] = "DELETED",
                      evaluation'[b].todo # evaluation[b].todo
               PROVE  \A k \in Round : allocation_result[<<g, b, k>>] = "NONE"
    OBVIOUS
  <2>1. ASSUME NEW c \in Batch, NEW h \in Group, PenalizeGroup(c, h), DissolveGroup(h),
               StillGhost(h, c)
        PROVE  \A k \in Round : allocation_result[<<g, b, k>>] = "NONE"
    <3>1. h = g BY <2>1 DEF DissolveGroup, TypeOK
    <3>2. c = b BY <2>1 DEF PenalizeGroup, TypeOK
    <3> QED BY <2>1, <3>1, <3>2 DEF StillGhost
  <2>2. ASSUME NEW c \in Batch, HardLockGroups(c) PROVE FALSE
    BY <2>2 DEF HardLockGroups
  <2>3. ASSUME NEW e \in Executor, Allocate(e) PROVE FALSE
    BY <2>3 DEF Allocate, TypeOK
  <2> QED
    BY <2>1, <2>2, <2>3, WhoDecides DEF CommitSubmit, TurnAway, MarkFailed, groupVars
<1> QED BY <1>1, TypeCorrect, PTL DEF Spec, GhostNeverSubmitted

=============================================================================
