--------------------------- MODULE AgentPoolProofs ---------------------------
(***************************************************************************)
(* Proofs about the agent pool of runtime/agent_pool.rs, for every pool    *)
(* size, number of agent types and set of callers.                         *)
(*                                                                         *)
(* Neither TypeOK nor PermitAccounting is inductive on its own: ResetOk    *)
(* pushes held[c] onto the Vec and Execute indexes execCount by it, which  *)
(* stays well typed only because a caller that is borrowing or resetting   *)
(* always owns an agent (OwnerHolds).                                      *)
(***************************************************************************)
EXTENDS AgentPool, DistinctSeqs, FiniteSetTheorems, TLAPS

(* A caller between AcquireTake and the end of release() owns an agent.    *)
OwnerHolds ==
  \A c \in Callers : pc[c] \in {Holding, Resetting} => held[c] \in Agents

IInv == TypeOK /\ OwnerHolds /\ PermitAccounting

(* The protocol phases are distinct strings.                               *)
USE DEF Idle, Acquiring, Holding, Resetting

(* Cardinality of the permit holders when one caller joins or leaves.      *)
LEMMA HoldersFinite == IsFiniteSet(PermitHolders)
BY CallersAssumption, FS_Subset DEF PermitHolders

LEMMA InitIInv == Init => IInv
<1> SUFFICES ASSUME Init PROVE IInv
  OBVIOUS
<1>1. NumAgents \in Nat
  BY PoolSizeAssumption, NumTypesAssumption DEF NumAgents, AgentsPerType
<1>2. TypeOK
  BY <1>1, PoolSizeAssumption, MaxExecAssumption DEF Init, TypeOK, Agents,
                                                    Results
<1>3. OwnerHolds
  BY DEF Init, OwnerHolds
<1>4. PermitHolders = {}
  BY DEF Init, PermitHolders
<1>5. PermitAccounting
  BY <1>4, FS_EmptySet, PoolSizeAssumption DEF Init, PermitAccounting
<1> QED BY <1>2, <1>3, <1>5 DEF IInv

LEMMA NextIInv == IInv /\ [Next]_vars => IInv'
<1> SUFFICES ASSUME IInv, [Next]_vars PROVE IInv'
  OBVIOUS
<1> USE DEF IInv
<1>0. IsFiniteSet(PermitHolders) /\ Cardinality(PermitHolders) \in Nat
  BY HoldersFinite, FS_CardinalityType
<1>1. CASE \E c \in Callers : AcquirePermit(c)
  <2> PICK c \in Callers : AcquirePermit(c)
    BY <1>1
  <2>1. PermitHolders' = PermitHolders \cup {c} /\ c \notin PermitHolders
    BY DEF AcquirePermit, PermitHolders, TypeOK
  <2>2. Cardinality(PermitHolders') = Cardinality(PermitHolders) + 1
    BY <2>1, <1>0, FS_AddElement
  <2> QED BY <2>2, <1>0 DEF AcquirePermit, TypeOK, OwnerHolds, PermitAccounting
<1>2. CASE \E c \in Callers : CancelAcquire(c)
  <2> PICK c \in Callers : CancelAcquire(c)
    BY <1>2
  <2>1. PermitHolders' = PermitHolders \ {c} /\ c \in PermitHolders
    BY DEF CancelAcquire, PermitHolders, TypeOK
  <2>2. Cardinality(PermitHolders') = Cardinality(PermitHolders) - 1
    BY <2>1, <1>0, FS_RemoveElement
  <2>3. TypeOK'
    BY DEF CancelAcquire, TypeOK
  <2>4. OwnerHolds'
    BY DEF CancelAcquire, TypeOK, OwnerHolds
  <2>5. PermitAccounting'
    BY <2>2, <1>0 DEF CancelAcquire, TypeOK, PermitAccounting
  <2> QED BY <2>3, <2>4, <2>5
<1>3. CASE \E c \in Callers : AcquireTake(c)
  <2> PICK c \in Callers : AcquireTake(c)
    BY <1>3
  <2>1. Front(available) \in Seq(Agents) /\ Last(available) \in Agents
    BY FrontLast DEF AcquireTake, TypeOK
  <2>2. PermitHolders' = PermitHolders
    BY DEF AcquireTake, PermitHolders, TypeOK
  <2>3. TypeOK'
    BY <2>1 DEF AcquireTake, TypeOK, Results
  <2>4. OwnerHolds'
    BY <2>1 DEF AcquireTake, TypeOK, OwnerHolds
  <2> QED BY <2>2, <2>3, <2>4 DEF AcquireTake, PermitAccounting
<1>4. CASE \E c \in Callers : AcquireExhausted(c)
  <2> PICK c \in Callers : AcquireExhausted(c)
    BY <1>4
  <2>1. PermitHolders' = PermitHolders \ {c} /\ c \in PermitHolders
    BY DEF AcquireExhausted, PermitHolders, TypeOK
  <2>2. Cardinality(PermitHolders') = Cardinality(PermitHolders) - 1
    BY <2>1, <1>0, FS_RemoveElement
  <2>3. TypeOK'
    BY DEF AcquireExhausted, TypeOK, Results
  <2> QED BY <2>2, <2>3, <1>0 DEF AcquireExhausted, TypeOK, OwnerHolds,
                                  PermitAccounting
<1>5. CASE \E c \in Callers : Execute(c)
  <2> PICK c \in Callers : Execute(c)
    BY <1>5
  <2>1. held[c] \in Agents
    BY DEF Execute, OwnerHolds
  <2>2. execCount[held[c]] + 1 \in 0 .. MaxExec
    BY <2>1, MaxExecAssumption DEF Execute, TypeOK
  <2>3. TypeOK'
    BY <2>1, <2>2 DEF Execute, TypeOK
  <2>4. PermitHolders' = PermitHolders
    BY DEF Execute, PermitHolders
  <2> QED BY <2>3, <2>4 DEF Execute, OwnerHolds, PermitAccounting
<1>6. CASE \E c \in Callers : Release(c)
  <2> PICK c \in Callers : Release(c)
    BY <1>6
  <2>1. PermitHolders' = PermitHolders
    BY DEF Release, PermitHolders, TypeOK
  <2> QED BY <2>1 DEF Release, TypeOK, OwnerHolds, PermitAccounting
<1>7. CASE \E c \in Callers : ResetOk(c)
  <2> PICK c \in Callers : ResetOk(c)
    BY <1>7
  <2>1. held[c] \in Agents
    BY DEF ResetOk, OwnerHolds
  <2>2. PermitHolders' = PermitHolders \ {c} /\ c \in PermitHolders
    BY DEF ResetOk, PermitHolders, TypeOK
  <2>3. Cardinality(PermitHolders') = Cardinality(PermitHolders) - 1
    BY <2>2, <1>0, FS_RemoveElement
  <2>4. TypeOK'
    BY <2>1 DEF ResetOk, TypeOK, Results
  <2>5. OwnerHolds'
    BY DEF ResetOk, TypeOK, OwnerHolds
  <2> QED BY <2>3, <2>4, <2>5, <1>0 DEF ResetOk, TypeOK, PermitAccounting
<1>8. CASE \E c \in Callers : ResetFail(c)
  <2> PICK c \in Callers : ResetFail(c)
    BY <1>8
  <2>1. held[c] \in Agents
    BY DEF ResetFail, OwnerHolds
  <2>2. PermitHolders' = PermitHolders \ {c} /\ c \in PermitHolders
    BY DEF ResetFail, PermitHolders, TypeOK
  <2>3. Cardinality(PermitHolders') = Cardinality(PermitHolders) - 1
    BY <2>2, <1>0, FS_RemoveElement
  <2>4. TypeOK'
    BY <2>1 DEF ResetFail, TypeOK, Results
  <2>5. OwnerHolds'
    BY DEF ResetFail, TypeOK, OwnerHolds
  <2> QED BY <2>3, <2>4, <2>5, <1>0 DEF ResetFail, TypeOK, PermitAccounting
<1>9. CASE UNCHANGED vars
  BY <1>9 DEF vars, TypeOK, OwnerHolds, PermitAccounting, PermitHolders
<1> QED BY <1>1, <1>2, <1>3, <1>4, <1>5, <1>6, <1>7, <1>8, <1>9 DEF Next

(* Type correctness of the pool: the Vec holds only spawned agents, the    *)
(* semaphore count never goes negative, execution counts stay in range.    *)
THEOREM TypeCorrect == Spec => []TypeOK
<1>1. IInv => TypeOK
  BY DEF IInv
<1> QED BY <1>1, InitIInv, NextIInv, PTL DEF Spec

(* Semaphore conservation for every pool size and set of callers: permits  *)
(* in the semaphore plus callers inside acquire/borrow/release always      *)
(* equal pool_size, through cancellations, exhaustion and failed resets.   *)
THEOREM PermitsConserved == Spec => []PermitAccounting
<1>1. IInv => PermitAccounting
  BY DEF IInv
<1> QED BY <1>1, InitIInv, NextIInv, PTL DEF Spec

-----------------------------------------------------------------------------
(***************************************************************************)
(* Exclusive ownership.  The invariant is inductive together with IInv:    *)
(* AcquireTake pops the last agent of a Vec without duplicates, so it is   *)
(* in no other place; ResetOk pushes an agent that only its resetting      *)
(* caller holds, so the Vec stays without duplicates.                      *)
(***************************************************************************)

OwnInv == IInv /\ ExclusiveOwnership

(* No agent id is NoAgent.                                                  *)
LEMMA NoAgentNotAgent == NoAgent \notin Agents
BY DEF NoAgent, Agents

LEMMA InitOwn == Init => ExclusiveOwnership
<1> SUFFICES ASSUME Init PROVE ExclusiveOwnership
  OBVIOUS
<1>0. NumAgents \in Nat
  BY PoolSizeAssumption, NumTypesAssumption DEF NumAgents, AgentsPerType
<1>1. ToSet(available) = Agents
  BY <1>0 DEF Init, ToSet, Agents
<1>2. \A i, j \in DOMAIN available : i # j => available[i] # available[j]
  BY <1>0 DEF Init
<1>3. \A c \in Callers : held[c] = NoAgent /\ pc[c] = Idle
  BY DEF Init
<1>4. retired = {}
  BY DEF Init
<1> QED BY <1>1, <1>2, <1>3, <1>4, NoAgentNotAgent DEF ExclusiveOwnership

LEMMA NextOwn == IInv /\ ExclusiveOwnership /\ [Next]_vars => ExclusiveOwnership'
<1> SUFFICES ASSUME IInv, ExclusiveOwnership, [Next]_vars
             PROVE  ExclusiveOwnership'
  OBVIOUS
<1> USE NoAgentNotAgent DEF IInv, TypeOK
<1>0. Distinct(available)
  BY DEF ExclusiveOwnership, Distinct
<1>1. CASE \E c \in Callers : AcquirePermit(c) \/ CancelAcquire(c) \/ Release(c)
                                \/ Execute(c)
  <2> PICK c \in Callers : AcquirePermit(c) \/ CancelAcquire(c) \/ Release(c)
                             \/ Execute(c)
    BY <1>1
  <2> QED BY DEF AcquirePermit, CancelAcquire, Release, Execute,
                 ExclusiveOwnership
<1>2. CASE \E c \in Callers : AcquireTake(c)
  <2> PICK c \in Callers : AcquireTake(c)
    BY <1>2
  <2> DEFINE x == Last(available)
  <2>1. held[c] = NoAgent
    BY DEF AcquireTake, ExclusiveOwnership
  <2>2. x \in ToSet(available) /\ x \in Agents
    BY DEF AcquireTake, Last, ToSet
  <2>3. \A d \in Callers : held[d] # x /\ x \notin retired
    BY <2>2 DEF ExclusiveOwnership
  <2>4. Distinct(available') /\ ToSet(available') = ToSet(available) \ {x}
    BY <1>0, PopLastDistinct DEF AcquireTake
  <2>5. held' = [held EXCEPT ![c] = x] /\ UNCHANGED retired
        /\ pc' = [pc EXCEPT ![c] = Holding]
    BY DEF AcquireTake
  <2> QED BY <2>1, <2>2, <2>3, <2>4, <2>5 DEF ExclusiveOwnership, Distinct
<1>3. CASE \E c \in Callers : AcquireExhausted(c)
  <2> PICK c \in Callers : AcquireExhausted(c)
    BY <1>3
  <2> QED BY DEF AcquireExhausted, ExclusiveOwnership
<1>4. CASE \E c \in Callers : ResetOk(c)
  <2> PICK c \in Callers : ResetOk(c)
    BY <1>4
  <2> DEFINE x == held[c]
  <2>1. x \in Agents /\ x \notin ToSet(available) /\ x \notin retired
        /\ \A d \in Callers : d # c => held[d] # x
    BY DEF ResetOk, ExclusiveOwnership
  <2>2. Distinct(available') /\ ToSet(available') = ToSet(available) \cup {x}
    BY <2>1, <1>0, PushDistinct DEF ResetOk
  <2>3. held' = [held EXCEPT ![c] = NoAgent] /\ UNCHANGED retired
        /\ pc' = [pc EXCEPT ![c] = Idle]
    BY DEF ResetOk
  <2> QED BY <2>1, <2>2, <2>3 DEF ExclusiveOwnership, Distinct
<1>5. CASE \E c \in Callers : ResetFail(c)
  <2> PICK c \in Callers : ResetFail(c)
    BY <1>5
  <2> DEFINE x == held[c]
  <2>1. x \in Agents /\ x \notin ToSet(available) /\ x \notin retired
        /\ \A d \in Callers : d # c => held[d] # x
    BY DEF ResetFail, ExclusiveOwnership
  <2>2. held' = [held EXCEPT ![c] = NoAgent] /\ retired' = retired \cup {x}
        /\ pc' = [pc EXCEPT ![c] = Idle] /\ UNCHANGED available
    BY DEF ResetFail
  <2> QED BY <2>1, <2>2 DEF ExclusiveOwnership
<1>6. CASE UNCHANGED vars
  BY <1>6 DEF vars, ExclusiveOwnership
<1> QED BY <1>1, <1>2, <1>3, <1>4, <1>5, <1>6 DEF Next

(* Exclusive ownership for every pool size and set of callers: no agent is *)
(* twice in the Vec, held by two callers, or both idle and borrowed or     *)
(* retired, whatever acquire, cancellation and failed resets interleave.   *)
THEOREM OwnershipExclusive == Spec => []ExclusiveOwnership
<1>1. Init => OwnInv
  BY InitIInv, InitOwn DEF OwnInv
<1>2. OwnInv /\ [Next]_vars => OwnInv'
  BY NextIInv, NextOwn DEF OwnInv
<1>3. OwnInv => ExclusiveOwnership
  BY DEF OwnInv
<1> QED BY <1>1, <1>2, <1>3, PTL DEF Spec

(* The step form of ResetBeforeReuse.                                      *)
ReuseStep ==
  \A a \in Agents :
     a \notin ToSet(available) /\ a \in ToSet(available') =>
       \E c \in Callers : pc[c] = Resetting /\ held[c] = a /\ pc'[c] = Idle
                          /\ result'[c] = "Ok"

LEMMA NextReuse == OwnInv /\ [Next]_vars => [ReuseStep]_vars
<1> SUFFICES ASSUME OwnInv, [Next]_vars PROVE [ReuseStep]_vars
  OBVIOUS
<1> USE DEF OwnInv, IInv, TypeOK
<1>1. CASE \E c \in Callers : AcquireTake(c)
  <2> PICK c \in Callers : AcquireTake(c)
    BY <1>1
  <2>1. Distinct(available)
    BY DEF ExclusiveOwnership, Distinct
  <2>2. ToSet(available') \subseteq ToSet(available)
    BY <2>1, PopLastDistinct DEF AcquireTake
  <2> QED BY <2>2 DEF ReuseStep
<1>2. CASE \E c \in Callers : ResetOk(c)
  <2> PICK c \in Callers : ResetOk(c)
    BY <1>2
  <2>1. held[c] \in Agents
    BY DEF ResetOk, OwnerHolds
  <2>2. ToSet(available') = ToSet(available) \cup {held[c]}
    BY <2>1, PushDistinct DEF ResetOk
  <2> QED BY <2>2 DEF ResetOk, ReuseStep
<1>3. CASE ~\E c \in Callers : AcquireTake(c) \/ ResetOk(c)
  <2>1. UNCHANGED available
    BY <1>3 DEF Next, vars, AcquirePermit, CancelAcquire, AcquireExhausted,
                Execute, Release, ResetFail
  <2> QED BY <2>1 DEF ReuseStep
<1> QED BY <1>1, <1>2, <1>3

(* For every pool size and set of callers, an agent enters the available   *)
(* Vec only through a successful reset by the caller that owned it: a     *)
(* failed reset (release() drops the agent) never hands it out again.      *)
THEOREM AgentsResetBeforeReuse == Spec => ResetBeforeReuse
<1>1. Init => OwnInv
  BY InitIInv, InitOwn DEF OwnInv
<1>2. OwnInv /\ [Next]_vars => OwnInv'
  BY NextIInv, NextOwn DEF OwnInv
<1>3. [][ReuseStep]_vars <=> ResetBeforeReuse
  BY DEF ReuseStep, ResetBeforeReuse
<1> QED BY <1>1, <1>2, <1>3, NextReuse, PTL DEF Spec

-----------------------------------------------------------------------------
(***************************************************************************)
(* When the pool can be exhausted.  Besides the permits, the agents are    *)
(* conserved: each spawned agent is in the Vec, owned by a caller that is *)
(* borrowing or resetting it, or retired.  Together with PermitAccounting *)
(* this bounds the empty-Vec case: a waiting permit holder outnumbers the  *)
(* agents only if fewer agents than permits were spawned or one retired.  *)
(***************************************************************************)

(* The callers that own an agent.                                          *)
Owners == {c \in Callers : pc[c] \in {Holding, Resetting}}

AgentAccounting ==
  Len(available) + Cardinality(Owners) + Cardinality(retired) = NumAgents

LEMMA OwnersFinite == IsFiniteSet(Owners) /\ Cardinality(Owners) \in Nat
BY CallersAssumption, FS_Subset, FS_CardinalityType DEF Owners

LEMMA AgentsFinite == IsFiniteSet(Agents) /\ NumAgents \in Nat
<1>1. NumAgents \in Nat
  BY PoolSizeAssumption, NumTypesAssumption DEF NumAgents, AgentsPerType
<1> QED BY <1>1, FS_Interval DEF Agents

LEMMA InitAccounting == Init => AgentAccounting
<1> SUFFICES ASSUME Init PROVE AgentAccounting
  OBVIOUS
<1>1. Owners = {} /\ retired = {}
  BY DEF Init, Owners
<1>2. Len(available) = NumAgents
  BY AgentsFinite DEF Init
<1> QED BY <1>1, <1>2, FS_EmptySet DEF AgentAccounting

LEMMA NextAccounting ==
  OwnInv /\ AgentAccounting /\ [Next]_vars => AgentAccounting'
<1> SUFFICES ASSUME OwnInv, AgentAccounting, [Next]_vars
             PROVE  AgentAccounting'
  OBVIOUS
<1> USE DEF OwnInv, IInv, TypeOK
<1>0. /\ IsFiniteSet(Owners) /\ Cardinality(Owners) \in Nat
      /\ IsFiniteSet(retired) /\ Cardinality(retired) \in Nat
  BY OwnersFinite, AgentsFinite, FS_Subset, FS_CardinalityType
<1>1. CASE \E c \in Callers : AcquirePermit(c) \/ CancelAcquire(c)
                                \/ AcquireExhausted(c) \/ Execute(c) \/ Release(c)
  <2>1. Owners' = Owners /\ UNCHANGED <<available, retired>>
    BY <1>1 DEF AcquirePermit, CancelAcquire, AcquireExhausted, Execute,
                Release, Owners
  <2> QED BY <2>1 DEF AgentAccounting
<1>2. CASE \E c \in Callers : AcquireTake(c)
  <2> PICK c \in Callers : AcquireTake(c)
    BY <1>2
  <2>1. Owners' = Owners \cup {c} /\ c \notin Owners
    BY DEF AcquireTake, Owners
  <2>2. Cardinality(Owners') = Cardinality(Owners) + 1
    BY <2>1, <1>0, FS_AddElement
  <2>3. Len(available') = Len(available) - 1 /\ Len(available) \in Nat \ {0}
    BY FrontLast DEF AcquireTake
  <2> QED BY <2>2, <2>3, <1>0 DEF AcquireTake, AgentAccounting
<1>3. CASE \E c \in Callers : ResetOk(c)
  <2> PICK c \in Callers : ResetOk(c)
    BY <1>3
  <2>1. Owners' = Owners \ {c} /\ c \in Owners
    BY DEF ResetOk, Owners
  <2>2. Cardinality(Owners') = Cardinality(Owners) - 1
    BY <2>1, <1>0, FS_RemoveElement
  <2>3. Len(available') = Len(available) + 1
    BY DEF ResetOk, OwnerHolds
  <2> QED BY <2>2, <2>3, <1>0 DEF ResetOk, AgentAccounting
<1>4. CASE \E c \in Callers : ResetFail(c)
  <2> PICK c \in Callers : ResetFail(c)
    BY <1>4
  <2>1. Owners' = Owners \ {c} /\ c \in Owners
    BY DEF ResetFail, Owners
  <2>2. Cardinality(Owners') = Cardinality(Owners) - 1
    BY <2>1, <1>0, FS_RemoveElement
  <2>3. held[c] \notin retired
    BY NoAgentNotAgent DEF ResetFail, ExclusiveOwnership
  <2>4. Cardinality(retired') = Cardinality(retired) + 1
    BY <2>3, <1>0, FS_AddElement DEF ResetFail
  <2> QED BY <2>2, <2>4, <1>0 DEF ResetFail, AgentAccounting
<1>5. CASE UNCHANGED vars
  BY <1>5 DEF vars, AgentAccounting, Owners
<1> QED BY <1>1, <1>2, <1>3, <1>4, <1>5 DEF Next

(* The counting argument: an Acquiring caller holds a permit but no agent, *)
(* so with the Vec empty the permits exceed the agents still in play.      *)
LEMMA AccountingBoundsExhaustion ==
  OwnInv /\ AgentAccounting => ExhaustedOnlyAfterLoss
<1> SUFFICES ASSUME OwnInv, AgentAccounting, NEW c \in Callers,
                    pc[c] = Acquiring, available = <<>>, retired = {}
             PROVE  NumAgents < PoolSize
  BY DEF ExhaustedOnlyAfterLoss
<1> USE DEF OwnInv, IInv, TypeOK
<1>1. IsFiniteSet(PermitHolders) /\ Cardinality(PermitHolders) \in Nat
  BY HoldersFinite, FS_CardinalityType
<1>2. Owners \subseteq PermitHolders \ {c} /\ c \in PermitHolders
  BY DEF Owners, PermitHolders
<1>3. Cardinality(PermitHolders \ {c}) = Cardinality(PermitHolders) - 1
  BY <1>1, <1>2, FS_RemoveElement
<1>4. Cardinality(Owners) <= Cardinality(PermitHolders) - 1
  BY <1>1, <1>2, <1>3, FS_RemoveElement, FS_Subset
<1>5. NumAgents = Cardinality(Owners)
  BY OwnersFinite, FS_EmptySet DEF AgentAccounting
<1> QED BY <1>1, <1>4, <1>5, OwnersFinite DEF PermitAccounting

(* For every pool size, number of types and set of callers, acquire()      *)
(* returns PoolExhausted ("shouldn't happen due to semaphore") only when   *)
(* pool_size is not a multiple of the number of types or a failed reset    *)
(* has dropped an agent while returning its permit.                        *)
THEOREM ExhaustionNeedsLoss == Spec => []ExhaustedOnlyAfterLoss
<1>1. Init => OwnInv /\ AgentAccounting
  BY InitIInv, InitOwn, InitAccounting DEF OwnInv
<1>2. OwnInv /\ AgentAccounting /\ [Next]_vars => (OwnInv /\ AgentAccounting)'
  BY NextIInv, NextOwn, NextAccounting DEF OwnInv
<1> QED BY <1>1, <1>2, AccountingBoundsExhaustion, PTL DEF Spec

=============================================================================
