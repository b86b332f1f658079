------------------------------ MODULE AgentPool ------------------------------
(***************************************************************************)
(* The agent pool of runtime/agent_pool.rs: a Vec of idle PooledAgents     *)
(* behind a mutex, and a tokio Semaphore whose permits gate acquire().     *)
(*                                                                         *)
(* Each caller is a task that calls acquire(), may execute() on the agent  *)
(* it got, and hands it back with release().  The await points of the code *)
(* split the operations into steps:                                        *)
(*   acquire():  semaphore.acquire().await   -> AcquirePermit              *)
(*               available.lock().await; pop -> AcquireTake / Exhausted    *)
(*   release():  agent.reset().await          -> Release, then             *)
(*               the outcome of reset          -> ResetOk / ResetFail      *)
(* A caller may drop the acquire() future after it got the permit and      *)
(* before it got the mutex (CancelAcquire); the SemaphorePermit guard is   *)
(* then dropped and the permit returns to the semaphore.                   *)
(***************************************************************************)
EXTENDS Naturals, FiniteSets, SequencesExt

CONSTANTS
  PoolSize,   \* AgentPoolConfig.pool_size: the semaphore's initial permits
  NumTypes,   \* supported_types.len(): the pool is split evenly over them
  Callers,    \* the tasks that borrow agents
  MaxExec     \* bound on PooledAgent.execution_count (model bound)

ASSUME PoolSizeAssumption == PoolSize \in Nat
ASSUME NumTypesAssumption == NumTypes \in Nat \ {0}
ASSUME MaxExecAssumption  == MaxExec \in Nat
ASSUME CallersAssumption  == IsFiniteSet(Callers)

(* initialize_pool spawns pool_size / supported_types.len() agents per     *)
(* type, numbering them 1, 2, ... from the total_agents counter.           *)
AgentsPerType == PoolSize \div NumTypes
NumAgents == AgentsPerType * NumTypes
Agents == 1 .. NumAgents

NoAgent == 0

(* Where a caller is in the acquire/borrow/release protocol.               *)
Idle      == "idle"       \* not inside the pool's API, holds nothing
Acquiring == "acquiring"  \* holds a permit, waits for the available mutex
Holding   == "holding"    \* owns a PooledAgent (permit forgotten)
Resetting == "resetting"  \* inside release(), agent.reset() under way

(* What the caller's last call returned.                                   *)
Results == {"none", "Ok", "PoolExhausted", "ResetFailed"}

VARIABLES
  available,  \* the Vec<PooledAgent> of idle agents, by agent id (push/pop at the end)
  permits,    \* the semaphore's available permits
  pc,         \* pc[c]: the caller's place in the protocol
  held,       \* held[c]: the agent the caller owns, or NoAgent
  retired,    \* agents dropped by release() after a failed reset
  execCount,  \* execCount[a]: PooledAgent.execution_count
  result      \* result[c]: outcome of the caller's last acquire/release

vars == <<available, permits, pc, held, retired, execCount, result>>

-----------------------------------------------------------------------------

TypeOK ==
  /\ available \in Seq(Agents)
  /\ permits \in Nat
  /\ pc \in [Callers -> {Idle, Acquiring, Holding, Resetting}]
  /\ held \in [Callers -> Agents \cup {NoAgent}]
  /\ retired \in SUBSET Agents
  /\ execCount \in [Agents -> 0 .. MaxExec]
  /\ result \in [Callers -> Results]

(* AgentPool::with_config and initialize_pool: the semaphore starts with   *)
(* pool_size permits and the agents are pushed in id order.                *)
Init ==
  /\ available = [i \in 1 .. NumAgents |-> i]
  /\ permits = PoolSize
  /\ pc = [c \in Callers |-> Idle]
  /\ held = [c \in Callers |-> NoAgent]
  /\ retired = {}
  /\ execCount = [a \in Agents |-> 0]
  /\ result = [c \in Callers |-> "none"]

(* Mutant: the permit is taken without waiting for one to be available.  *)
AcquirePermitNoWait(c) ==
  /\ pc[c] = Idle
  /\ permits' = permits - 1
  /\ pc' = [pc EXCEPT ![c] = Acquiring]
  /\ UNCHANGED <<available, held, retired, execCount, result>>

(* acquire(): semaphore.acquire().await completes with a permit.           *)
AcquirePermit(c) ==
  /\ pc[c] = Idle
  /\ permits > 0
  /\ permits' = permits - 1
  /\ pc' = [pc EXCEPT ![c] = Acquiring]
  /\ UNCHANGED <<available, held, retired, execCount, result>>

(* The acquire() future is dropped while it waits for the mutex: the       *)
(* permit guard is dropped and gives its permit back.                      *)
CancelAcquire(c) ==
  /\ pc[c] = Acquiring
  /\ permits' = permits + 1
  /\ pc' = [pc EXCEPT ![c] = Idle]
  /\ UNCHANGED <<available, held, retired, execCount, result>>

(* acquire(): the mutex is taken and available.pop() returns an agent;     *)
(* permit.forget() keeps the permit consumed for the borrowing period.     *)
AcquireTake(c) ==
  /\ pc[c] = Acquiring
  /\ available # <<>>
  /\ held' = [held EXCEPT ![c] = Last(available)]
  /\ available' = Front(available)
  /\ pc' = [pc EXCEPT ![c] = Holding]
  /\ result' = [result EXCEPT ![c] = "Ok"]
  /\ UNCHANGED <<permits, retired, execCount>>

(* acquire(): available.pop() returns None; the function returns           *)
(* Err(PoolExhausted) and the permit guard, not forgotten, is dropped.     *)
AcquireExhausted(c) ==
  /\ pc[c] = Acquiring
  /\ available = <<>>
  /\ permits' = permits + 1
  /\ pc' = [pc EXCEPT ![c] = Idle]
  /\ result' = [result EXCEPT ![c] = "PoolExhausted"]
  /\ UNCHANGED <<available, held, retired, execCount>>

(* PooledAgent::execute: execution_count += 1 before running the code.     *)
Execute(c) ==
  /\ pc[c] = Holding
  /\ execCount[held[c]] < MaxExec
  /\ execCount' = [execCount EXCEPT ![held[c]] = @ + 1]
  /\ UNCHANGED <<available, permits, pc, held, retired, result>>

(* release(): the caller hands the agent in and agent.reset() starts.      *)
Release(c) ==
  /\ pc[c] = Holding
  /\ pc' = [pc EXCEPT ![c] = Resetting]
  /\ UNCHANGED <<available, permits, held, retired, execCount, result>>

(* Mutant: the agent goes back to the Vec but the caller's handle is not   *)
(* given up.                                                               *)
ResetOkKeepHandle(c) ==
  /\ pc[c] = Resetting
  /\ available' = Append(available, held[c])
  /\ permits' = permits + 1
  /\ pc' = [pc EXCEPT ![c] = Idle]
  /\ result' = [result EXCEPT ![c] = "Ok"]
  /\ UNCHANGED <<held, retired, execCount>>

(* Mutant: a successful reset returns the permit but never pushes the      *)
(* agent back onto the Vec.                                                *)
ResetOkLoseAgent(c) ==
  /\ pc[c] = Resetting
  /\ permits' = permits + 1
  /\ pc' = [pc EXCEPT ![c] = Idle]
  /\ held' = [held EXCEPT ![c] = NoAgent]
  /\ result' = [result EXCEPT ![c] = "Ok"]
  /\ UNCHANGED <<available, retired, execCount>>

(* release(): reset succeeded; the agent is pushed back under the mutex    *)
(* and one permit is added.                                                *)
ResetOk(c) ==
  /\ pc[c] = Resetting
  /\ available' = Append(available, held[c])
  /\ permits' = permits + 1
  /\ pc' = [pc EXCEPT ![c] = Idle]
  /\ held' = [held EXCEPT ![c] = NoAgent]
  /\ result' = [result EXCEPT ![c] = "Ok"]
  /\ UNCHANGED <<retired, execCount>>

(* Mutant: a failed reset does not return the permit.                     *)
ResetFailNoPermit(c) ==
  /\ pc[c] = Resetting
  /\ retired' = retired \cup {held[c]}
  /\ pc' = [pc EXCEPT ![c] = Idle]
  /\ held' = [held EXCEPT ![c] = NoAgent]
  /\ result' = [result EXCEPT ![c] = "ResetFailed"]
  /\ UNCHANGED <<available, permits, execCount>>

(* Mutant: the agent whose reset failed is returned to the Vec anyway.     *)
ResetFailReturnAgent(c) ==
  /\ pc[c] = Resetting
  /\ available' = Append(available, held[c])
  /\ permits' = permits + 1
  /\ pc' = [pc EXCEPT ![c] = Idle]
  /\ held' = [held EXCEPT ![c] = NoAgent]
  /\ result' = [result EXCEPT ![c] = "ResetFailed"]
  /\ UNCHANGED <<retired, execCount>>

(* release(): reset failed; the agent is dropped, not returned, but        *)
(* semaphore.add_permits(1) is still called before returning the error.    *)
ResetFail(c) ==
  /\ pc[c] = Resetting
  /\ retired' = retired \cup {held[c]}
  /\ permits' = permits + 1
  /\ pc' = [pc EXCEPT ![c] = Idle]
  /\ held' = [held EXCEPT ![c] = NoAgent]
  /\ result' = [result EXCEPT ![c] = "ResetFailed"]
  /\ UNCHANGED <<available, execCount>>

Next ==
  \E c \in Callers :
    \/ AcquirePermit(c)
    \/ CancelAcquire(c)
    \/ AcquireTake(c)
    \/ AcquireExhausted(c)
    \/ Execute(c)
    \/ Release(c)
    \/ ResetOk(c)
    \/ ResetFail(c)

Spec == Init /\ [][Next]_vars

-----------------------------------------------------------------------------
(* Properties                                                              *)

(* The callers that hold a permit of the semaphore.                        *)
PermitHolders == {c \in Callers : pc[c] # Idle}

(* Semaphore conservation (spec 4.9, "the number of permits held by        *)
(* callers equals the number of busy agents" as far as permits go): every  *)
(* permit is either in the semaphore or held by exactly one caller that is *)
(* inside acquire, borrowing, or inside release.  Breaks if a path of      *)
(* acquire or release forgets to return, or returns twice, a permit.       *)
PermitAccounting ==
  permits + Cardinality(PermitHolders) = PoolSize

(* Exclusive ownership (spec I4 and 9): every spawned agent is in exactly  *)
(* one of: the available Vec (once), owned by exactly one caller (held or  *)
(* under reset), or retired.                                               *)
ExclusiveOwnership ==
  /\ \A i, j \in DOMAIN available : i # j => available[i] # available[j]
  /\ \A c, d \in Callers : held[c] = held[d] /\ held[c] # NoAgent => c = d
  /\ \A c \in Callers : (held[c] # NoAgent) <=> (pc[c] \in {Holding, Resetting})
  /\ \A a \in Agents :
       \/ /\ a \in ToSet(available)
          /\ a \notin retired /\ \A c \in Callers : held[c] # a
       \/ /\ a \in retired
          /\ a \notin ToSet(available) /\ \A c \in Callers : held[c] # a
       \/ /\ \E c \in Callers : held[c] = a
          /\ a \notin ToSet(available) /\ a \notin retired

(* An agent enters the available Vec only as the result of a successful    *)
(* reset by the caller that owned it (release(): "Don't return agent to    *)
(* pool if reset failed"): no agent is handed out again without a reset.   *)
ResetBeforeReuse ==
  [][\A a \in Agents :
       a \notin ToSet(available) /\ a \in ToSet(available') =>
         \E c \in Callers : pc[c] = Resetting /\ held[c] = a /\ pc'[c] = Idle
                            /\ result'[c] = "Ok"]_vars

(* The comment in acquire(): "Pool exhausted (shouldn't happen due to      *)
(* semaphore)": a caller that got a permit always finds an agent.          *)
NoPoolExhausted ==
  \A c \in Callers : result[c] # "PoolExhausted"

(* When exhaustion can happen at all: a caller that holds a permit finds  *)
(* the Vec empty only if initialize_pool spawned fewer agents than the     *)
(* semaphore has permits (pool_size not a multiple of the number of types) *)
(* or an agent was dropped by a failed reset, which still returns its     *)
(* permit.  Every other interleaving of acquire, cancel and release keeps *)
(* an agent in the Vec for each waiting permit holder.                     *)
ExhaustedOnlyAfterLoss ==
  \A c \in Callers :
    pc[c] = Acquiring /\ available = <<>> =>
      NumAgents < PoolSize \/ retired # {}

=============================================================================
