---------------------------- MODULE SandboxProofs ----------------------------
(***************************************************************************)
(* Proofs about the sandbox of runtime/sandbox.rs and the limits of        *)
(* runtime/resource_limiter.rs, for every config and every set of pids:   *)
(*   - limits that pass ResourceLimits::validate reach the cgroup knobs   *)
(*     exactly: no u64 product in apply_memory_limit or aggregate_limits   *)
(*     overflows, so release and debug builds agree;                       *)
(*   - Sandbox::new does not validate, and accepts a config whose memory  *)
(*     limit wraps to 0 bytes in a release build (and panics in a debug   *)
(*     build);                                                             *)
(*   - every cgroup holds at most its own child, and only while it runs.  *)
(***************************************************************************)
EXTENDS Sandbox, TLAPS

(* What the proofs need of the constants: the markers for a panic and an  *)
(* unwritten knob are not numbers, and the config has the field widths   *)
(* of SandboxConfig.                                                       *)
SandboxAssumption ==
    /\ U32 = 4294967296
    /\ U64 = 18446744073709551616
    /\ Overflow \notin Nat
    /\ Unset \notin Nat
    /\ Config \in SandboxConfigs

(* A bound on the agent count well above any pool: 2^40.                 *)
ManyAgents == 1099511627776

(* The u64 products of a memory limit that passes validate: megabytes    *)
(* to bytes in apply_memory_limit, and the aggregate over any number of   *)
(* agents up to ManyAgents, fit in 64 bits.                                *)
LEMMA ValidMemoryFits ==
  ASSUME SandboxAssumption, NEW m \in Nat, 64 <= m, m <= 16384
  PROVE  /\ m * 1024 < U64
         /\ (m * 1024) * 1024 < U64
         /\ \A n \in Nat : n <= ManyAgents => m * n < U64
<1>1. m * 1024 < U64 /\ (m * 1024) * 1024 < U64
  BY SMT DEF SandboxAssumption
<1>2. \A n \in Nat : n <= ManyAgents => m * n < U64
  <2> SUFFICES ASSUME NEW n \in Nat, n <= ManyAgents PROVE m * n < U64
    OBVIOUS
  <2>1. m * n <= 16384 * n
    BY SMT
  <2>2. 16384 * n <= 18014398509481984
    BY SMT DEF ManyAgents
  <2> QED BY <2>1, <2>2, SMT DEF SandboxAssumption
<1> QED BY <1>1, <1>2

(* THEOREM: a sandbox whose limits pass ResourceLimits::validate writes   *)
(* exactly its limits into the cgroup knobs: quota percent q becomes q *  *)
(* 1000 us of every 100000 us period (1 ms to 400 ms), and m megabytes     *)
(* become m * 2^20 bytes, with no u64 overflow in apply_memory_limit.      *)
THEOREM ValidLimitsReachKnobs ==
  ASSUME SandboxAssumption,
         NEW c \in SandboxConfigs, Validate(SandboxLimits(c))
  PROVE  /\ \A q \in SandboxLimits(c).cpu_quota :
              QuotaValue(q) = q * 1000 /\ 1000 <= QuotaValue(q)
              /\ QuotaValue(q) <= 400000
         /\ \A m \in SandboxLimits(c).memory_limit_mb :
              LimitBytes(m) = {m * 1048576}
<1>1. ASSUME NEW q \in SandboxLimits(c).cpu_quota
      PROVE  QuotaValue(q) = q * 1000 /\ 1000 <= QuotaValue(q)
             /\ QuotaValue(q) <= 400000
  <2>1. q \in Nat /\ q # 0 /\ q <= 400
    BY SMT DEF Validate, SandboxLimits, SandboxConfigs, UInt32
  <2> QED BY <2>1, SMT DEF QuotaValue
<1>2. ASSUME NEW m \in SandboxLimits(c).memory_limit_mb
      PROVE  LimitBytes(m) = {m * 1048576}
  <2>1. m \in Nat /\ 64 <= m /\ m <= 16384
    BY SMT DEF Validate, SandboxLimits, SandboxConfigs, UInt64
  <2>2. MulU64(m, 1024) = {m * 1024}
    BY <2>1, ValidMemoryFits, SMT DEF MulU64, SandboxAssumption
  <2>3. MulU64(m * 1024, 1024) = {m * 1048576}
    BY <2>1, ValidMemoryFits, SMT DEF MulU64, SandboxAssumption
  <2>4. m * 1024 \in Nat /\ Overflow \notin Nat
    BY <2>1, SMT DEF SandboxAssumption
  <2>5. {m * 1024} \ {Overflow} = {m * 1024} /\ {m * 1024} \cap {Overflow} = {}
    BY <2>4
  <2> QED BY <2>2, <2>3, <2>5 DEF LimitBytes
<1> QED BY <1>1, <1>2, SMT

(* The memory limits from 2^44 MB up to 2^54 MB: u64 values a config may *)
(* hold, for which megabytes times 1024 still fits and times 1024 again   *)
(* does not.                                                               *)
WrapLow == 17592186044416
WrapHigh == 18014398509481984

(* THEOREM: Sandbox::new does not validate.  It accepts every config with *)
(* a memory limit from 2^44 MB up to 2^54 MB, although                     *)
(* ResourceLimits::validate rejects each of them, and for each             *)
(* apply_memory_limit's limit_bytes overflows u64: a release build writes *)
(* a wrapped value, smaller than the limit asked for (0 for 2^44 MB), to  *)
(* memory.limit_in_bytes, and a debug build panics in spawn after the      *)
(* child is already running.                                               *)
THEOREM SandboxAcceptsWrappingLimit ==
  ASSUME SandboxAssumption,
         NEW m \in Nat, WrapLow <= m, m < WrapHigh
  PROVE  LET c == [limit_cpu |-> TRUE, cpu_quota |-> 50,
                   limit_memory |-> TRUE, memory_limit_mb |-> m]
         IN  /\ c \in SandboxConfigs
             /\ ~Validate(SandboxLimits(c))
             /\ LimitBytes(m) = {((m * 1024) * 1024) % U64, Overflow}
             /\ ((m * 1024) * 1024) % U64 < (m * 1024) * 1024
<1> DEFINE c == [limit_cpu |-> TRUE, cpu_quota |-> 50,
                 limit_memory |-> TRUE, memory_limit_mb |-> m]
<1> DEFINE k == m * 1024
<1>0. U64 = 18446744073709551616 /\ U32 = 4294967296
  BY DEF SandboxAssumption
<1>1. c \in SandboxConfigs
  <2>1. 50 \in UInt32 /\ m \in UInt64
    BY <1>0, SMT DEF UInt32, UInt64, WrapHigh
  <2> QED BY <2>1, Zenon DEF SandboxConfigs
<1>2. ~Validate(SandboxLimits(c))
  <2>1. 16384 < m
    BY SMT DEF WrapLow
  <2> QED BY <2>1, SMT DEF Validate, SandboxLimits
<1>3. /\ k \in Nat /\ k < U64 /\ ~(k * 1024 < U64)
      /\ (k * 1024) % U64 < k * 1024
  BY <1>0, SMT DEF WrapLow, WrapHigh
<1>4. MulU64(m, 1024) = {k}
  BY <1>3 DEF MulU64
<1>5. MulU64(k, 1024) = {(k * 1024) % U64, Overflow}
  BY <1>3 DEF MulU64
<1>6. LimitBytes(m) = {(k * 1024) % U64, Overflow}
  <2>1. {k} \ {Overflow} = {k} /\ {k} \cap {Overflow} = {}
    BY <1>3 DEF SandboxAssumption
  <2> QED BY <1>4, <1>5, <2>1 DEF LimitBytes
<1> QED BY <1>1, <1>2, <1>3, <1>6

IInv == TypeOK /\ GroupsHoldOwnChild

(* Every value the limit computations of this sandbox can yield is a      *)
(* number or the debug-build panic.                                        *)
LEMMA WantedValues ==
  ASSUME SandboxAssumption, NEW c \in Controllers
  PROVE  Wanted(c) \subseteq Nat \cup {Overflow}
<1>1. \A a, b \in Nat : MulU64(a, b) \subseteq Nat \cup {Overflow}
  <2> TAKE a, b \in Nat
  <2>1. (a * b) % U64 \in Nat /\ a * b \in Nat
    BY SMT DEF SandboxAssumption
  <2> QED BY <2>1 DEF MulU64
<1>2. Config.cpu_quota \in Nat /\ Config.memory_limit_mb \in Nat
  BY DEF SandboxAssumption, SandboxConfigs, UInt32, UInt64
<1>3. \A q \in SandboxLimits(Config).cpu_quota : QuotaValue(q) \in Nat
  BY <1>2, SMT DEF SandboxLimits, QuotaValue
<1>4. \A m \in SandboxLimits(Config).memory_limit_mb :
        LimitBytes(m) \subseteq Nat \cup {Overflow}
  <2> TAKE m \in SandboxLimits(Config).memory_limit_mb
  <2>1. m \in Nat
    BY <1>2 DEF SandboxLimits
  <2>2. MulU64(m, 1024) \subseteq Nat \cup {Overflow}
    BY <1>1, <2>1
  <2>3. \A x \in MulU64(m, 1024) \ {Overflow} :
          MulU64(x, 1024) \subseteq Nat \cup {Overflow}
    BY <1>1, <2>2
  <2>4. UNION {MulU64(x, 1024) : x \in MulU64(m, 1024) \ {Overflow}}
          \subseteq Nat \cup {Overflow}
    <3> SUFFICES ASSUME NEW y \in UNION {MulU64(x, 1024) :
                                           x \in MulU64(m, 1024) \ {Overflow}}
                 PROVE  y \in Nat \cup {Overflow}
      OBVIOUS
    <3>1. PICK x \in MulU64(m, 1024) \ {Overflow} : y \in MulU64(x, 1024)
      OBVIOUS
    <3> QED BY <2>3, <3>1
  <2>5. MulU64(m, 1024) \cap {Overflow} \subseteq Nat \cup {Overflow}
    OBVIOUS
  <2> QED BY <2>4, <2>5 DEF LimitBytes
<1> QED BY <1>3, <1>4 DEF Wanted

LEMMA InitIInv == Init => IInv
BY DEF Init, IInv, TypeOK, GroupsHoldOwnChild

LEMMA NextIInv == SandboxAssumption /\ IInv /\ [Next]_vars => IInv'
<1> SUFFICES ASSUME SandboxAssumption, IInv, [Next]_vars PROVE IInv'
  OBVIOUS
<1>1. ASSUME NEW p \in Pids, Spawn(p) PROVE IInv'
  <2> PICK made \in SUBSET {c \in Controllers : Wanted(c) # {}},
           wrote \in SUBSET Controllers, joined \in SUBSET Controllers,
           v \in Outcomes :
        LET ok(c) == c \in made /\ v[c] # Overflow
        IN  /\ live' = live \cup {p}
            /\ exists' = [g \in Groups |->
                            exists[g] \/ (g[2] = p /\ g[1] \in made)]
            /\ knob' = [g \in Groups |->
                          IF g[2] = p /\ ok(g[1]) /\ g[1] \in wrote
                          THEN v[g[1]] ELSE knob[g]]
            /\ procs' = [g \in Groups |->
                           IF g[2] = p /\ ok(g[1]) /\ g[1] \in joined
                           THEN procs[g] \cup {p} ELSE procs[g]]
    BY <1>1 DEF Spawn
  <2>1. \A c \in made : v[c] \in Wanted(c)
    BY DEF Outcomes
  <2>2. \A c \in made : v[c] # Overflow => v[c] \in Nat
    BY <2>1, WantedValues
  <2>3. TypeOK'
    BY <2>2 DEF IInv, TypeOK, Groups
  <2>4. GroupsHoldOwnChild'
    BY DEF IInv, GroupsHoldOwnChild, Groups
  <2> QED BY <2>3, <2>4 DEF IInv
<1>2. ASSUME NEW p \in Pids, Exit(p) PROVE IInv'
  BY <1>2 DEF Exit, IInv, TypeOK, GroupsHoldOwnChild
<1>3. CASE UNCHANGED vars
  BY <1>3 DEF vars, IInv, TypeOK, GroupsHoldOwnChild
<1> QED BY <1>1, <1>2, <1>3 DEF Next

(* THEOREM: whatever the OS's pid reuse and whichever cgroup calls fail,  *)
(* a cgroup sentra-lab-<pid> holds at most the child with that pid, and   *)
(* only while it runs: the directories cleanup never removes are empty,   *)
(* so a child that is given a recycled pid is never grouped with a        *)
(* process of an earlier agent.                                            *)
THEOREM OwnChildOnly == SandboxAssumption => (Spec => []GroupsHoldOwnChild)
<1> SUFFICES ASSUME SandboxAssumption PROVE Spec => []GroupsHoldOwnChild
  OBVIOUS
<1>1. Init => IInv
  BY InitIInv
<1>2. IInv /\ [Next]_vars => IInv'
  BY NextIInv
<1>3. IInv => GroupsHoldOwnChild
  BY DEF IInv
<1> QED BY <1>1, <1>2, <1>3, PTL DEF Spec

=============================================================================
