------------------------------ MODULE Sandbox --------------------------------
(***************************************************************************)
(* The resource sandbox of runtime/sandbox.rs and the limits of           *)
(* runtime/resource_limiter.rs, on Linux.                                  *)
(*                                                                         *)
(* ResourceLimits is a record whose optional fields are sets: {} is None  *)
(* and {v} is Some(v).  The cgroup filesystem is three functions over the *)
(* groups <<controller, pid>> (the directory sentra-lab-<pid> under the   *)
(* controller's hierarchy): whether the directory exists, the value last  *)
(* written to its limit knob, and the pids in its cgroup.procs.  Every    *)
(* file-system call of apply_cpu_limit and apply_memory_limit may fail,   *)
(* and each failure is swallowed; `cleanup` is never called, so a         *)
(* directory, once made, stays.                                            *)
(*                                                                         *)
(* Integer widths are kept where the code multiplies: u64 products wrap   *)
(* in a release build and panic in a debug build, so an overflowing       *)
(* product has both outcomes.                                              *)
(***************************************************************************)
EXTENDS Naturals, FiniteSets

CONSTANTS
    Pids,         \* the pids the OS may give an agent child
    Config,       \* the SandboxConfig the runtime was built with
    Overflow,     \* a u64 multiplication that panics (debug build)
    Unset,        \* a limit file never written
    U32, U64      \* 2^32 and 2^64, the ranges of u32 and u64

(* a * b on u64: the exact product, or, when it does not fit, the wrapped *)
(* product (release) or a panic (debug).                                   *)
MulU64(a, b) ==
    IF a * b < U64 THEN {a * b} ELSE {(a * b) % U64, Overflow}

(* The values of u32 and u64.                                              *)
UInt32 == {x \in Nat : x < U32}
UInt64 == {x \in Nat : x < U64}

SandboxConfigs ==
    [limit_cpu : BOOLEAN, cpu_quota : UInt32,
     limit_memory : BOOLEAN, memory_limit_mb : UInt64]

LimitsRecords ==
    [cpu_quota : SUBSET UInt32, memory_limit_mb : SUBSET UInt64,
     network_bandwidth_mbps : SUBSET UInt32]

(* SandboxConfig::default()                                                *)
DefaultConfig ==
    [limit_cpu |-> TRUE, cpu_quota |-> 50,
     limit_memory |-> TRUE, memory_limit_mb |-> 512]

(* The presets ResourceLimits::default, unlimited, strict and relaxed.    *)
DefaultLimits == [cpu_quota |-> {50}, memory_limit_mb |-> {512},
                  network_bandwidth_mbps |-> {}]
UnlimitedLimits == [cpu_quota |-> {}, memory_limit_mb |-> {},
                    network_bandwidth_mbps |-> {}]
StrictLimits == [cpu_quota |-> {25}, memory_limit_mb |-> {256},
                 network_bandwidth_mbps |-> {10}]
RelaxedLimits == [cpu_quota |-> {100}, memory_limit_mb |-> {2048},
                  network_bandwidth_mbps |-> {}]

(* ResourceLimits::validate returns Ok.                                    *)
Validate(l) ==
    /\ \A q \in l.cpu_quota : q # 0 /\ q <= 400
    /\ \A m \in l.memory_limit_mb : 64 <= m /\ m <= 16384
    /\ \A b \in l.network_bandwidth_mbps : b # 0 /\ b <= 10000

(* ResourceLimiter::aggregate_limits(num_agents): memory scales by the    *)
(* number of agents (a u64 product), cpu and bandwidth are copied.        *)
AggregateLimits(l, n) ==
    {[l EXCEPT !.memory_limit_mb = M] :
        M \in IF l.memory_limit_mb = {} THEN {{}}
              ELSE {{x} : x \in UNION {MulU64(m, n) : m \in l.memory_limit_mb}}}

(* Sandbox::new: the limits come from the config, without validation.     *)
SandboxLimits(c) ==
    [cpu_quota |-> IF c.limit_cpu THEN {c.cpu_quota} ELSE {},
     memory_limit_mb |-> IF c.limit_memory THEN {c.memory_limit_mb} ELSE {},
     network_bandwidth_mbps |-> {}]

(* The values written to cpu.cfs_quota_us and memory.limit_in_bytes: a    *)
(* u32 quota widened to u64 times the 100000 us period over 100, and the  *)
(* megabytes times 1024 * 1024.                                            *)
QuotaValue(q) == (q * 100000) \div 100
LimitBytes(mb) ==
    (UNION {MulU64(x, 1024) : x \in MulU64(mb, 1024) \ {Overflow}})
    \cup (MulU64(mb, 1024) \cap {Overflow})

Controllers == {"cpu", "memory"}
Groups == Controllers \X Pids

VARIABLES
    live,     \* agent children running
    exists,   \* exists[g]: the group's directory has been created
    knob,     \* knob[g]: last value written to its limit file, or Unset
    procs     \* procs[g]: the pids attached to the group

vars == <<live, exists, knob, procs>>

TypeOK ==
    /\ live \subseteq Pids
    /\ exists \in [Groups -> BOOLEAN]
    /\ knob \in [Groups -> Nat \cup {Unset}]
    /\ procs \in [Groups -> SUBSET Pids]

Init ==
    /\ live = {}
    /\ exists = [g \in Groups |-> FALSE]
    /\ knob = [g \in Groups |-> Unset]
    /\ procs = [g \in Groups |-> {}]

(* The value a controller's limit file gets for this sandbox's limits.    *)
Wanted(ctl) ==
    IF ctl = "cpu"
    THEN {QuotaValue(q) : q \in SandboxLimits(Config).cpu_quota}
    ELSE UNION {LimitBytes(m) : m \in SandboxLimits(Config).memory_limit_mb}

(* What each controller's limit computation may yield: the wanted values *)
(* (a debug-build overflow among them), or Unset when it has no limit.    *)
Outcomes ==
    {v \in [Controllers -> (UNION {Wanted(c) : c \in Controllers}) \cup {Unset}] :
        \A c \in Controllers : v[c] \in IF Wanted(c) = {} THEN {Unset}
                                                         ELSE Wanted(c)}

(* AgentRuntime::spawn: the child p is spawned and apply_limits(p) runs.  *)
(* For each controller with a limit: create_dir_all (on failure the      *)
(* controller is skipped), the limit write (and the cpu period write,    *)
(* always the kernel's default 100000), then the pid into cgroup.procs;   *)
(* the writes may fail independently.  A debug-build overflow panics      *)
(* after the directory is made and before the memory knob is written.    *)
(* `made`, `wrote` and `joined` are the controllers whose directory,      *)
(* knob and attach calls succeeded.                                        *)
Spawn(p) ==
    /\ p \notin live
    /\ \E made \in SUBSET {c \in Controllers : Wanted(c) # {}},
          wrote \in SUBSET Controllers, joined \in SUBSET Controllers,
          v \in Outcomes :
        LET ok(c) == c \in made /\ v[c] # Overflow
        IN
        /\ live' = live \cup {p}
        /\ exists' = [g \in Groups |->
                        exists[g] \/ (g[2] = p /\ g[1] \in made)]
        /\ knob' = [g \in Groups |->
                      IF g[2] = p /\ ok(g[1]) /\ g[1] \in wrote
                      THEN v[g[1]] ELSE knob[g]]
        /\ procs' = [g \in Groups |->
                       IF g[2] = p /\ ok(g[1]) /\ g[1] \in joined
                       THEN procs[g] \cup {p} ELSE procs[g]]

(* The child exits (shutdown, kill or crash); the kernel takes it out of *)
(* every group.  The groups themselves stay: nothing calls cleanup.        *)
Exit(p) ==
    /\ p \in live
    /\ live' = live \ {p}
    /\ procs' = [g \in Groups |-> procs[g] \ {p}]
    /\ UNCHANGED <<exists, knob>>

Next == \E p \in Pids : Spawn(p) \/ Exit(p)

Spec == Init /\ [][Next]_vars

-----------------------------------------------------------------------------
(* Every group holds at most its own pid, and only while that child runs: *)
(* the kernel empties a group when its child exits, and apply_limits      *)
(* writes only the new child's own pid, so a child that gets a recycled   *)
(* pid, and with it a stale directory that cleanup never removed, is      *)
(* never grouped with a process of an earlier agent.                       *)
GroupsHoldOwnChild ==
    \A g \in Groups : procs[g] \subseteq {g[2]} \cap live

=============================================================================
