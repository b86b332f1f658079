--------------------------- MODULE SchedulerProofs ---------------------------
(***************************************************************************)
(* Proofs about the work-stealing scheduler of runtime/work_stealing.rs,  *)
(* for every set of workers and tasks.                                     *)
(*                                                                         *)
(* TaskAccounting is not inductive on its own: submit and submit_batch    *)
(* push tasks onto the injector, and the injector stays without           *)
(* duplicates only because a task still to be submitted is neither in the *)
(* injector nor being run (Submitted).                                     *)
(***************************************************************************)
EXTENDS Scheduler, DistinctSeqs, FiniteSetTheorems, TLAPS

(* A task not yet submitted is neither queued nor running.                 *)
Submitted ==
  /\ ToSet(injector) \cap unsubmitted = {}
  /\ \A w \in Workers : running[w] \notin unsubmitted

SInv == TypeOK /\ TaskAccounting /\ Submitted

(* The places of a worker are distinct strings.                            *)
USE DEF Check, Park, Waiting, Busy, Exited


LEMMA WorkersFinite == Cardinality(Workers) \in Nat
BY WorkersAssumption, FS_CardinalityType

(* notify_one moves at most one worker, from Waiting to Check, or stores  *)
(* the permit: it never touches a worker that runs a task.                 *)
LEMMA NotifyOneKeepsBusy ==
  ASSUME TypeOK, NotifyOne
  PROVE  /\ wpc' \in [Workers -> {Check, Park, Waiting, Busy, Exited}]
         /\ permit' \in BOOLEAN
         /\ \A w \in Workers : wpc'[w] = Busy <=> wpc[w] = Busy
BY DEF NotifyOne, TypeOK

(* The batches are sequences of two distinct tasks.                        *)
LEMMA BatchShape ==
  ASSUME NEW b \in Batches
  PROVE  b \in Seq(Tasks) /\ Distinct(b) /\ Len(b) = 2
<1>1. b \in [1 .. 2 -> Tasks] /\ b[1] # b[2]
  BY DEF Batches
<1>2. b \in Seq(Tasks)
  BY <1>1, SeqDef
<1>3. Len(b) \in Nat /\ DOMAIN b = 1 .. Len(b)
  BY <1>2, LenProperties
<1>4. Len(b) = 2
  BY <1>1, <1>3
<1> QED BY <1>1, <1>2, <1>4 DEF Distinct

LEMMA InitSInv == Init => SInv
<1> SUFFICES ASSUME Init PROVE SInv
  OBVIOUS
<1>1. TypeOK
  <2>1. injector \in Seq(Tasks) /\ unsubmitted \in SUBSET Tasks
    BY EmptySeq DEF Init
  <2>2. pending \in 0 .. Cardinality(Workers)
    BY WorkersFinite DEF Init
  <2> QED BY <2>1, <2>2 DEF Init, TypeOK
<1>2. ToSet(injector) = {}
  BY DEF Init, ToSet
<1> QED BY <1>1, <1>2, NoTaskAssumption DEF Init, TaskAccounting, Submitted,
                                                SInv

LEMMA NextSInv == SInv /\ [Next]_vars => SInv'
<1> SUFFICES ASSUME SInv, [Next]_vars PROVE SInv'
  OBVIOUS
<1> USE DEF SInv
<1>0. Distinct(injector) /\ injector \in Seq(Tasks) /\ Cardinality(Workers) \in Nat
  BY WorkersFinite DEF TaskAccounting, Distinct, TypeOK
<1>1. CASE \E t \in Tasks : Submit(t)
  <2> PICK t \in Tasks : Submit(t)
    BY <1>1
  <2>1. t \notin ToSet(injector) /\ \A w \in Workers : running[w] # t
    BY DEF Submit, Submitted
  <2>2. Distinct(injector') /\ ToSet(injector') = ToSet(injector) \cup {t}
        /\ injector' \in Seq(Tasks)
    BY <2>1, <1>0, PushDistinct, AppendProperties DEF Submit
  <2>3. /\ wpc' \in [Workers -> {Check, Park, Waiting, Busy, Exited}]
        /\ permit' \in BOOLEAN
        /\ \A w \in Workers : wpc'[w] = Busy <=> wpc[w] = Busy
    BY NotifyOneKeepsBusy DEF Submit
  <2> QED BY <2>1, <2>2, <2>3 DEF Submit, TypeOK, TaskAccounting, Submitted,
                                  Distinct
<1>2. CASE \E b \in Batches : SubmitBatch(b)
  <2> PICK b \in Batches : SubmitBatch(b)
    BY <1>2
  <2>1. b \in Seq(Tasks) /\ Distinct(b) /\ Len(b) = 2
    BY BatchShape
  <2>2. ToSet(injector) \cap ToSet(b) = {}
        /\ \A w \in Workers : running[w] \notin ToSet(b)
    BY DEF SubmitBatch, Submitted
  <2>3. Distinct(injector') /\ ToSet(injector') = ToSet(injector) \cup ToSet(b)
        /\ injector' \in Seq(Tasks)
    BY <2>1, <2>2, <1>0, ConcatDistinct, ConcatProperties DEF SubmitBatch
  <2>4. pending' \in 0 .. Cardinality(Workers)
    BY <2>1, <1>0 DEF SubmitBatch
  <2> QED BY <2>2, <2>3, <2>4 DEF SubmitBatch, TypeOK, TaskAccounting,
                                  Submitted, Distinct
<1>3. CASE SubmitNotify
  <2>1. /\ wpc' \in [Workers -> {Check, Park, Waiting, Busy, Exited}]
        /\ permit' \in BOOLEAN
        /\ \A w \in Workers : wpc'[w] = Busy <=> wpc[w] = Busy
    BY <1>3, NotifyOneKeepsBusy DEF SubmitNotify
  <2> QED BY <1>3, <2>1, <1>0 DEF SubmitNotify, TypeOK, TaskAccounting,
                                  Submitted
<1>4. CASE \E w \in Workers : StealGlobal(w)
  <2> PICK w \in Workers : StealGlobal(w)
    BY <1>4
  <2> DEFINE t == Head(injector)
  <2>1. /\ Tail(injector) \in Seq(Tasks) /\ t \in Tasks
        /\ Distinct(Tail(injector))
        /\ ToSet(Tail(injector)) = ToSet(injector) \ {t}
    BY <1>0, PopHeadDistinct DEF StealGlobal
  <2>2. t \in ToSet(injector)
    BY <1>0 DEF StealGlobal, ToSet
  <2>3. running[w] = NoTask /\ \A v \in Workers : running[v] # t
    BY <2>1, <2>2, NoTaskAssumption DEF StealGlobal, TaskAccounting, TypeOK
  <2>4. t \notin unsubmitted
    BY <2>2 DEF Submitted
  <2> QED BY <2>1, <2>3, <2>4, NoTaskAssumption
          DEF StealGlobal, TypeOK, TaskAccounting, Submitted, Distinct
<1>5. CASE \E w \in Workers : FindEmpty(w) \/ PollNotified(w)
  <2> PICK w \in Workers : FindEmpty(w) \/ PollNotified(w)
    BY <1>5
  <2> QED BY DEF FindEmpty, PollNotified, TypeOK, TaskAccounting, Submitted
<1>6. CASE \E w \in Workers : Finish(w) \/ Exit(w)
  <2> PICK w \in Workers : Finish(w) \/ Exit(w)
    BY <1>6
  <2> QED BY NoTaskAssumption
          DEF Finish, Exit, TypeOK, TaskAccounting, Submitted
<1>7. CASE UNCHANGED vars
  BY <1>7 DEF vars, TypeOK, TaskAccounting, Submitted
<1> QED BY <1>1, <1>2, <1>3, <1>4, <1>5, <1>6, <1>7 DEF Next

(* For every set of workers and tasks, and whatever the interleaving of    *)
(* submit, submit_batch and the workers' get_task loops, each submitted   *)
(* task is in the injector at most once or returned by exactly one        *)
(* get_task, never both: no task is run twice or by two workers.           *)
THEOREM TasksAccounted == Spec => []TaskAccounting
<1>1. SInv => TaskAccounting
  BY DEF SInv
<1> QED BY <1>1, InitSInv, NextSInv, PTL DEF Spec

(* The scheduler's state stays well typed.                                 *)
THEOREM SchedulerTypeCorrect == Spec => []TypeOK
<1>1. SInv => TypeOK
  BY DEF SInv
<1> QED BY <1>1, InitSInv, NextSInv, PTL DEF Spec

=============================================================================
