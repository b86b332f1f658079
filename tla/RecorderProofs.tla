---------------------------- MODULE RecorderProofs ----------------------------
(***************************************************************************)
(* Proofs about the event recorder of recording/recorder.rs and the event *)
(* storage of recording/storage.rs, for every set of events, queue         *)
(* capacity, batch size and bound on failures and restarts.                *)
(*                                                                         *)
(* SessionFilesIntact is not inductive on its own: fs::write may replace   *)
(* the file of the id write_batch allocated, and that file is not named by *)
(* any row of this process only because the ids handed out in one process  *)
(* lifetime increase (IdsFresh); the INSERT records what the file holds    *)
(* only because nothing runs between fs::write and the INSERT (Written).   *)
(* TypeOK needs IdsFresh too: the file a crash truncates has a non-zero id.*)
(*                                                                         *)
(* StreamIntegrity is about the concatenation of the batches the files of *)
(* this process's rows hold (FlattenSeq).  By SessionFilesIntact those are *)
(* the batches recorded in the rows (SessionData), and StreamInv states    *)
(* the invariant of them: an INSERT appends the drain batch to them, and   *)
(* FlattenAppend shows that this appends it to their concatenation.  The   *)
(* induction FlattenAppend needs is done by the least-number principle on  *)
(* Nat (WellFoundedInduction), since the provers cannot instantiate an     *)
(* induction rule with an operator parameter.  StreamInv also needs that   *)
(* the drain task has stopped once shutdown() returned.                    *)
(***************************************************************************)
EXTENDS Recorder, SequenceTheorems, WellFoundedInduction, TLAPS

(* The places of the drain task are distinct strings.                      *)
USE DEF Unstarted, Select, Drain, Flush, Alloc, Write, Insert, Stopped

(* The tuples of variables are only abbreviations.                         *)
USE DEF queueVars, storeVars

(* Between the counter lock and the INSERT, the task works with the last   *)
(* id handed out; every row of this process has an id no larger, and a    *)
(* smaller one while a batch is being written or inserted.                 *)
IdsFresh ==
  /\ sessionStart <= Len(index)
  /\ drainPc \in {Write, Insert} => curId = counter /\ curId # 0
  /\ \A i \in sessionStart + 1 .. Len(index) :
       /\ index[i].bid <= counter
       /\ drainPc \in {Write, Insert} => index[i].bid < curId

(* Between fs::write and the INSERT, the file holds the batch.             *)
Written ==
  drainPc = Insert => curId \in DOMAIN files /\ files[curId] = batch

RecInv == TypeOK /\ IdsFresh /\ Written /\ SessionFilesIntact

(* The rows of the index are well formed.                                  *)
LEMMA IndexRows ==
  ASSUME TypeOK
  PROVE  /\ Len(index) \in Nat
         /\ \A i \in 1 .. Len(index) : index[i] \in Row
BY LenProperties, ElementOfSeq DEF TypeOK, StoreTypeOK

(* fs::write of data to the file of id n changes that file and no other.   *)
LEMMA WriteFileFacts ==
  ASSUME NEW n, NEW data, WriteFile(n, data)
  PROVE  /\ DOMAIN files' = DOMAIN files \cup {n}
         /\ files'[n] = data
         /\ \A k \in DOMAIN files : k # n => files'[k] = files[k]
         /\ UNCHANGED <<counter, index>>
BY DEF WriteFile

-----------------------------------------------------------------------------
(* Concatenation of the indexed batches.  StreamOf is a FlattenSeq, whose  *)
(* recursive function tlapm sees only as a CHOOSE; the lemmas below show   *)
(* that the CHOOSE is the function the recursion defines and what it       *)
(* returns for an appended batch.  Induction over the index is done by the *)
(* least-number principle (a least counterexample cannot exist), taken     *)
(* from the well-foundedness of < on Nat.                                  *)

(* The pairs of OpToRel(<, Nat) are the pairs of naturals related by <.    *)
LEMMA LtRel ==
  ASSUME NEW x \in Nat, NEW y \in Nat
  PROVE  <<y, x>> \in OpToRel(<, Nat) <=> y < x
BY Zenon DEF OpToRel

(* Every non-empty set of naturals has a least element.                  *)
LEMMA MinNat ==
  ASSUME NEW T \in SUBSET Nat, T # {}
  PROVE  \E x \in T : \A y \in T : x <= y
<1>1. \E x \in T : \A y \in T : ~(<<y, x>> \in OpToRel(<, Nat))
  BY WFMin, NatLessThanWellFounded
<1>2. PICK x \in T : \A y \in T : ~(<<y, x>> \in OpToRel(<, Nat))
  BY <1>1
<1>3. \A y \in T : ~(y < x)
  BY <1>2, LtRel
<1> QED BY <1>3

(* The recursive function in the LET of FlattenSeq, as tlapm reads it.    *)
FlatFn(seqs) == CHOOSE f : f = [i \in 1 .. Len(seqs) |->
                   IF i = 1 THEN seqs[i] ELSE f[i-1] \o seqs[i]]

(* g satisfies the recursion of FlattenSeq on its first n arguments.      *)
FlatRec(seqs, g, n) ==
  \A i \in 1 .. n : g[i] = IF i = 1 THEN seqs[i] ELSE g[i-1] \o seqs[i]

(* A non-empty FlattenSeq is the last value of its recursive function.    *)
LEMMA FlatDef ==
  ASSUME NEW seqs, Len(seqs) # 0
  PROVE  FlattenSeq(seqs) = FlatFn(seqs)[Len(seqs)]
BY DEF FlattenSeq, FlatFn

(* Two functions satisfying the recursion for pointwise equal sequences   *)
(* agree on the first k arguments.                                         *)
LEMMA FlatUnique ==
  ASSUME NEW r1, NEW r2, NEW k \in Nat, NEW g, NEW h,
         \A i \in 1 .. k : r1[i] = r2[i],
         FlatRec(r1, g, k), FlatRec(r2, h, k)
  PROVE  \A i \in 1 .. k : g[i] = h[i]
<1> DEFINE T == {i \in 1 .. k : g[i] # h[i]}
<1> SUFFICES ASSUME T # {} PROVE FALSE
  OBVIOUS
<1>0. T \in SUBSET Nat
  OBVIOUS
<1> HIDE DEF T
<1>1. PICK m \in T : \A y \in T : m <= y
  BY <1>0, MinNat
<1> USE DEF T
<1>2. CASE m = 1
  BY <1>1, <1>2 DEF FlatRec
<1>3. CASE m # 1
  <2>1. m - 1 \in 1 .. k /\ m - 1 \notin T
    BY <1>1, <1>3
  <2>2. g[m-1] = h[m-1]
    BY <2>1
  <2> QED BY <1>1, <1>3, <2>2 DEF FlatRec
<1> QED BY <1>2, <1>3

(* FlatUnique as a single formula, to be cited inside other proofs.       *)
LEMMA FlatUniqueAll ==
  \A r1, r2, g, h : \A k \in Nat :
               (\A i \in 1 .. k : r1[i] = r2[i]) /\ FlatRec(r1, g, k)
               /\ FlatRec(r2, h, k) => \A i \in 1 .. k : g[i] = h[i]
BY FlatUnique

(* For every n up to the length, some function satisfies the recursion on *)
(* its first n arguments, with values that are sequences.                  *)
LEMMA FlatExists ==
  ASSUME NEW E, NEW seqs \in Seq(Seq(E))
  PROVE  \A n \in 0 .. Len(seqs) :
           \E g : /\ \A i \in 1 .. n : g[i] \in Seq(E)
                  /\ FlatRec(seqs, g, n)
<1> DEFINE Ok(n) == \E g : /\ \A i \in 1 .. n : g[i] \in Seq(E)
                           /\ FlatRec(seqs, g, n)
           T == {n \in 0 .. Len(seqs) : ~ Ok(n)}
<1>0. Len(seqs) \in Nat /\ \A i \in 1 .. Len(seqs) : seqs[i] \in Seq(E)
  BY LenProperties, ElementOfSeq
<1> SUFFICES ASSUME T # {} PROVE FALSE
  OBVIOUS
<1>9. T \in SUBSET Nat
  BY <1>0
<1> HIDE DEF T
<1>1. PICK m \in T : \A y \in T : m <= y
  BY <1>9, MinNat
<1> USE DEF T
<1>2. Ok(0)
  BY DEF FlatRec
<1>3. m # 0
  BY <1>1, <1>2
<1>4. m - 1 \in 0 .. Len(seqs) /\ m - 1 \notin T
  <2>1. m \in 0 .. Len(seqs)
    OBVIOUS
  <2>2. m - 1 \in 0 .. Len(seqs)
    BY <1>0, <2>1, <1>3
  <2>3. ~(m <= m - 1)
    BY <2>1
  <2> QED BY <1>1, <2>2, <2>3
<1>8. Ok(m - 1)
  BY <1>4, Zenon
<1>5. PICK g : /\ \A i \in 1 .. m - 1 : g[i] \in Seq(E)
               /\ FlatRec(seqs, g, m - 1)
  BY <1>8
<1> DEFINE h == [i \in 1 .. m |-> IF i < m THEN g[i]
                                  ELSE IF m = 1 THEN seqs[1]
                                  ELSE g[m-1] \o seqs[m]]
<1>6. \A i \in 1 .. m : h[i] \in Seq(E)
  BY <1>0, <1>1, <1>3, <1>5
<1>7. FlatRec(seqs, h, m)
  BY <1>0, <1>1, <1>3, <1>5 DEF FlatRec
<1> QED BY <1>1, <1>6, <1>7

(* Hence the CHOOSE of FlatFn satisfies the recursion, with sequence       *)
(* values.                                                                 *)
LEMMA FlatFnRec ==
  ASSUME NEW E, NEW seqs \in Seq(Seq(E))
  PROVE  /\ FlatRec(seqs, FlatFn(seqs), Len(seqs))
         /\ \A i \in 1 .. Len(seqs) : FlatFn(seqs)[i] \in Seq(E)
<1> DEFINE n == Len(seqs)
           Body(f) == [i \in 1 .. n |-> IF i = 1 THEN seqs[i] ELSE f[i-1] \o seqs[i]]
<1>0. n \in Nat
  BY LenProperties
<1>1. PICK g : /\ \A i \in 1 .. n : g[i] \in Seq(E)
               /\ FlatRec(seqs, g, n)
  BY <1>0, FlatExists
<1> DEFINE g2 == [i \in 1 .. n |-> g[i]]
<1>2. g2 = Body(g2)
  BY <1>0, <1>1 DEF FlatRec
<1>3. FlatFn(seqs) = Body(FlatFn(seqs))
  <2>1. \E f : f = Body(f)
    BY <1>2
  <2> QED BY <2>1 DEF FlatFn
<1>4. FlatRec(seqs, FlatFn(seqs), n)
  BY <1>3 DEF FlatRec
<1>5. \A i \in 1 .. n : FlatFn(seqs)[i] = g[i]
  BY <1>0, <1>1, <1>4, FlatUnique
<1> QED BY <1>1, <1>4, <1>5

(* Concatenating sequences of E gives a sequence of E.                     *)
LEMMA FlattenType ==
  ASSUME NEW E, NEW seqs \in Seq(Seq(E))
  PROVE  FlattenSeq(seqs) \in Seq(E)
<1>1. CASE Len(seqs) = 0
  <2>1. seqs = <<>>
    BY <1>1, EmptySeq
  <2> QED BY <1>1, <2>1, EmptySeq DEF FlattenSeq
<1>2. CASE Len(seqs) # 0
  <2>1. Len(seqs) \in 1 .. Len(seqs)
    BY <1>2, LenProperties
  <2> QED BY <1>2, <2>1, FlatDef, FlatFnRec
<1> QED BY <1>1, <1>2

(* Concatenating one more sequence appends it to the concatenation.       *)
LEMMA FlattenAppend ==
  ASSUME NEW E, NEW s \in Seq(Seq(E)), NEW b \in Seq(E)
  PROVE  FlattenSeq(Append(s, b)) = FlattenSeq(s) \o b
<1> DEFINE t == Append(s, b)
           n == Len(s)
<1>0. /\ n \in Nat
      /\ t \in Seq(Seq(E)) /\ Len(t) = n + 1
      /\ \A i \in 1 .. n : t[i] = s[i]
      /\ t[n + 1] = b
  BY LenProperties, AppendProperties
<1> HIDE DEF t, n
<1>1. FlattenSeq(t) = FlatFn(t)[n + 1]
  BY <1>0, FlatDef
<1>2. FlatRec(t, FlatFn(t), n + 1)
  BY <1>0, FlatFnRec
<1>3. CASE n = 0
  <2>1. s = <<>>
    BY <1>3, EmptySeq DEF n
  <2>2. FlattenSeq(s) = <<>>
    BY <2>1 DEF FlattenSeq
  <2>3. FlatFn(t)[n + 1] = b
    BY <1>0, <1>2, <1>3 DEF FlatRec
  <2> QED BY <1>1, <2>2, <2>3, ConcatEmptySeq DEF t
<1>4. CASE n # 0
  <2>1. FlattenSeq(s) = FlatFn(s)[n]
    BY <1>4, FlatDef DEF n
  <2>2. FlatRec(s, FlatFn(s), n)
    BY FlatFnRec DEF n
  <2>3. FlatRec(t, FlatFn(t), n)
    <3> SUFFICES ASSUME NEW i \in 1 .. n
                 PROVE  FlatFn(t)[i] = IF i = 1 THEN t[i]
                                       ELSE FlatFn(t)[i-1] \o t[i]
      BY DEF FlatRec
    <3>1. i \in 1 .. n + 1
      BY <1>0
    <3> QED BY <3>1, <1>2, Zenon DEF FlatRec
  <2>4. FlatFn(t)[n] = FlatFn(s)[n]
    <3>1. \A i \in 1 .. n : t[i] = s[i]
      BY <1>0
    <3>2. \A i \in 1 .. n : FlatFn(t)[i] = FlatFn(s)[i]
      <4>1. n \in Nat
        BY <1>0
      <4>2. \A r1, r2, g, h : \A k \in Nat :
               (\A i \in 1 .. k : r1[i] = r2[i]) /\ FlatRec(r1, g, k)
               /\ FlatRec(r2, h, k) => \A i \in 1 .. k : g[i] = h[i]
        BY FlatUniqueAll
      <4> HIDE DEF FlatRec
      <4> QED BY <4>1, <3>1, <2>2, <2>3, <4>2
    <3>3. n \in 1 .. n
      BY <1>0, <1>4
    <3> QED BY <3>2, <3>3
  <2>5. FlatFn(t)[n + 1] = FlatFn(t)[n] \o b
    <3>1. n + 1 \in 1 .. n + 1 /\ n + 1 # 1 /\ (n + 1) - 1 = n
      BY <1>0, <1>4
    <3>2. FlatFn(t)[n + 1] = IF n + 1 = 1 THEN t[n + 1]
                             ELSE FlatFn(t)[(n + 1) - 1] \o t[n + 1]
      BY <3>1, <1>2, Zenon DEF FlatRec
    <3> QED BY <3>1, <3>2, <1>0, Zenon
  <2> QED BY <1>1, <2>1, <2>4, <2>5 DEF t
<1> QED BY <1>3, <1>4

(* Concatenating no sequence gives the empty sequence.                     *)
LEMMA FlattenEmpty ==
  ASSUME NEW S, NEW seqs \in Seq(S), Len(seqs) = 0
  PROVE  FlattenSeq(seqs) = << >>
BY EmptySeq DEF FlattenSeq

(* A sequence is a prefix of every extension of it.                        *)
LEMMA PrefixConcat ==
  ASSUME NEW S, NEW s \in Seq(S), NEW u \in Seq(S)
  PROVE  IsPrefix(s, s \o u)
<1>1. Len(s) \in Nat /\ Len(s) <= Len(s \o u)
  BY ConcatProperties, LenProperties
<1>2. CASE Len(s) = 0
  BY <1>1, <1>2, SubSeqEmpty DEF IsPrefix
<1>3. CASE Len(s) # 0
  <2>1. Len(s) \in 1 .. Len(s)
    BY <1>1, <1>3
  <2> QED BY <1>1, <2>1, SubSeqOfConcat1 DEF IsPrefix
<1> QED BY <1>2, <1>3

(* Whatever is followed by two more sequences is a prefix.                 *)
LEMMA PrefixConcat3 ==
  ASSUME NEW S, NEW s \in Seq(S), NEW u \in Seq(S), NEW v \in Seq(S)
  PROVE  IsPrefix(s, s \o u \o v)
<1>1. u \o v \in Seq(S)
  BY ConcatProperties
<1>2. s \o u \o v = s \o (u \o v)
  BY ConcatAssociative
<1> QED BY <1>1, <1>2, PrefixConcat

(* A non-empty sequence is its head followed by its tail.                  *)
LEMMA HeadTailConcat ==
  ASSUME NEW S, NEW q \in Seq(S), q # << >>
  PROVE  q = << Head(q) >> \o Tail(q)
<1>1. Len(q) \in Nat \ {0}
  BY EmptySeq
<1>2. 1 \in 1 .. Len(q) /\ Len(q) \in 1 .. Len(q)
  BY <1>1
<1>3. q = << q[1] >> \o SubSeq(q, 2, Len(q))
  BY <1>2, SubSeqRecursiveFirst, SubSeqFull
<1> QED BY <1>3, TailIsSubSeq

(* record(): a push at the tail of the queue extends the whole stream.     *)
LEMMA PushKeeps ==
  ASSUME NEW S, NEW f \in Seq(S), NEW b \in Seq(S), NEW q \in Seq(S),
         NEW e \in S
  PROVE  f \o b \o Append(q, e) = Append(f \o b \o q, e)
<1>1. << e >> \in Seq(S) /\ f \o b \in Seq(S) /\ f \o b \o q \in Seq(S)
  BY ConcatProperties
<1>2. Append(q, e) = q \o << e >> /\ Append(f \o b \o q, e) = f \o b \o q \o << e >>
  BY <1>1, AppendIsConcat
<1>3. (f \o b) \o (q \o << e >>) = ((f \o b) \o q) \o << e >>
  BY <1>1, ConcatAssociative
<1> QED BY <1>2, <1>3

(* PushKeeps for the recorder's queue and batch.                          *)
LEMMA PushEvent ==
  \A e \in Events, f \in Seq(Events) :
    batch \in Seq(Events) /\ queue \in Seq(Events)
      => f \o batch \o Append(queue, e) = Append(f \o batch \o queue, e)
BY PushKeeps

(* The drain loop: moving the head of the queue to the end of the batch    *)
(* leaves the whole stream as it is.                                       *)
LEMMA PopEvent ==
  \A f \in Seq(Events) :
    batch \in Seq(Events) /\ queue \in Seq(Events) /\ queue # << >>
      => f \o Append(batch, Head(queue)) \o Tail(queue) = f \o batch \o queue
<1> SUFFICES ASSUME NEW f \in Seq(Events), batch \in Seq(Events),
                    queue \in Seq(Events), queue # << >>
             PROVE  f \o Append(batch, Head(queue)) \o Tail(queue)
                      = f \o batch \o queue
  OBVIOUS
<1>1. Head(queue) \in Events /\ Tail(queue) \in Seq(Events)
  BY HeadTailProperties
<1>2. << Head(queue) >> \in Seq(Events) /\ f \o batch \in Seq(Events)
  BY <1>1, ConcatProperties
<1>3. Append(batch, Head(queue)) = batch \o << Head(queue) >>
  BY <1>1, AppendIsConcat
<1>4. f \o (batch \o << Head(queue) >>) = (f \o batch) \o << Head(queue) >>
  BY <1>2, ConcatAssociative
<1>5. ((f \o batch) \o << Head(queue) >>) \o Tail(queue)
        = (f \o batch) \o (<< Head(queue) >> \o Tail(queue))
  BY <1>1, <1>2, ConcatAssociative
<1>6. << Head(queue) >> \o Tail(queue) = queue
  BY HeadTailConcat
<1> QED BY <1>3, <1>4, <1>5, <1>6

-----------------------------------------------------------------------------
LEMMA InitRecInv == Init => RecInv
<1> SUFFICES ASSUME Init PROVE RecInv
  OBVIOUS
<1>1. QueueTypeOK
  BY EmptySeq, QueueCapAssumption DEF Init, QueueInit, QueueTypeOK
<1>2. StoreTypeOK
  BY EmptySeq DEF Init, StoreInit, StoreTypeOK
<1>3. <<>> \in Seq(Events)
  BY EmptySeq
<1>4. restarts \in 0 .. MaxRestarts
  BY BoundsAssumption DEF Init
<1>5. TypeOK
  BY <1>1, <1>2, <1>3, <1>4 DEF Init, TypeOK, DrainPcs, OwnerPcs
<1>6. Len(index) = 0
  BY EmptySeq DEF Init, StoreInit
<1> QED BY <1>5, <1>6 DEF Init, RecInv, IdsFresh, Written, SessionFilesIntact

LEMMA NextRecInv == RecInv /\ [Next]_vars => RecInv'
<1> SUFFICES ASSUME RecInv, [Next]_vars PROVE RecInv'
  OBVIOUS
<1> USE DEF RecInv
<1>0. /\ Len(index) \in Nat
      /\ \A i \in 1 .. Len(index) : index[i].bid \in Nat
  BY IndexRows DEF Row
<1>1. CASE Start \/ FlushCall \/ ShutdownNotify
  BY <1>1 DEF Start, FlushCall, ShutdownNotify, TypeOK, QueueTypeOK,
              StoreTypeOK, DrainPcs, OwnerPcs, IdsFresh, Written,
              SessionFilesIntact
<1>2. CASE \E e \in Events : Record(e)
  <2> PICK e \in Events : Record(e)
    BY <1>2
  <2>1. Len(queue) \in Nat /\ queue \in Seq(Events)
    BY LenProperties DEF TypeOK, QueueTypeOK
  <2>2. QueuePush(e) => QueueTypeOK'
    <3> HAVE QueuePush(e)
    <3>1. Len(queue') = Len(queue) + 1 /\ queue' \in Seq(Events)
      BY <2>1, AppendProperties DEF QueuePush
    <3> QED BY <2>1, <3>1, QueueCapAssumption DEF QueuePush, TypeOK, QueueTypeOK
  <2>3. QueueDrop(e) => QueueTypeOK'
    BY DEF QueueDrop, TypeOK, QueueTypeOK
  <2>4. QueueTypeOK'
    BY <2>2, <2>3 DEF Record
  <2>5. accepted' \in Seq(Events)
    <3>1. Append(accepted, e) \in Seq(Events)
      BY AppendProperties DEF TypeOK
    <3> QED BY <3>1 DEF Record
  <2>6. offered' \in SUBSET Events
    BY DEF Record, TypeOK
  <2> QED BY <2>4, <2>5, <2>6 DEF Record, TypeOK, StoreTypeOK, IdsFresh, Written,
                            SessionFilesIntact
<1>3. CASE Tick \/ Notified \/ DrainEmpty \/ Compress \/ CompressFail
                \/ InsertFail
  <2>1. drainPc' \in {Select, Drain, Flush, Alloc}
    BY <1>3 DEF Tick, Notified, AfterWake, DrainEmpty, Compress, CompressFail,
                InsertFail
  <2>2. UNCHANGED <<queueVars, storeVars, batch, curId, ownerPc, offered,
                    accepted, sessionStart, restarts>>
    BY <1>3 DEF Tick, Notified, DrainEmpty, Compress, CompressFail, InsertFail
  <2>3. notifyPermit' \in BOOLEAN
    BY <1>3 DEF Tick, Notified, DrainEmpty, Compress, CompressFail, InsertFail,
                TypeOK
  <2> QED BY <2>1, <2>2, <2>3 DEF TypeOK, DrainPcs, QueueTypeOK, StoreTypeOK,
                                  queueVars, storeVars, IdsFresh, Written,
                                  SessionFilesIntact
<1>4. CASE DrainPop
  <2>1. queue # <<>> /\ queue \in Seq(Events)
    BY <1>4 DEF DrainPop, QueuePop, TypeOK, QueueTypeOK
  <2>2. /\ Head(queue) \in Events /\ Tail(queue) \in Seq(Events)
        /\ Len(Tail(queue)) = Len(queue) - 1
    BY <2>1, HeadTailProperties
  <2>3. batch' \in Seq(Events)
    BY <1>4, <2>2, AppendProperties DEF DrainPop, TypeOK
  <2>4. QueueTypeOK'
    BY <1>4, <2>1, <2>2, LenProperties, QueueCapAssumption DEF DrainPop, QueuePop, TypeOK,
                                             QueueTypeOK
  <2>5. drainPc' \in {Flush, Drain}
    BY <1>4 DEF DrainPop
  <2> QED BY <1>4, <2>3, <2>4, <2>5
          DEF DrainPop, TypeOK, DrainPcs, QueueTypeOK, StoreTypeOK, OwnerPcs, IdsFresh, Written,
              SessionFilesIntact
<1>5. CASE AllocBatchId
  <2>1. counter' = counter + 1 /\ curId' = counter + 1 /\ counter \in Nat
        /\ UNCHANGED <<files, index, sessionStart>>
    BY <1>5 DEF AllocBatchId, AllocateId, TypeOK, StoreTypeOK
  <2>2. IdsFresh'
    BY <1>5, <2>1, <1>0 DEF AllocBatchId, IdsFresh, TypeOK
  <2> QED BY <1>5, <2>1, <2>2
          DEF AllocBatchId, TypeOK, DrainPcs, QueueTypeOK, StoreTypeOK, OwnerPcs, Written,
              SessionFilesIntact
<1>6. CASE WriteOk
  <2>1. curId \in Nat \ {0} /\ curId = counter
    BY <1>6 DEF WriteOk, IdsFresh, TypeOK
  <2>2. /\ DOMAIN files' = DOMAIN files \cup {curId}
        /\ files'[curId] = batch
        /\ \A k \in DOMAIN files : k # curId => files'[k] = files[k]
        /\ UNCHANGED <<counter, index>>
    BY <1>6, WriteFileFacts DEF WriteOk
  <2>3. StoreTypeOK'
    BY <2>1, <2>2 DEF TypeOK, StoreTypeOK, Batch
  <2>4. SessionFilesIntact'
    <3> SUFFICES ASSUME NEW i \in sessionStart + 1 .. Len(index)
                 PROVE  /\ index[i].bid \in DOMAIN files'
                        /\ files'[index[i].bid] = index[i].data
      BY <1>6, <2>2 DEF WriteOk, SessionFilesIntact
    <3>1. index[i].bid # curId
      BY <1>6, <1>0 DEF WriteOk, IdsFresh, TypeOK
    <3>2. index[i].bid \in DOMAIN files /\ files[index[i].bid] = index[i].data
      BY DEF SessionFilesIntact
    <3> QED BY <3>1, <3>2, <2>2
  <2> QED BY <1>6, <2>1, <2>2, <2>3, <2>4
          DEF WriteOk, TypeOK, DrainPcs, QueueTypeOK, OwnerPcs, IdsFresh, Written
<1>7. CASE WriteFail
  <2>1. curId \in Nat \ {0}
    BY <1>7 DEF WriteFail, IdsFresh, TypeOK
  <2>2. \/ UNCHANGED files
        \/ /\ DOMAIN files' = DOMAIN files \cup {curId}
           /\ files'[curId] = <<>>
           /\ \A k \in DOMAIN files : k # curId => files'[k] = files[k]
    BY <1>7, WriteFileFacts DEF WriteFail
  <2>3. StoreTypeOK'
    BY <1>7, <2>1, <2>2, EmptySeq DEF WriteFail, TypeOK, StoreTypeOK, Batch
  <2>4. SessionFilesIntact'
    BY <1>7, <2>2, <1>0 DEF WriteFail, IdsFresh, SessionFilesIntact, TypeOK
  <2> QED BY <1>7, <2>3, <2>4
          DEF WriteFail, TypeOK, DrainPcs, QueueTypeOK, OwnerPcs, IdsFresh, Written
<1>8. CASE InsertOk
  <2> DEFINE row == [bid |-> curId, data |-> batch, count |-> 0]
  <2>1. curId \in Nat \ {0} /\ curId = counter /\ curId \in DOMAIN files
        /\ files[curId] = batch
    BY <1>8 DEF InsertOk, IdsFresh, Written, TypeOK
  <2>2. row \in Row
    BY <2>1 DEF TypeOK, Row, Batch
  <2>3. /\ index' = Append(index, row)
        /\ UNCHANGED <<counter, files, sessionStart>>
    BY <1>8 DEF InsertOk, InsertRow
  <2> HIDE DEF row
  <2>4. /\ index' \in Seq(Row)
        /\ Len(index') = Len(index) + 1
        /\ \A i \in 1 .. Len(index) : index'[i] = index[i]
        /\ index'[Len(index) + 1] = row
    BY <2>2, <2>3, AppendProperties DEF TypeOK, StoreTypeOK
  <2>5. StoreTypeOK'
    BY <2>3, <2>4 DEF TypeOK, StoreTypeOK
  <2>6. IdsFresh'
    <3>1. drainPc' = Drain
      BY <1>8 DEF InsertOk
    <3>2. row.bid = counter
      BY <2>1 DEF row
    <3>3. sessionStart' <= Len(index')
      BY <2>3, <2>4, <1>0 DEF IdsFresh, TypeOK
    <3>4. ASSUME NEW i \in sessionStart' + 1 .. Len(index')
          PROVE  index'[i].bid <= counter'
      <4>1. CASE i \in 1 .. Len(index)
        BY <2>3, <2>4, <4>1, <1>0 DEF IdsFresh, TypeOK
      <4>2. CASE i = Len(index) + 1
        BY <2>3, <2>4, <3>2, <4>2 DEF TypeOK, StoreTypeOK
      <4> QED BY <4>1, <4>2, <2>3, <2>4, <1>0 DEF TypeOK
    <3> QED BY <3>1, <3>3, <3>4 DEF IdsFresh
  <2>7. SessionFilesIntact'
    <3>1. row.bid \in DOMAIN files /\ files[row.bid] = row.data
      BY <2>1 DEF row
    <3> QED BY <2>3, <2>4, <3>1, <1>0 DEF IdsFresh, SessionFilesIntact, TypeOK
  <2>8. batch' \in Seq(Events)
    BY <1>8, EmptySeq DEF InsertOk
  <2> QED BY <1>8, <2>5, <2>6, <2>7, <2>8
          DEF InsertOk, TypeOK, DrainPcs, QueueTypeOK, OwnerPcs, Written
<1>9. CASE ShutdownAbort
  <2>1. \/ UNCHANGED files
        \/ /\ drainPc = Write
           /\ DOMAIN files' = DOMAIN files \cup {curId}
           /\ files'[curId] = batch
           /\ \A k \in DOMAIN files : k # curId => files'[k] = files[k]
    BY <1>9, WriteFileFacts DEF ShutdownAbort
  <2>2. drainPc = Write => curId \in Nat \ {0}
    BY DEF IdsFresh, TypeOK
  <2>3. StoreTypeOK'
    BY <1>9, <2>1, <2>2 DEF ShutdownAbort, TypeOK, StoreTypeOK, Batch
  <2>4. SessionFilesIntact'
    BY <1>9, <2>1, <1>0 DEF ShutdownAbort, IdsFresh, SessionFilesIntact, TypeOK
  <2>5. batch' \in Seq(Events)
    BY <1>9, EmptySeq DEF ShutdownAbort
  <2> QED BY <1>9, <2>3, <2>4, <2>5
          DEF ShutdownAbort, TypeOK, DrainPcs, QueueTypeOK, OwnerPcs, IdsFresh, Written
<1>10. CASE Restart
  <2>1. \/ UNCHANGED files
        \/ /\ drainPc = Write
           /\ DOMAIN files' = DOMAIN files \cup {curId}
           /\ files'[curId] = <<>>
           /\ \A k \in DOMAIN files : k # curId => files'[k] = files[k]
    BY <1>10 DEF Restart
  <2>2. drainPc = Write => curId \in Nat \ {0}
    BY DEF IdsFresh, TypeOK
  <2>3. StoreTypeOK'
    BY <1>10, <2>1, <2>2, EmptySeq DEF Restart, TypeOK, StoreTypeOK, Batch
  <2>4. QueueTypeOK'
    BY <1>10, EmptySeq, QueueCapAssumption DEF Restart, QueueTypeOK
  <2>5. batch' \in Seq(Events) /\ accepted' \in Seq(Events)
    BY <1>10, EmptySeq DEF Restart
  <2>7. restarts' \in 0 .. MaxRestarts
    BY <1>10, BoundsAssumption DEF Restart, TypeOK
  <2>6. sessionStart' = Len(index') /\ drainPc' = Unstarted
    BY <1>10 DEF Restart
  <2>8. TypeOK'
    BY <1>10, <2>3, <2>4, <2>5, <2>7, <1>0
    DEF Restart, TypeOK, DrainPcs, OwnerPcs
  <2>9. IdsFresh' /\ Written' /\ SessionFilesIntact'
    BY <1>10, <2>6, <1>0 DEF Restart, IdsFresh, Written, SessionFilesIntact
  <2> QED BY <2>8, <2>9
<1>11. CASE UNCHANGED vars
  BY <1>11 DEF vars, queueVars, storeVars, recVars, TypeOK, QueueTypeOK,
               StoreTypeOK, IdsFresh, Written, SessionFilesIntact
<1>12. CASE ShutdownNoTask
  BY <1>12 DEF ShutdownNoTask, queueVars, storeVars, TypeOK, QueueTypeOK,
               StoreTypeOK, OwnerPcs, IdsFresh, Written, SessionFilesIntact
<1> QED BY <1>1, <1>2, <1>3, <1>4, <1>5, <1>6, <1>7, <1>8, <1>9, <1>10, <1>11,
           <1>12 DEF Next

-----------------------------------------------------------------------------
(* The batches of the rows after the first ss, in insertion order; those  *)
(* of the rows this process inserted.                                      *)
DataOf(ix, ss) == [i \in 1 .. Len(ix) - ss |-> ix[ss + i].data]

SessionData == DataOf(index, sessionStart)

(* StreamIntegrity made inductive: it is stated of the indexed batches     *)
(* rather than of what the files hold (the two agree by                    *)
(* SessionFilesIntact), and the drain task is stopped or was never started *)
(* whenever shutdown() has returned, so that nothing moves events once the *)
(* owner is done.                                                          *)
StreamInv ==
  /\ ownerPc = "done" => drainPc \in {Stopped, Unstarted}
  /\ IsPrefix(FlattenSeq(SessionData), accepted)
  /\ ownerPc # "done" => FlattenSeq(SessionData) \o batch \o queue = accepted

(* The batches of the rows after the first ss form a sequence with one    *)
(* batch per row.                                                          *)
LEMMA DataOfType ==
  ASSUME NEW ix \in Seq(Row), NEW ss \in 0 .. Len(ix)
  PROVE  /\ Len(ix) - ss \in Nat
         /\ DataOf(ix, ss) \in Seq(Seq(Events))
         /\ Len(DataOf(ix, ss)) = Len(ix) - ss
<1>1. Len(ix) - ss \in Nat /\ Len(ix) \in Nat
  BY LenProperties
<1>2. \A i \in 1 .. Len(ix) - ss : ix[ss + i].data \in Seq(Events)
  <2> SUFFICES ASSUME NEW i \in 1 .. Len(ix) - ss
               PROVE  ix[ss + i].data \in Seq(Events)
    OBVIOUS
  <2>1. ss + i \in 1 .. Len(ix)
    BY <1>1
  <2>2. ix[ss + i] \in Row
    BY <2>1, ElementOfSeq
  <2> QED BY <2>2 DEF Row, Batch
<1>3. DataOf(ix, ss) \in Seq(Seq(Events))
  BY <1>1, <1>2, IsASeq DEF DataOf
<1>4. DOMAIN DataOf(ix, ss) = 1 .. Len(DataOf(ix, ss))
      /\ Len(DataOf(ix, ss)) \in Nat
  BY <1>3, LenProperties
<1> QED BY <1>1, <1>3, <1>4 DEF DataOf

(* DataOfType as a single formula, to be cited inside other proofs.       *)
LEMMA DataOfTypeAll ==
  \A ix \in Seq(Row) : \A ss \in 0 .. Len(ix) :
    /\ Len(ix) - ss \in Nat
    /\ DataOf(ix, ss) \in Seq(Seq(Events))
    /\ Len(DataOf(ix, ss)) = Len(ix) - ss
BY DataOfType

(* INSERT of a row appends its batch to the batches of the rows after ss.  *)
LEMMA DataOfAppend ==
  ASSUME NEW ix \in Seq(Row), NEW ss \in 0 .. Len(ix), NEW r \in Row
  PROVE  DataOf(Append(ix, r), ss) = Append(DataOf(ix, ss), r.data)
<1>1. /\ Append(ix, r) \in Seq(Row)
      /\ Len(Append(ix, r)) = Len(ix) + 1
      /\ \A i \in 1 .. Len(ix) : Append(ix, r)[i] = ix[i]
      /\ Append(ix, r)[Len(ix) + 1] = r
  BY AppendProperties
<1>2. ss \in 0 .. Len(Append(ix, r)) /\ Len(ix) \in Nat
  BY <1>1, LenProperties
<1>3. /\ DataOf(Append(ix, r), ss) \in Seq(Seq(Events))
      /\ Len(DataOf(Append(ix, r), ss)) = Len(ix) + 1 - ss
  <2>1. /\ DataOf(Append(ix, r), ss) \in Seq(Seq(Events))
        /\ Len(DataOf(Append(ix, r), ss)) = Len(Append(ix, r)) - ss
    BY <1>1, <1>2, DataOfTypeAll, Zenon
  <2> QED BY <2>1, <1>1
<1>4. /\ DataOf(ix, ss) \in Seq(Seq(Events))
      /\ Len(DataOf(ix, ss)) = Len(ix) - ss
  BY DataOfTypeAll
<1>5. r.data \in Seq(Events)
  BY DEF Row, Batch
<1>6. /\ Append(DataOf(ix, ss), r.data) \in Seq(Seq(Events))
      /\ Len(Append(DataOf(ix, ss), r.data)) = Len(ix) - ss + 1
      /\ \A i \in 1 .. Len(ix) - ss :
            Append(DataOf(ix, ss), r.data)[i] = DataOf(ix, ss)[i]
      /\ Append(DataOf(ix, ss), r.data)[Len(ix) - ss + 1] = r.data
  BY <1>4, <1>5, AppendProperties
<1>7. \A i \in 1 .. Len(ix) + 1 - ss :
        DataOf(Append(ix, r), ss)[i] = Append(DataOf(ix, ss), r.data)[i]
  <2> SUFFICES ASSUME NEW i \in 1 .. Len(ix) + 1 - ss
               PROVE  DataOf(Append(ix, r), ss)[i]
                        = Append(DataOf(ix, ss), r.data)[i]
    OBVIOUS
  <2>1. DataOf(Append(ix, r), ss)[i] = Append(ix, r)[ss + i].data
    BY <1>1, <1>2 DEF DataOf
  <2>2. CASE i <= Len(ix) - ss
    BY <1>1, <1>2, <1>6, <2>1, <2>2 DEF DataOf
  <2>3. CASE i = Len(ix) - ss + 1
    <3>1. ss + i = Len(ix) + 1
      BY <1>2, <2>3
    <3>2. Append(ix, r)[ss + i] = r
      BY <1>1, <3>1
    <3> QED BY <1>6, <2>1, <2>3, <3>2
  <2>4. ss \in Nat /\ i \in Nat /\ Len(ix) \in Nat
    BY <1>2
  <2>5. i <= Len(ix) - ss \/ i = Len(ix) - ss + 1
    BY <2>4
  <2> QED BY <2>5, <2>2, <2>3
<1>8. Len(DataOf(Append(ix, r), ss)) = Len(Append(DataOf(ix, ss), r.data))
  BY <1>2, <1>3, <1>6
<1>9. \A i \in 1 .. Len(DataOf(Append(ix, r), ss)) :
        DataOf(Append(ix, r), ss)[i] = Append(DataOf(ix, ss), r.data)[i]
  BY <1>3, <1>7
<1> QED BY <1>3, <1>6, <1>8, <1>9, SeqEqual

(* Reading back the files of this process's rows returns the concatenation *)
(* of the batches the rows were inserted for.                              *)
LEMMA StreamIsData == RecInv => SessionStream = FlattenSeq(SessionData)
<1> SUFFICES ASSUME RecInv PROVE SessionStream = FlattenSeq(SessionData)
  OBVIOUS
<1> DEFINE rows == SubSeq(index, sessionStart + 1, Len(index))
<1>1. Len(index) - sessionStart \in Nat /\ sessionStart \in Nat
  BY IndexRows DEF RecInv, IdsFresh, TypeOK
<1>2. /\ DOMAIN rows = 1 .. Len(index) - sessionStart
      /\ \A i \in DOMAIN rows : rows[i] = index[sessionStart + i]
  BY <1>1
<1>3. \A i \in 1 .. Len(index) - sessionStart :
        /\ index[sessionStart + i].bid \in DOMAIN files
        /\ files[index[sessionStart + i].bid] = index[sessionStart + i].data
  <2> SUFFICES ASSUME NEW i \in 1 .. Len(index) - sessionStart
               PROVE  /\ index[sessionStart + i].bid \in DOMAIN files
                      /\ files[index[sessionStart + i].bid]
                           = index[sessionStart + i].data
    OBVIOUS
  <2>1. sessionStart + i \in sessionStart + 1 .. Len(index)
    BY <1>1
  <2> QED BY <2>1 DEF RecInv, SessionFilesIntact
<1>4. [i \in DOMAIN rows |-> IF rows[i].bid \in DOMAIN files
                             THEN files[rows[i].bid] ELSE << >>]
      = SessionData
  BY <1>2, <1>3 DEF SessionData, DataOf
<1> QED BY <1>4 DEF SessionStream, StreamOf

LEMMA InitStreamInv == Init => StreamInv
<1> SUFFICES ASSUME Init PROVE StreamInv
  OBVIOUS
<1>1. Len(index) = 0 /\ sessionStart = 0 /\ index \in Seq(Row)
  BY EmptySeq DEF Init, StoreInit
<1>2. SessionData \in Seq(Seq(Events)) /\ Len(SessionData) = 0
  <2>1. sessionStart \in 0 .. Len(index)
    BY <1>1
  <2>2. /\ DataOf(index, sessionStart) \in Seq(Seq(Events))
        /\ Len(DataOf(index, sessionStart)) = Len(index) - sessionStart
    BY <1>1, <2>1, DataOfTypeAll, Zenon
  <2> QED BY <1>1, <2>2 DEF SessionData
<1>3. FlattenSeq(SessionData) = << >>
  BY <1>2, FlattenEmpty
<1>4. << >> \o << >> \o << >> = << >> /\ << >> \in Seq(Events)
  BY EmptySeq, ConcatEmptySeq
<1>5. IsPrefix(<< >>, << >>)
  <2>1. IsPrefix(<< >>, << >> \o << >> \o << >>)
    BY <1>4, PrefixConcat3
  <2> QED BY <1>4, <2>1
<1> QED BY <1>3, <1>4, <1>5 DEF Init, QueueInit, StreamInv

LEMMA NextStreamInv == RecInv /\ RecInv' /\ StreamInv /\ [Next]_vars => StreamInv'
<1> SUFFICES ASSUME RecInv, RecInv', StreamInv, [Next]_vars PROVE StreamInv'
  OBVIOUS
<1>1. /\ index \in Seq(Row) /\ sessionStart \in 0 .. Len(index)
      /\ index' \in Seq(Row) /\ sessionStart' \in 0 .. Len(index')
  BY IndexRows DEF RecInv, TypeOK, StoreTypeOK, IdsFresh
<1>2. /\ SessionData \in Seq(Seq(Events))
      /\ SessionData' \in Seq(Seq(Events))
      /\ Len(SessionData') = Len(index') - sessionStart'
  BY <1>1, DataOfTypeAll DEF SessionData
<1>3. FlattenSeq(SessionData) \in Seq(Events)
      /\ FlattenSeq(SessionData') \in Seq(Events)
  BY <1>2, FlattenType
<1>4. /\ batch \in Seq(Events) /\ queue \in Seq(Events) /\ accepted \in Seq(Events)
      /\ batch' \in Seq(Events) /\ queue' \in Seq(Events)
      /\ accepted' \in Seq(Events)
  BY DEF RecInv, TypeOK, QueueTypeOK
<1>5. ASSUME ownerPc' # "done",
             FlattenSeq(SessionData') \o batch' \o queue' = accepted'
      PROVE  StreamInv'
  BY <1>3, <1>4, <1>5, PrefixConcat3 DEF StreamInv
<1>6. ownerPc = "done" => drainPc \in {Stopped, Unstarted}
  BY DEF StreamInv
<1>7. CASE Start \/ FlushCall \/ ShutdownNotify \/ Tick \/ Notified
           \/ DrainEmpty \/ Compress \/ CompressFail \/ AllocBatchId
           \/ WriteOk \/ WriteFail \/ InsertFail
  <2>1. ownerPc # "done" /\ ownerPc' # "done"
    BY <1>6, <1>7 DEF Start, FlushCall, ShutdownNotify, Tick, Notified,
                      DrainEmpty, Compress, CompressFail, AllocBatchId,
                      WriteOk, WriteFail, InsertFail
  <2>2. UNCHANGED <<index, sessionStart, batch, queue, accepted>>
    BY <1>7 DEF Start, FlushCall, ShutdownNotify, Tick, Notified,
                DrainEmpty, Compress, CompressFail, AllocBatchId, AllocateId,
                WriteOk, WriteFile, WriteFail, InsertFail
  <2>3. SessionData' = SessionData
    BY <2>2 DEF SessionData
  <2> QED BY <1>5, <2>1, <2>2, <2>3 DEF StreamInv
<1>8. CASE \E e \in Events : Record(e)
  <2> PICK e \in Events : Record(e)
    BY <1>8
  <2>1. ownerPc = "running" /\ ownerPc' = "running"
        /\ UNCHANGED <<index, sessionStart, batch>>
    BY DEF Record
  <2>2. SessionData' = SessionData
    BY <2>1 DEF SessionData
  <2>3. CASE QueuePush(e) /\ accepted' = Append(accepted, e)
    <3>1. queue' = Append(queue, e)
      BY <2>3 DEF QueuePush
    <3>2. FlattenSeq(SessionData) \o batch \o Append(queue, e)
            = Append(FlattenSeq(SessionData) \o batch \o queue, e)
      BY <1>3, <1>4, PushEvent
    <3> QED BY <1>5, <2>1, <2>2, <2>3, <3>1, <3>2 DEF StreamInv
  <2>4. CASE QueueDrop(e) /\ UNCHANGED accepted
    BY <1>5, <2>1, <2>2, <2>4 DEF QueueDrop, StreamInv
  <2> QED BY <2>3, <2>4 DEF Record
<1>9. CASE DrainPop
  <2>1. ownerPc # "done" /\ ownerPc' = ownerPc
        /\ UNCHANGED <<index, sessionStart, accepted>>
        /\ queue # << >> /\ queue' = Tail(queue)
        /\ batch' = Append(batch, Head(queue))
    BY <1>6, <1>9 DEF DrainPop, QueuePop
  <2>2. SessionData' = SessionData
    BY <2>1 DEF SessionData
  <2>3. FlattenSeq(SessionData) \o Append(batch, Head(queue)) \o Tail(queue)
          = FlattenSeq(SessionData) \o batch \o queue
    BY <1>3, <1>4, <2>1, PopEvent
  <2> QED BY <1>5, <2>1, <2>2, <2>3 DEF StreamInv
<1>10. CASE InsertOk
  <2> DEFINE row == [bid |-> curId, data |-> batch, count |-> 0]
  <2>1. ownerPc # "done" /\ ownerPc' = ownerPc
        /\ UNCHANGED <<sessionStart, queue, accepted>>
        /\ index' = Append(index, row) /\ batch' = << >>
    BY <1>6, <1>10 DEF InsertOk, InsertRow
  <2>2. row \in Row
    BY <1>4 DEF RecInv, TypeOK, Row, Batch
  <2> HIDE DEF row
  <2>3. SessionData' = Append(SessionData, batch)
    <3>1. DataOf(Append(index, row), sessionStart)
            = Append(DataOf(index, sessionStart), row.data)
      BY <1>1, <2>2, DataOfAppend
    <3>2. row.data = batch
      BY DEF row
    <3> QED BY <2>1, <3>1, <3>2 DEF SessionData
  <2>4. FlattenSeq(Append(SessionData, batch))
          = FlattenSeq(SessionData) \o batch
    BY <1>2, <1>4, FlattenAppend
  <2>5. FlattenSeq(SessionData) \o batch \in Seq(Events)
    BY <1>3, <1>4, ConcatProperties
  <2>6. FlattenSeq(SessionData) \o batch \o << >> = FlattenSeq(SessionData) \o batch
    BY <2>5, ConcatEmptySeq
  <2> QED BY <1>5, <2>1, <2>3, <2>4, <2>6 DEF StreamInv
<1>11. CASE ShutdownAbort
  <2>1. ownerPc = "flushing" /\ ownerPc' = "done" /\ drainPc' = Stopped
        /\ UNCHANGED <<index, sessionStart, queue, accepted>>
    BY <1>11 DEF ShutdownAbort
  <2>2. SessionData' = SessionData
    BY <2>1 DEF SessionData
  <2>3. FlattenSeq(SessionData) \o batch \o queue = accepted
    BY <2>1 DEF StreamInv
  <2>4. IsPrefix(FlattenSeq(SessionData), accepted)
    BY <1>3, <1>4, <2>3, PrefixConcat3
  <2> QED BY <2>1, <2>2, <2>4 DEF StreamInv
<1>14. CASE ShutdownNoTask
  <2>1. ownerPc = "flushing" /\ ownerPc' = "done" /\ drainPc' = Unstarted
        /\ UNCHANGED <<index, sessionStart, batch, queue, accepted>>
    BY <1>14 DEF ShutdownNoTask, queueVars, storeVars
  <2>2. SessionData' = SessionData
    BY <2>1 DEF SessionData
  <2>3. FlattenSeq(SessionData) \o batch \o queue = accepted
    BY <2>1 DEF StreamInv
  <2>4. IsPrefix(FlattenSeq(SessionData), accepted)
    BY <1>3, <1>4, <2>3, PrefixConcat3
  <2> QED BY <2>1, <2>2, <2>4 DEF StreamInv
<1>12. CASE Restart
  <2>1. ownerPc' = "running" /\ sessionStart' = Len(index')
        /\ batch' = << >> /\ queue' = << >> /\ accepted' = << >>
    BY <1>12 DEF Restart
  <2>2. Len(SessionData') = 0
    BY <1>1, <1>2, <2>1
  <2>3. FlattenSeq(SessionData') = << >>
    BY <1>2, <2>2, FlattenEmpty
  <2>4. << >> \o << >> \o << >> = << >>
    BY EmptySeq, ConcatEmptySeq
  <2> QED BY <1>5, <2>1, <2>3, <2>4
<1>13. CASE UNCHANGED vars
  <2>1. UNCHANGED <<index, sessionStart, batch, queue, accepted, ownerPc, drainPc>>
    BY <1>13 DEF vars, recVars
  <2>2. SessionData' = SessionData
    BY <2>1 DEF SessionData
  <2> QED BY <2>1, <2>2 DEF StreamInv
<1> QED BY <1>7, <1>8, <1>9, <1>10, <1>11, <1>12, <1>13, <1>14 DEF Next

(* For every set of events, queue capacity, batch size and number of       *)
(* storage failures and crashes, the recorder's state stays well typed: in *)
(* particular every batch file has a non-zero id, also the one a crash     *)
(* truncates in the middle of fs::write.                                   *)
THEOREM RecorderTypeCorrect == Spec => []TypeOK
<1>1. RecInv => TypeOK
  BY DEF RecInv
<1> QED BY <1>1, InitRecInv, NextRecInv, PTL DEF Spec

(* For the same parameters, every event_batches row this process inserted *)
(* names a file holding exactly the batch it was inserted for, whatever    *)
(* compression, fs::write or the INSERT failed, whatever retry followed    *)
(* and whether shutdown() aborted the drain task in the middle of a write. *)
THEOREM SessionFilesKept == Spec => []SessionFilesIntact
<1>1. RecInv => SessionFilesIntact
  BY DEF RecInv
<1> QED BY <1>1, InitRecInv, NextRecInv, PTL DEF Spec

(* For the same parameters, spec 7's ordering: reading back the batches   *)
(* this process indexed returns a prefix of the events record() accepted,  *)
(* in push order, and until shutdown() returns those batches, the drain    *)
(* task's batch and the queue hold exactly the accepted events: no failure *)
(* of compression, fs::write or the INSERT, no retry of a batch and no     *)
(* abort of the drain task loses, duplicates or reorders an event.         *)
THEOREM StreamIntegrityHolds == Spec => []StreamIntegrity
<1>1. Init => RecInv /\ StreamInv
  BY InitRecInv, InitStreamInv
<1>2. RecInv /\ StreamInv /\ [Next]_vars => (RecInv /\ StreamInv)'
  BY NextRecInv, NextStreamInv
<1>3. RecInv /\ StreamInv => StreamIntegrity
  <2> SUFFICES ASSUME RecInv, StreamInv PROVE StreamIntegrity
    OBVIOUS
  <2>1. SessionStream = FlattenSeq(SessionData)
    BY StreamIsData
  <2> QED BY <2>1 DEF StreamInv, StreamIntegrity
<1> QED BY <1>1, <1>2, <1>3, PTL DEF Spec

=============================================================================
