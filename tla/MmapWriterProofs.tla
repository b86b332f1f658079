------------------------- MODULE MmapWriterProofs --------------------------
(***************************************************************************)
(* Proofs about the memory-mapped writer of recording/mmap_writer.rs, for  *)
(* every initial capacity, every set of byte strings and every number of   *)
(* writes, grows and flushes, and whichever system calls fail:            *)
(*   - WithinMap is an invariant: a store through the mapping never       *)
(*     leaves it, so the slice in `write` cannot panic;                   *)
(*   - the writer implements AppendLog under the mapping Log (the first    *)
(*     `position` bytes of the file).                                      *)
(* Both rest on two facts about the operators the steps are built from:   *)
(* set_len keeps every byte below the new length, and a copy at `position` *)
(* leaves the bytes before it alone and puts the data right after them.    *)
(***************************************************************************)
EXTENDS MmapWriter, SequenceTheorems, TLAPS

(* What the proofs need of the constants: set_len fills with a byte, the  *)
(* strings written are byte strings, and capacities are sizes.            *)
WriterAssumption ==
    /\ Zero \in Bytes
    /\ Data \subseteq Seq(Bytes)
    /\ Capacities \subseteq Nat

(* set_len to n returns a byte string n long that keeps every byte below  *)
(* n, in particular the accepted prefix when it is no longer than n.      *)
LEMMA SetLenKeepsPrefix ==
  ASSUME NEW S, Zero \in S, NEW f \in Seq(S), NEW n \in Nat,
         NEW p \in 0 .. Len(f), p <= n
  PROVE  /\ SetLen(f, n) \in Seq(S)
         /\ Len(SetLen(f, n)) = n
         /\ SubSeq(SetLen(f, n), 1, p) = SubSeq(f, 1, p)
<1>1. SetLen(f, n) \in [1 .. n -> S]
  BY DEF SetLen
<1>2. SetLen(f, n) \in Seq(S) /\ Len(SetLen(f, n)) = n
  BY <1>1
<1>3. SubSeq(SetLen(f, n), 1, p) = SubSeq(f, 1, p)
  BY <1>2 DEF SetLen
<1> QED BY <1>2, <1>3

(* A copy of d at p into a string long enough for it returns a string of  *)
(* the same length whose first p + Len(d) bytes are the first p bytes of  *)
(* the old one followed by d.                                             *)
LEMMA CopyAtAppends ==
  ASSUME NEW S, NEW f \in Seq(S), NEW d \in Seq(S), NEW p \in Nat,
         p + Len(d) <= Len(f)
  PROVE  /\ CopyAt(f, p, d) \in Seq(S)
         /\ Len(CopyAt(f, p, d)) = Len(f)
         /\ SubSeq(CopyAt(f, p, d), 1, p + Len(d)) = SubSeq(f, 1, p) \o d
<1>1. CopyAt(f, p, d) \in [1 .. Len(f) -> S]
  BY DEF CopyAt
<1>2. CopyAt(f, p, d) \in Seq(S) /\ Len(CopyAt(f, p, d)) = Len(f)
  BY <1>1
<1>3. SubSeq(CopyAt(f, p, d), 1, p + Len(d)) = SubSeq(f, 1, p) \o d
  BY <1>2 DEF CopyAt
<1> QED BY <1>2, <1>3

IInv == TypeOK /\ WithinMap

(* The new capacity of a grow fits the data that did not fit: capacity +  *)
(* max(len, capacity) is at least position + len when position is at most *)
(* capacity.                                                               *)
LEMMA GrowRoom ==
  ASSUME IInv, NEW d \in Seq(Bytes)
  PROVE  /\ NewCapacity(Len(d)) \in Nat
         /\ capacity <= NewCapacity(Len(d))
         /\ position + Len(d) <= NewCapacity(Len(d))
BY DEF IInv, TypeOK, WithinMap, NewCapacity

LEMMA InitIInv == WriterAssumption /\ Init => IInv
<1> SUFFICES ASSUME WriterAssumption, Init PROVE IInv
  OBVIOUS
<1>1. capacity \in Nat /\ file \in [1 .. capacity -> Bytes]
  BY DEF Init, WriterAssumption
<1>2. file \in Seq(Bytes) /\ Len(file) = capacity
  BY <1>1
<1> QED BY <1>1, <1>2 DEF Init, IInv, TypeOK, WithinMap, Results

LEMMA NextIInv == WriterAssumption /\ IInv /\ [Next]_vars => IInv'
<1> SUFFICES ASSUME WriterAssumption, IInv, [Next]_vars PROVE IInv'
  OBVIOUS
<1>0. /\ file \in Seq(Bytes) /\ position \in Nat /\ capacity \in Nat
      /\ synced \in Nat /\ position <= capacity /\ capacity <= Len(file)
      /\ mapped => Len(file) = capacity /\ synced <= position
  BY DEF IInv, TypeOK, WithinMap
<1>1. ASSUME NEW d \in Data, WriteInPlace(d) PROVE IInv'
  <2>1. d \in Seq(Bytes) /\ position + Len(d) <= Len(file)
    BY <1>0, <1>1 DEF WriterAssumption, WriteInPlace, Fits
  <2>2. file' \in Seq(Bytes) /\ Len(file') = Len(file)
    BY <1>1, <2>1, <1>0, CopyAtAppends DEF WriteInPlace
  <2> QED BY <1>0, <1>1, <2>1, <2>2
          DEF WriteInPlace, Fits, IInv, TypeOK, WithinMap, Results
<1>2. ASSUME NEW d \in Data, WriteNoMap(d) PROVE IInv'
  BY <1>0, <1>2 DEF WriteNoMap, IInv, TypeOK, WithinMap, Results
<1>3. ASSUME NEW d \in Data, GrowSetLenFails(d) PROVE IInv'
  <2>1. /\ mapped' = FALSE /\ result' = "grow_failed"
        /\ file' = file /\ position' = position /\ capacity' = capacity
        /\ synced' = synced
    BY <1>3 DEF GrowSetLenFails
  <2> QED BY <1>0, <2>1 DEF IInv, TypeOK, WithinMap, Results
<1>4. ASSUME NEW d \in Data, GrowRemapFails(d) PROVE IInv'
  <2>1. d \in Seq(Bytes)
    BY DEF WriterAssumption
  <2>2. /\ NewCapacity(Len(d)) \in Nat
        /\ capacity <= NewCapacity(Len(d))
    BY <2>1, GrowRoom
  <2>3. file' \in Seq(Bytes) /\ Len(file') = NewCapacity(Len(d))
    BY <1>0, <1>4, <2>2, SetLenKeepsPrefix DEF WriterAssumption, GrowRemapFails
  <2>4. /\ mapped' = FALSE /\ result' = "grow_failed"
        /\ position' = position /\ capacity' = capacity /\ synced' = synced
    BY <1>4 DEF GrowRemapFails
  <2> QED BY <1>0, <2>2, <2>3, <2>4 DEF IInv, TypeOK, WithinMap, Results
<1>5. ASSUME NEW d \in Data, WriteGrown(d) PROVE IInv'
  <2>1. d \in Seq(Bytes)
    BY DEF WriterAssumption
  <2> DEFINE nc == NewCapacity(Len(d))
  <2> DEFINE g == SetLen(file, nc)
  <2>2. nc \in Nat /\ capacity <= nc /\ position + Len(d) <= nc
    BY <2>1, GrowRoom
  <2>3. g \in Seq(Bytes) /\ Len(g) = nc
    BY <1>0, <2>2, SetLenKeepsPrefix DEF WriterAssumption
  <2>4. CopyAt(g, position, d) \in Seq(Bytes) /\ Len(CopyAt(g, position, d)) = nc
    <3>1. position + Len(d) <= Len(g)
      BY <2>2, <2>3
    <3> QED BY <1>0, <2>1, <2>3, <3>1, CopyAtAppends
  <2>5. file' = CopyAt(g, position, d)
    BY <1>5 DEF WriteGrown
  <2> QED BY <1>0, <1>5, <2>2, <2>4, <2>5
          DEF WriteGrown, IInv, TypeOK, WithinMap, Results
<1>6. CASE Flush
  BY <1>0, <1>6 DEF Flush, IInv, TypeOK, WithinMap, Results
<1>7. CASE UNCHANGED vars
  BY <1>0, <1>7 DEF vars, IInv, TypeOK, WithinMap
<1> QED BY <1>1, <1>2, <1>3, <1>4, <1>5, <1>6, <1>7 DEF Next, Write

(* THEOREM: whatever the initial capacity and however the writes, grows   *)
(* and flushes interleave with failing set_len, map_mut, flush or         *)
(* sync_all calls, a store through the mapping in `write` stays inside    *)
(* it and `position` never passes `capacity`.                              *)
THEOREM WriterWithinMap == WriterAssumption => (Spec => []WithinMap)
<1> SUFFICES ASSUME WriterAssumption PROVE Spec => []WithinMap
  OBVIOUS
<1>1. Init => IInv
  BY InitIInv
<1>2. IInv /\ [Next]_vars => IInv'
  BY NextIInv
<1>3. IInv => WithinMap
  BY DEF IInv
<1> QED BY <1>1, <1>2, <1>3, PTL DEF Spec

(* Each step of the writer is a step of the log or leaves it alone.        *)
LEMMA NextRefines ==
  WriterAssumption /\ IInv /\ [Next]_vars => [AL!Next]_Log
<1> SUFFICES ASSUME WriterAssumption, IInv, [Next]_vars PROVE [AL!Next]_Log
  OBVIOUS
<1>0. /\ file \in Seq(Bytes) /\ position \in Nat /\ capacity \in Nat
      /\ position <= capacity /\ capacity <= Len(file)
      /\ mapped => Len(file) = capacity
      /\ position \in 0 .. Len(file) /\ Zero \in Bytes
  BY DEF IInv, TypeOK, WithinMap, WriterAssumption
<1>1. ASSUME NEW d \in Data, WriteInPlace(d) PROVE Log' = Log \o d
  <2>1. d \in Seq(Bytes) /\ position + Len(d) <= Len(file)
    BY <1>0, <1>1 DEF WriterAssumption, WriteInPlace, Fits
  <2>2. SubSeq(CopyAt(file, position, d), 1, position + Len(d))
          = SubSeq(file, 1, position) \o d
    BY <1>0, <2>1, CopyAtAppends
  <2> QED BY <1>1, <2>2 DEF WriteInPlace, Log
<1>2. ASSUME NEW d \in Data, GrowRemapFails(d) PROVE Log' = Log
  <2>1. d \in Seq(Bytes)
    BY DEF WriterAssumption
  <2>2. NewCapacity(Len(d)) \in Nat /\ position <= NewCapacity(Len(d))
    BY <1>0, <2>1, GrowRoom
  <2>3. SubSeq(SetLen(file, NewCapacity(Len(d))), 1, position)
          = SubSeq(file, 1, position)
    BY <1>0, <2>2, SetLenKeepsPrefix DEF WriterAssumption
  <2> QED BY <1>2, <2>3 DEF GrowRemapFails, Log
<1>3. ASSUME NEW d \in Data, WriteGrown(d) PROVE Log' = Log \o d
  <2>1. d \in Seq(Bytes)
    BY DEF WriterAssumption
  <2> DEFINE nc == NewCapacity(Len(d))
  <2> DEFINE g == SetLen(file, nc)
  <2>2. nc \in Nat /\ position + Len(d) <= nc /\ position <= nc
    <3>1. nc \in Nat /\ position + Len(d) <= nc
      BY <2>1, GrowRoom
    <3> QED BY <1>0, <2>1, <3>1
  <2>3. g \in Seq(Bytes) /\ Len(g) = nc /\ SubSeq(g, 1, position) = Log
    BY <1>0, <2>2, SetLenKeepsPrefix DEF WriterAssumption, Log
  <2>4. SubSeq(CopyAt(g, position, d), 1, position + Len(d))
          = SubSeq(g, 1, position) \o d
    BY <1>0, <2>1, <2>2, <2>3, CopyAtAppends
  <2>5. file' = CopyAt(g, position, d) /\ position' = position + Len(d)
    BY <1>3 DEF WriteGrown
  <2> QED BY <2>3, <2>4, <2>5 DEF Log
<1>4. CASE \/ \E d \in Data : WriteNoMap(d) \/ GrowSetLenFails(d)
           \/ Flush \/ UNCHANGED vars
  <2>1. file' = file /\ position' = position
    BY <1>4 DEF WriteNoMap, GrowSetLenFails, Flush, vars
  <2> QED BY <2>1 DEF Log
<1> QED BY <1>1, <1>2, <1>3, <1>4 DEF Next, Write, AL!Next, AL!Accept

(* THEOREM: the writer implements an append-only log.  Under the mapping  *)
(* "the accepted bytes are the first `position` bytes of the file", every *)
(* write that returns Ok appends its data, and nothing else the writer    *)
(* does (a failed grow that left the file longer, a later set_len that    *)
(* shortens it again, a write refused for want of a mapping, a flush)     *)
(* changes a byte already accepted.                                        *)
THEOREM WriterRefinesLog == WriterAssumption => (Spec => AppendOnly)
<1> SUFFICES ASSUME WriterAssumption PROVE Spec => AL!Spec
  BY DEF AppendOnly
<1>1. Init => AL!Init
  <2> SUFFICES ASSUME Init PROVE SubSeq(file, 1, 0) = <<>>
    BY DEF AL!Init, Log, Init
  <2> QED BY InitIInv DEF IInv, TypeOK
<1>2. IInv /\ [Next]_vars => IInv'
  BY NextIInv
<1>3. IInv /\ [Next]_vars => [AL!Next]_Log
  BY NextRefines
<1>4. Init => IInv
  BY InitIInv
<1> QED BY <1>1, <1>2, <1>3, <1>4, PTL DEF Spec, AL!Spec

=============================================================================
