----------------------------- MODULE MmapWriter -----------------------------
(***************************************************************************)
(* The memory-mapped file writer of recording/mmap_writer.rs.             *)
(*                                                                         *)
(* The file is a sequence of bytes.  While `mmap` is Some the mapping      *)
(* covers the whole file (it is made right after set_len), and a store    *)
(* through it is a store into the file (MAP_SHARED).  `write` copies the   *)
(* data at `position` and advances it; when the data does not fit, `grow`  *)
(* first drops the mapping, extends the file with set_len and maps it      *)
(* again, and either system call may fail.  Byte values and the written    *)
(* strings come from small sets; the widths of usize are not modelled      *)
(* (capacity doubles, so it would take 2^63 bytes to wrap).                *)
(***************************************************************************)
EXTENDS Naturals, Sequences

CONSTANTS
    Bytes,        \* byte values
    Zero,         \* the byte set_len fills a longer file with
    Data,         \* the byte strings a caller may write
    Capacities    \* the capacities `new` may be called with

VARIABLES
    file,         \* the file's contents (its length is the file's length)
    position,     \* self.position
    capacity,     \* self.capacity
    mapped,       \* self.mmap.is_some()
    synced,       \* position at the last flush that returned Ok
    result        \* what the last call returned

vars == <<file, position, capacity, mapped, synced, result>>

Results == {"ok", "grow_failed", "no_map", "flush_failed"}

(* File::set_len: truncate, or extend with zero bytes.                     *)
SetLen(f, n) == [i \in 1 .. n |-> IF i <= Len(f) THEN f[i] ELSE Zero]

(* mmap[p..p + len].copy_from_slice(d) on a mapping of the whole file.    *)
CopyAt(f, p, d) ==
    [i \in 1 .. Len(f) |-> IF p < i /\ i <= p + Len(d) THEN d[i - p] ELSE f[i]]

(* new_capacity = capacity + additional.max(capacity)                      *)
NewCapacity(additional) ==
    capacity + (IF additional >= capacity THEN additional ELSE capacity)

TypeOK ==
    /\ file \in Seq(Bytes)
    /\ position \in Nat
    /\ capacity \in Nat
    /\ mapped \in BOOLEAN
    /\ synced \in Nat
    /\ result \in Results

(* MmapWriter::new succeeded: the file was opened without truncation, so  *)
(* its old bytes survive up to `capacity`, then set_len and map_mut.      *)
Init ==
    /\ capacity \in Capacities
    /\ file \in [1 .. capacity -> Bytes]
    /\ position = 0
    /\ mapped = TRUE
    /\ synced = 0
    /\ result = "ok"

Fits(d) == position + Len(d) <= capacity

(* write: the data fits and the mapping is there: copy and advance.        *)
WriteInPlace(d) ==
    /\ Fits(d) /\ mapped
    /\ file' = CopyAt(file, position, d)
    /\ position' = position + Len(d)
    /\ result' = "ok"
    /\ UNCHANGED <<capacity, mapped, synced>>

(* write: the data fits but an earlier grow left `mmap` None.              *)
WriteNoMap(d) ==
    /\ Fits(d) /\ ~mapped
    /\ result' = "no_map"
    /\ UNCHANGED <<file, position, capacity, mapped, synced>>

(* write -> grow: the mapping is dropped, then set_len fails.             *)
GrowSetLenFails(d) ==
    /\ ~Fits(d)
    /\ mapped' = FALSE
    /\ result' = "grow_failed"
    /\ UNCHANGED <<file, position, capacity, synced>>

(* write -> grow: set_len extends the file, then map_mut fails; capacity  *)
(* keeps its old value although the file is now longer.                   *)
GrowRemapFails(d) ==
    /\ ~Fits(d)
    /\ file' = SetLen(file, NewCapacity(Len(d)))
    /\ mapped' = FALSE
    /\ result' = "grow_failed"
    /\ UNCHANGED <<position, capacity, synced>>

(* write -> grow succeeds, then the copy into the new mapping.             *)
WriteGrown(d) ==
    /\ ~Fits(d)
    /\ file' = CopyAt(SetLen(file, NewCapacity(Len(d))), position, d)
    /\ capacity' = NewCapacity(Len(d))
    /\ mapped' = TRUE
    /\ position' = position + Len(d)
    /\ result' = "ok"
    /\ UNCHANGED synced

Write(d) ==
    \/ WriteInPlace(d)
    \/ WriteNoMap(d)
    \/ GrowSetLenFails(d)
    \/ GrowRemapFails(d)
    \/ WriteGrown(d)

(* flush: mmap.flush (when mapped) then sync_all; either may fail.        *)
Flush ==
    \/ /\ synced' = position
       /\ result' = "ok"
       /\ UNCHANGED <<file, position, capacity, mapped>>
    \/ /\ result' = "flush_failed"
       /\ UNCHANGED <<file, position, capacity, mapped, synced>>

Next == (\E d \in Data : Write(d)) \/ Flush

Spec == Init /\ [][Next]_vars

-----------------------------------------------------------------------------
(* The bytes the writer has accepted: the first `position` bytes.          *)
Log == SubSeq(file, 1, position)

(* Every store through the mapping stays inside it: whenever `mmap` is     *)
(* Some it covers the whole file and the file is `capacity` long, and      *)
(* `position` never passes `capacity`.  This is what keeps the slice       *)
(* mmap[position..position + len] in `write` from panicking, also after a  *)
(* grow whose remap failed left the file longer than `capacity`.           *)
WithinMap ==
    /\ position <= capacity
    /\ capacity <= Len(file)
    /\ mapped => Len(file) = capacity
    /\ synced <= position

(* The writer implements an append-only log: no write, grow (successful   *)
(* or not), truncating set_len or flush changes a byte already accepted.   *)
AL == INSTANCE AppendLog WITH log <- Log

AppendOnly == AL!Spec

=============================================================================
