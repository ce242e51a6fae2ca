----------------------------- MODULE TraceFile -----------------------------
(***************************************************************************)
(* A trace set on disk (lib/trace/backend: backend_trs.c, backend_ztrs.c,   *)
(* riscure_trs.c).  One writer appends traces while readers fetch those     *)
(* already written, all through one FILE and one file_lock.  A trs file is  *)
(* an array of records of one length, found by an absolute seek.  A ztrs    *)
(* file is a chain: before and after each record stands its compressed      *)
(* size, and the only way to a record is to walk from the one the cursor    *)
(* is at, which `position' remembers.  The process may die at any time; the *)
(* file is then opened again for reading.                                   *)
(*                                                                         *)
(* The file is a sequence of cells: a size, a fixed field, or a piece of    *)
(* samples.  A partly written cell is one that is not there.                *)
(***************************************************************************)
EXTENDS Integers, Sequences

CONSTANTS Readers, Writer,
          N,          \* the traces there are to write
          Fields,     \* the fixed fields of a record: title and data
          Packed,     \* how many cells the samples of a trace take when compressed
          MaxFaults   \* bound: accesses to the file that fail

ASSUME SizeAssumption == N \in Nat \ {0} /\ MaxFaults \in Nat
ASSUME FieldsAssumption == Fields \in Seq(STRING)
ASSUME PackedAssumption == Packed \in [0 .. N - 1 -> Nat \ {0}]
ASSUME ThreadsAssumption == Writer \notin Readers

VARIABLES
    kind,               \* "trs" or "ztrs"
    mode,               \* what the process does with the file
    header,             \* NUMBER_TRACES in the file
    cells,              \* what follows the headers
    numTraces,          \* ts->num_traces
    numWritten,         \* num_written
    committed,          \* the traces whose write succeeded
    position, cursor,   \* position, and where the FILE stands
    lock,               \* file_lock
    pc, want, got,      \* per thread: where, the index, what a read returned
    todo,               \* the cells the writer has still to write
    faults, disturbed   \* disturbed: an access ended halfway since the file was opened

fileVars == <<header, cells>>
counts == <<numTraces, numWritten, committed>>
walk == <<position, cursor>>
threadVars == <<pc, want, got>>
vars == <<kind, mode, fileVars, counts, walk, lock, threadVars, todo, faults, disturbed>>

Threads == Readers \cup {Writer}

Absent == -1      \* no headers yet
Unknown == 1000   \* UNKNOWN_NUM_TRACES, which no set has
Huge == 100       \* the size before the first record, (uint32_t) -1

ASSUME UnknownAssumption == N < Unknown

SizeCell(n) == [kind |-> "size", of |-> n]
FieldCells(i) == [f \in DOMAIN Fields |-> [kind |-> Fields[f], of |-> i]]
SampleCells(i, n) == [s \in 1 .. n |-> [kind |-> "samples", of |-> i]]

\* What a read of trace i returns, and the record a write of trace i leaves in the file.
TrsBody(i) == FieldCells(i) \o SampleCells(i, 1)
ZtrsBody(i) == FieldCells(i) \o SampleCells(i, Packed[i])
Body(i) == IF kind = "trs" THEN TrsBody(i) ELSE ZtrsBody(i)

ZtrsRecord(i) ==
    (IF i = 0 THEN <<SizeCell(Huge)>> ELSE <<>>)
        \o <<SizeCell(Packed[i])>> \o ZtrsBody(i) \o <<SizeCell(Packed[i])>>

Record(i) == IF kind = "trs" THEN TrsBody(i) ELSE ZtrsRecord(i)

\* trace_start + index * trace_length
TrsOffset(i) == 1 + i * (Len(Fields) + 1)

\* How many cells stand before the record of trace i: those of all the traces before it.
ZtrsPlace[i \in 0 .. N] == IF i = 0 THEN 0 ELSE ZtrsPlace[i - 1] + Len(ZtrsRecord(i - 1))
Place(i) == IF kind = "trs" THEN TrsOffset(i) - 1 ELSE ZtrsPlace[i]

\* What create_backend chooses among for a set that can be created.
Backends == {"trs", "ztrs"}

\* The start of the chain, where headers that were just read or written leave the FILE.
AtStart(pos, at) == pos = 0 /\ at = 1

Init ==
    /\ kind \in Backends
    /\ mode = "none"
    /\ header = Absent
    /\ cells = <<>>
    /\ numTraces = Unknown
    /\ numWritten = 0
    /\ committed = 0
    /\ AtStart(position, cursor)
    /\ lock = 1
    /\ pc = [t \in Threads |-> "idle"]
    /\ want = [t \in Threads |-> 0]
    /\ got = [t \in Threads |-> <<>>]
    /\ todo = <<>>
    /\ faults = 0
    /\ disturbed = FALSE

MoveTo(t, where) == pc' = [pc EXCEPT ![t] = where]

Fault == faults < MaxFaults /\ faults' = faults + 1

-----------------------------------------------------------------------------
(* Creating and opening. *)

\* The file is truncated, the default headers are not there yet.
Create ==
    /\ mode = "none"
    /\ mode' = "creating"
    /\ UNCHANGED <<kind, fileVars, counts, walk, lock, threadVars, todo, faults, disturbed>>

WriteDefaultHeaders == header' = numTraces

\* read_headers goes over what was written: the cursor ends behind the headers.
Created ==
    /\ mode = "creating"
    /\ mode' = "write"
    /\ WriteDefaultHeaders
    /\ cursor' = 1
    /\ UNCHANGED <<kind, cells, counts, position, lock, threadVars, todo, faults, disturbed>>

CreateFails ==
    /\ mode = "creating"
    /\ Fault
    /\ mode' = "down"
    /\ UNCHANGED <<kind, fileVars, counts, walk, lock, threadVars, todo, disturbed>>

\* The process dies.
Crash ==
    /\ mode \in {"creating", "write"}
    /\ mode' = "down"
    /\ pc' = [t \in Threads |-> "idle"]
    /\ todo' = <<>>
    /\ UNCHANGED <<kind, fileVars, counts, walk, lock, want, got, faults, disturbed>>

\* Without the marker of the end of the headers they cannot be counted.
ReadHeaders ==
    /\ mode' = IF header = Absent THEN "failed" ELSE "read"
    /\ numTraces' = header

Open ==
    /\ mode = "down"
    /\ ReadHeaders
    /\ AtStart(position', cursor')
    /\ lock' = 1
    /\ disturbed' = FALSE
    /\ pc' = [t \in Threads |-> "idle"]
    /\ UNCHANGED <<kind, fileVars, numWritten, committed, want, got, todo, faults>>

-----------------------------------------------------------------------------
(* Writing: only the next trace is accepted, and who writes stops at the    *)
(* first failure.                                                           *)

AskWrite ==
    /\ mode = "write"
    /\ pc[Writer] = "idle"
    /\ numWritten < N
    /\ MoveTo(Writer, "want")
    /\ want' = [want EXCEPT ![Writer] = numWritten]
    /\ UNCHANGED <<kind, mode, fileVars, counts, walk, lock, got, todo, faults, disturbed>>

StartWrite ==
    /\ pc[Writer] = "want"
    /\ lock = 1
    /\ lock' = 0
    /\ cursor' = IF kind = "trs" THEN TrsOffset(want[Writer]) ELSE Len(cells) + 1
    /\ todo' = Record(want[Writer])
    /\ MoveTo(Writer, "writing")
    /\ UNCHANGED <<kind, mode, fileVars, counts, position, want, got, faults, disturbed>>

StartWriteFails ==
    /\ pc[Writer] = "want"
    /\ lock = 1
    /\ Fault
    /\ MoveTo(Writer, "stopped")
    /\ UNCHANGED <<kind, mode, fileVars, counts, walk, lock, want, got, todo, disturbed>>

Put(cell) == IF cursor <= Len(cells) THEN [cells EXCEPT ![cursor] = cell] ELSE Append(cells, cell)

WriteCell ==
    /\ pc[Writer] = "writing"
    /\ todo # <<>>
    /\ cells' = Put(Head(todo))
    /\ cursor' = cursor + 1
    /\ todo' = Tail(todo)
    /\ UNCHANGED <<kind, mode, header, counts, position, lock, threadVars, faults, disturbed>>

\* Where a failed fwrite goes: past the release of file_lock, except for the sizes of a ztrs.
SkipsUnlock(cell) == cell.kind # "size"

WriteCellFails ==
    /\ pc[Writer] = "writing"
    /\ todo # <<>>
    /\ Fault
    /\ MoveTo(Writer, "stopped")
    /\ lock' = IF SkipsUnlock(Head(todo)) THEN lock ELSE 1
    /\ disturbed' = TRUE
    /\ todo' = <<>>
    /\ UNCHANGED <<kind, mode, fileVars, counts, walk, want, got>>

MutHeaderAhead == IF numTraces = Unknown THEN numWritten + 2 ELSE numTraces

\* What finalize_headers writes, num_written having been incremented.
FinalCount == IF numTraces = Unknown THEN numWritten + 1 ELSE numTraces

\* The headers have just been written, so the cursor is at the start of the chain.
ResetPosition == position' = IF kind = "ztrs" THEN 0 ELSE position

FinishWrite ==
    /\ pc[Writer] = "writing"
    /\ todo = <<>>
    /\ numWritten' = numWritten + 1
    /\ committed' = committed + 1
    /\ header' = FinalCount
    /\ cursor' = 1
    /\ ResetPosition
    /\ lock' = 1
    /\ MoveTo(Writer, "idle")
    /\ UNCHANGED <<kind, mode, cells, numTraces, want, got, todo, faults, disturbed>>

\* finalize_headers fails before or after it wrote NUMBER_TRACES, the first header.
FinishWriteFails ==
    /\ pc[Writer] = "writing"
    /\ todo = <<>>
    /\ Fault
    /\ numWritten' = numWritten + 1
    /\ header' \in {header, FinalCount}
    /\ cursor' = 0
    /\ lock' = 1
    /\ disturbed' = TRUE
    /\ MoveTo(Writer, "stopped")
    /\ UNCHANGED <<kind, mode, cells, numTraces, committed, position, want, got, todo>>

-----------------------------------------------------------------------------
(* Reading. *)

\* A transformation reads what was committed; an opened set, what its header announces.
Readable == IF mode = "write" THEN committed ELSE numTraces

AskRead(r) ==
    /\ mode \in {"write", "read"}
    /\ pc[r] = "idle"
    /\ \E i \in 0 .. N - 1 :
        /\ i < Readable
        /\ want' = [want EXCEPT ![r] = i]
    /\ MoveTo(r, "want")
    /\ UNCHANGED <<kind, mode, fileVars, counts, walk, lock, got, todo, faults, disturbed>>

StartRead(r) ==
    /\ pc[r] = "want"
    /\ lock = 1
    /\ lock' = 0
    /\ cursor' = IF kind = "trs" THEN TrsOffset(want[r]) ELSE cursor
    /\ MoveTo(r, IF kind = "trs" THEN "get" ELSE "seek")
    /\ UNCHANGED <<kind, mode, fileVars, counts, position, want, got, todo, faults, disturbed>>

\* The sizes a read at c can give: whatever stands there is taken for one.  None at the end.
SizesAt(c) ==
    IF c \notin 1 .. Len(cells) THEN {}
    ELSE IF cells[c].kind = "size" THEN {cells[c].of}
    ELSE {Packed[i] : i \in DOMAIN Packed}

MutOffByOne == Len(Fields) + 2

\* How far before the record the cursor is, apart from its samples, once last_size was read.
BackStep == Len(Fields) + 3

SeekBack(r) ==
    /\ pc[r] = "seek"
    /\ want[r] < position
    /\ \E last \in SizesAt(cursor) :
        /\ cursor + 1 - (BackStep + last) > 0
        /\ cursor' = cursor + 1 - (BackStep + last)
    /\ position' = position - 1
    /\ UNCHANGED <<kind, mode, fileVars, counts, lock, threadVars, todo, faults, disturbed>>

SeekForward(r) ==
    /\ pc[r] = "seek"
    /\ want[r] > position
    /\ SizesAt(cursor) # {}
    /\ \E this \in SizesAt(cursor + 1) : cursor' = cursor + 2 + Len(Fields) + this
    /\ position' = position + 1
    /\ UNCHANGED <<kind, mode, fileVars, counts, lock, threadVars, todo, faults, disturbed>>

Read(r, from, n) ==
    /\ from >= 1 /\ from + n - 1 <= Len(cells)
    /\ got' = [got EXCEPT ![r] = SubSeq(cells, from, from + n - 1)]
    /\ cursor' = from + n
    /\ lock' = 1

ReadTrs(r) ==
    /\ pc[r] = "get"
    /\ Read(r, cursor, Len(Fields) + 1)
    /\ MoveTo(r, "done")
    /\ UNCHANGED <<kind, mode, fileVars, counts, position, want, todo, faults, disturbed>>

\* inflate must use up its input and fill its output.
Inflates(body) ==
    \E i \in DOMAIN Packed : SubSeq(body, Len(Fields) + 1, Len(body)) = SampleCells(i, Packed[i])

Following == position + 1

ReadZtrs(r) ==
    /\ pc[r] = "seek"
    /\ want[r] = position
    /\ SizesAt(cursor) # {}
    /\ \E this \in SizesAt(cursor + 1) : Read(r, cursor + 2, Len(Fields) + this)
    /\ position' = Following
    /\ MoveTo(r, IF Inflates(got'[r]) THEN "done" ELSE "failed")
    /\ UNCHANGED <<kind, mode, fileVars, counts, want, todo, faults, disturbed>>

\* What this read would need is not in the file.
RunsOut(r) ==
    \/ pc[r] = "get" /\ cursor + Len(Fields) > Len(cells)
    \/ /\ pc[r] = "seek"
       /\ \/ SizesAt(cursor) = {}
          \/ want[r] < position /\ \A n \in SizesAt(cursor) : cursor + 1 - (BackStep + n) <= 0
          \/ want[r] >= position /\ SizesAt(cursor + 1) = {}
          \/ want[r] = position /\ \E n \in SizesAt(cursor + 1) : cursor + 1 + Len(Fields) + n > Len(cells)

MutKeepLock == UNCHANGED lock

Unlock == lock' = 1

\* A read that fails leaves the cursor where it came to: position does not follow.
ReadFails(r) ==
    /\ pc[r] \in {"get", "seek"}
    /\ (RunsOut(r) /\ UNCHANGED faults) \/ Fault
    /\ \E c \in cursor .. cursor + 2 + Len(Fields) :
        (c <= Len(cells) + 1 \/ c = cursor) /\ cursor' = c
    /\ disturbed' = TRUE
    /\ Unlock
    /\ MoveTo(r, "failed")
    /\ UNCHANGED <<kind, mode, fileVars, counts, position, want, got, todo>>

\* Without memory for what is to be inflated a read of a ztrs ends as if it had succeeded,
\* with nothing read: the seek before it did succeed, and its result is what is returned.
ReadUnallocated(r) ==
    /\ pc[r] = "seek"
    /\ want[r] = position
    /\ SizesAt(cursor) # {} /\ SizesAt(cursor + 1) # {}
    /\ Fault
    /\ cursor' = cursor + 2
    /\ disturbed' = TRUE
    /\ Unlock
    /\ MoveTo(r, "done")
    /\ UNCHANGED <<kind, mode, fileVars, counts, position, want, got, todo>>

Return(r) ==
    /\ pc[r] \in {"done", "failed"}
    /\ MoveTo(r, "idle")
    /\ got' = [got EXCEPT ![r] = <<>>]
    /\ UNCHANGED <<kind, mode, fileVars, counts, walk, lock, want, todo, faults, disturbed>>

-----------------------------------------------------------------------------
(* Closing: whoever used the file is gone.  tfm_save says before how many    *)
(* traces it committed.                                                     *)

AskClose ==
    /\ mode = "write"
    /\ pc[Writer] \in {"idle", "stopped"}
    /\ \A r \in Readers : pc[r] = "idle"
    /\ numTraces' = committed
    /\ mode' = "closing"
    /\ UNCHANGED <<kind, fileVars, numWritten, committed, walk, lock, threadVars, todo, faults, disturbed>>

Close ==
    /\ mode = "closing"
    /\ lock = 1
    /\ \/ header' = numTraces /\ UNCHANGED faults
       \/ header' \in {header, numTraces} /\ Fault
    /\ mode' = "down"
    /\ UNCHANGED <<kind, cells, counts, walk, lock, threadVars, todo, disturbed>>

-----------------------------------------------------------------------------

Write == StartWrite \/ WriteCell \/ FinishWrite \/ StartWriteFails \/ WriteCellFails \/ FinishWriteFails

Access(r) ==
    \/ StartRead(r) \/ SeekBack(r) \/ SeekForward(r) \/ ReadTrs(r) \/ ReadZtrs(r)
    \/ ReadFails(r) \/ ReadUnallocated(r)

Next ==
    \/ Create \/ Created \/ CreateFails \/ Crash \/ Open
    \/ AskWrite \/ Write
    \/ \E r \in Readers : AskRead(r) \/ Access(r) \/ Return(r)
    \/ AskClose \/ Close

\* Threads run, and a semaphore that is released over and over is obtained.
Fairness ==
    /\ SF_vars(StartWrite) /\ WF_vars(Write)
    /\ \A r \in Readers : SF_vars(StartRead(r)) /\ WF_vars(Access(r)) /\ WF_vars(Return(r))

Spec == Init /\ [][Next]_vars /\ Fairness

-----------------------------------------------------------------------------

TypeOK ==
    /\ kind \in Backends
    /\ mode \in {"none", "creating", "write", "closing", "down", "read", "failed"}
    /\ header \in Int /\ numTraces \in Int
    /\ \A c \in 1 .. Len(cells) : cells[c].kind \in {"size", "samples"} \cup {Fields[f] : f \in DOMAIN Fields}
    /\ numWritten \in 0 .. N /\ committed \in 0 .. N /\ position \in Nat /\ cursor \in Nat
    /\ lock \in 0 .. 1
    /\ pc \in [Threads -> {"idle", "want", "seek", "get", "writing", "done", "failed", "stopped"}]
    /\ want \in [Threads -> 0 .. N - 1]
    /\ faults \in 0 .. MaxFaults

\* The header announces trace i, as it does every trace that was committed.
Announces(i) == header \in 0 .. N /\ i < header

\* A read of a trace that the header announces finds it and returns it, whatever the threads
\* before it read or wrote, and before the process died or after: in a trs always, in a ztrs as
\* long as no access failed halfway, or found no memory, and left the cursor where position
\* does not say (backend_trs.c:127-252, backend_ztrs.c:14-246).
ReadsReturnTheTrace ==
    \A r \in Readers :
        /\ pc[r] = "failed" => disturbed
        /\ kind = "trs" \/ ~disturbed =>
              /\ pc[r] = "done" => got[r] = Body(want[r])
              /\ Announces(want[r]) => ~RunsOut(r)

\* Whenever the process dies, the header announces each trace whose write succeeded, and the
\* traces that it announces are all in the file, complete and in order: the number is written
\* after the record, never before (finalize_headers, riscure_trs.c:642-688).
HeaderFaithful ==
    /\ \A i \in 0 .. N - 1 : i < committed => Announces(i)
    /\ \A i \in 0 .. N - 1 : Announces(i) =>
          /\ Place(i) + Len(Record(i)) <= Len(cells)
          /\ SubSeq(cells, Place(i) + 1, Place(i) + Len(Record(i))) = Record(i)

\* Who wants to read or write is served, even after accesses that left the cursor astray: the
\* walk along the chain ends.  Excused are the death of the process, and a failed write that
\* skipped the release of the lock.
EveryAccessReturns ==
    \A t \in Threads :
        pc[t] \in {"want", "seek", "get", "writing"} ~>
            pc[t] \in {"idle", "done", "failed", "stopped"} \/ (pc[Writer] = "stopped" /\ lock = 0)

=============================================================================
