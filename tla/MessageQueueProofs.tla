------------------------- MODULE MessageQueueProofs -------------------------
(***************************************************************************)
(* The slots of the shared-memory ring are exclusive, for every number of  *)
(* readers, slots and messages, with and without timeouts.                 *)
(* The ring, the overflow socket and the remote sockets deliver the log,   *)
(* complete and in order: the safety part of the refinement of             *)
(* BroadcastQueue.  There, callers that give up on an overflow payload     *)
(* (RecvTimeouts) are excluded: they lose it.                              *)
(***************************************************************************)
EXTENDS MessageQueue, TLAPS

(***************************************************************************)
(* The inductive invariant.                                                *)
(***************************************************************************)

\* A message is under way from enqueue to Publish, and published afterwards.
SentInRange ==
    /\ writer.pc \in {"check", "write", "reset"} => sent < MaxMessages
    /\ writer.pc \in {"send", "notify", "remote"} => sent > 0

\* A slot whose written flag is set is complete, and the writer is elsewhere.
WrittenIsComplete ==
    /\ \A c \in Chunks : written[c] = 1 => data[c] # Torn /\ ~ Filling(c)
    /\ writer.pc = "reset" => data[writer.current_idx] # Torn

\* The writer's sum is full only if every flag it has passed was set; no reader
\* lowers a flag, so all of them still are.
CountIsEvidence ==
    writer.pc = "check" =>
        /\ writer.count <= writer.rank - 1
        /\ writer.count = writer.rank - 1 =>
             \A q \in 1..(writer.rank - 1) : read[writer.current_idx][q] = 1

\* Only the reader itself raises its read flag: one that it has loaded as 0 is
\* 0, and a slot it copies from stays written until it has raised the flag.
FlagsAreOwned ==
    \A r \in Readers :
        LET c == reader[r].current_idx IN
        /\ reader[r].pc = "polled" /\ reader[r].read_flag = 0 => read[c][r] = 0
        /\ reader[r].pc \in {"copy", "copied"} => read[c][r] = 0 /\ written[c] = 1

IInv == TypeOK /\ SentInRange /\ WrittenIsComplete /\ CountIsEvidence /\ FlagsAreOwned

\* NextChunk stays within the ring.
LEMMA NextChunkType == ASSUME NEW i \in Chunks PROVE NextChunk(i) \in Chunks
  BY QueueAssumption DEF NextChunk, Chunks

\* The sizes as the leaves below use them.
LEMMA Sizes ==
    /\ n_reader \in Nat /\ n_reader > 0 /\ MaxMessages \in Nat
    /\ 1 \in 1..(n_reader + 1) /\ 0 \in 0..n_reader
  <1>1. n_reader \in Nat /\ n_reader > 0 /\ MaxMessages \in Nat
    BY QueueAssumption
  <1> QED BY <1>1

\* Updates of the writer's state keep its type.
LEMMA WriterUpdate ==
    ASSUME writer \in WriterState, NEW k \in 1..(n_reader + 1), NEW n \in 0..n_reader,
           NEW p \in {"idle", "check", "write", "reset", "send", "notify", "remote"}
    PROVE  [writer EXCEPT !.pc = p, !.rank = k, !.count = n] \in WriterState
  BY Zenon DEF WriterState

\* So do updates of a reader's step.
LEMMA ReaderUpdate ==
    ASSUME reader \in [Readers -> ReaderState], NEW r \in Readers,
           NEW p \in {"poll", "polled", "wait", "copy", "copied", "recv", "cancelled"}
    PROVE  [reader EXCEPT ![r].pc = p] \in [Readers -> ReaderState]
  BY DEF ReaderState

\* An empty ring, with no flag set, satisfies the invariant.
LEMMA InitIInv == Init => IInv
  <1> USE QueueAssumption DEF Init
  <1>1. Init => TypeOK
    BY DEF TypeOK, RingTypes, WriterState, ReaderState, DeliveryTypes, WaitTypes, Chunks
  <1>2. Init => SentInRange /\ WrittenIsComplete /\ CountIsEvidence
    BY DEF SentInRange, WrittenIsComplete, CountIsEvidence
  <1>3. Init => FlagsAreOwned
    BY DEF FlagsAreOwned
  <1> QED BY <1>1, <1>2, <1>3 DEF IInv

\* A step of the writer keeps the invariant.
LEMMA WriterStep == IInv /\ (enqueue \/ Writing) => IInv'
  <1> SUFFICES ASSUME IInv, enqueue \/ Writing PROVE IInv'
    OBVIOUS
  <1> USE Sizes
  <1>a. TypeOK /\ SentInRange /\ WrittenIsComplete /\ CountIsEvidence /\ FlagsAreOwned
    BY DEF IInv
  <1>t. RingTypes /\ DeliveryTypes /\ WaitTypes
    BY <1>a DEF TypeOK
  <1>w. writer \in WriterState
    BY <1>a DEF TypeOK
  <1>r. reader \in [Readers -> ReaderState]
    BY <1>a DEF TypeOK
  <1>1. CASE enqueue
    <2>1. TypeOK'
      <3>1. writer' \in WriterState
        BY <1>w, <1>1, WriterUpdate, ZenonT(30) DEF enqueue
      <3> QED BY <1>t, <1>r, <1>1, <3>1
                 DEF enqueue, TypeOK, ring, RingTypes, DeliveryTypes, WaitTypes
    <2>2. SentInRange' /\ WrittenIsComplete'
      BY <1>a, <1>1 DEF enqueue, SentInRange, WrittenIsComplete, Filling, ring
    <2>3. CountIsEvidence'
      BY <1>1 DEF enqueue, CountIsEvidence
    <2>4. FlagsAreOwned'
      BY <1>a, <1>1 DEF enqueue, FlagsAreOwned, ring, MayWrite
    <2> QED BY <2>1, <2>2, <2>3, <2>4 DEF IInv
  <1>2. CASE CountReadFlag
    <2>1. TypeOK'
      <3>1. writer' \in WriterState
        <4>1. writer.current_idx \in Chunks /\ writer.rank \in Readers /\ writer.count \in Nat
          BY <1>w, <1>2 DEF CountReadFlag, WriterState, Readers
        <4>2. read[writer.current_idx][writer.rank] \in 0..1
          BY <1>t, <4>1 DEF RingTypes
        <4>3. writer.count <= writer.rank - 1
          BY <1>a, <1>2 DEF CountReadFlag, CountIsEvidence
        <4>4. /\ writer.count + read[writer.current_idx][writer.rank] \in 0..n_reader
              /\ writer.rank + 1 \in 1..(n_reader + 1)
          BY <4>1, <4>2, <4>3 DEF Readers
        <4> QED BY <1>w, <1>2, <4>4, Zenon DEF CountReadFlag, WriterState
      <3> QED BY <1>t, <1>r, <1>2, <3>1
                 DEF CountReadFlag, TypeOK, ring, RingTypes, DeliveryTypes, WaitTypes
    <2>2. SentInRange' /\ WrittenIsComplete'
      BY <1>a, <1>2 DEF CountReadFlag, SentInRange, WrittenIsComplete, Filling, ring
    <2>3. CountIsEvidence'
      <3> DEFINE c == writer.current_idx
                 f == read[c][writer.rank]
      <3>1. c \in Chunks /\ writer.rank \in Readers /\ writer.count \in Nat
        BY <1>w, <1>2 DEF CountReadFlag, WriterState, Readers
      <3>2. f \in 0..1
        BY <1>t, <3>1 DEF RingTypes
      <3>3. /\ writer.count <= writer.rank - 1
            /\ writer.count = writer.rank - 1 => \A q \in 1..(writer.rank - 1) : read[c][q] = 1
        BY <1>a, <1>2 DEF CountReadFlag, CountIsEvidence
      <3>4. /\ writer'.count = writer.count + f /\ writer'.rank = writer.rank + 1
            /\ writer'.current_idx = c /\ read' = read
        BY <1>w, <1>2 DEF CountReadFlag, WriterState, ring
      <3>5. writer'.count <= writer'.rank - 1
        BY <3>1, <3>2, <3>3, <3>4 DEF Readers
      <3>6. ASSUME writer'.count = writer'.rank - 1, NEW q \in 1..(writer'.rank - 1)
            PROVE  read'[writer'.current_idx][q] = 1
        <4>1. f = 1 /\ writer.count = writer.rank - 1
          BY <3>1, <3>2, <3>3, <3>4, <3>6 DEF Readers
        <4>2. q = writer.rank \/ q \in 1..(writer.rank - 1)
          BY <3>1, <3>4, <3>6 DEF Readers
        <4> QED BY <3>3, <3>4, <4>1, <4>2
      <3> QED BY <3>5, <3>6 DEF CountIsEvidence
    <2>4. FlagsAreOwned'
      BY <1>a, <1>2 DEF CountReadFlag, FlagsAreOwned, ring, MayWrite
    <2> QED BY <2>1, <2>2, <2>3, <2>4 DEF IInv
  <1>3. CASE CheckAgain
    <2>1. TypeOK'
      <3>1. writer' \in WriterState
        BY <1>w, <1>3, Zenon DEF CheckAgain, WriterState
      <3> QED BY <1>t, <1>r, <1>3, <3>1
                 DEF CheckAgain, TypeOK, ring, RingTypes, DeliveryTypes, WaitTypes
    <2>2. SentInRange' /\ WrittenIsComplete'
      BY <1>a, <1>3 DEF CheckAgain, SentInRange, WrittenIsComplete, Filling, ring
    <2>3. CountIsEvidence'
      BY <1>3 DEF CheckAgain, CountIsEvidence
    <2>4. FlagsAreOwned'
      BY <1>a, <1>3 DEF CheckAgain, FlagsAreOwned, ring
    <2> QED BY <2>1, <2>2, <2>3, <2>4 DEF IInv
  <1>4. CASE BeginWrite
    <2>1. TypeOK'
      <3>1. RingTypes'
        BY <1>t, <1>w, <1>4 DEF BeginWrite, RingTypes, WriterState
      <3>2. writer' \in WriterState
        BY <1>w, <1>4 DEF BeginWrite, WriterState, ring
      <3> QED BY <1>t, <1>r, <1>4, <3>1, <3>2 DEF BeginWrite, TypeOK, DeliveryTypes, WaitTypes
    <2>2. SentInRange' /\ WrittenIsComplete'
      BY <1>a, <1>t, <1>4 DEF BeginWrite, RingTypes, SentInRange, WrittenIsComplete, Filling
    <2>3. CountIsEvidence'
      BY <1>4 DEF BeginWrite, CountIsEvidence
    <2>4. FlagsAreOwned'
      BY <1>a, <1>4 DEF BeginWrite, FlagsAreOwned, CountIsEvidence, Readers, MayWrite
    <2> QED BY <2>1, <2>2, <2>3, <2>4 DEF IInv
  <1>5. CASE EndWrite
    <2>1. TypeOK'
      <3>1. RingTypes'
        <4>1. sent + 1 \in Messages
          BY <1>a, <1>t, <1>5 DEF EndWrite, SentInRange, DeliveryTypes, Messages
        <4> QED BY <1>t, <1>5, <4>1, Zenon DEF EndWrite, RingTypes
      <3>2. writer' \in WriterState
        BY <1>w, <1>5, Zenon DEF EndWrite, WriterState
      <3> QED BY <1>t, <1>r, <1>5, <3>1, <3>2 DEF EndWrite, TypeOK, DeliveryTypes, WaitTypes
    <2>2. SentInRange' /\ WrittenIsComplete'
      BY <1>a, <1>t, <1>w, <1>5 DEF EndWrite, RingTypes, WriterState, DeliveryTypes,
         SentInRange, WrittenIsComplete, Filling, Overflow, Torn
    <2>3. CountIsEvidence'
      BY <1>5 DEF EndWrite, CountIsEvidence
    <2>4. FlagsAreOwned'
      BY <1>a, <1>5 DEF EndWrite, FlagsAreOwned, MayWrite
    <2> QED BY <2>1, <2>2, <2>3, <2>4 DEF IInv
  <1>6. CASE ResetReadFlag
    <2>1. TypeOK'
      <3>1. RingTypes'
        <4>1. writer.current_idx \in Chunks /\ writer.rank \in Readers
          BY <1>w, <1>6 DEF ResetReadFlag, WriterState, Readers
        <4> QED BY <1>t, <1>6, <4>1 DEF ResetReadFlag, RingTypes
      <3>2. writer' \in WriterState
        BY <1>w, <1>6 DEF ResetReadFlag, WriterState, ring
      <3> QED BY <1>t, <1>r, <1>6, <3>1, <3>2
                 DEF ResetReadFlag, TypeOK, DeliveryTypes, WaitTypes
    <2>2. SentInRange' /\ WrittenIsComplete'
      BY <1>a, <1>6 DEF ResetReadFlag, SentInRange, WrittenIsComplete, Filling
    <2>3. CountIsEvidence'
      BY <1>6 DEF ResetReadFlag, CountIsEvidence
    <2>4. FlagsAreOwned'
      BY <1>a, <1>6 DEF ResetReadFlag, FlagsAreOwned, MayWrite
    <2> QED BY <2>1, <2>2, <2>3, <2>4 DEF IInv
  <1>7. CASE Publish
    <2>1. TypeOK'
      <3>1. RingTypes'
        BY <1>t, <1>w, <1>7 DEF Publish, RingTypes, WriterState, ring
      <3>2. writer' \in WriterState
        BY <1>w, <1>7, NextChunkType, Zenon DEF Publish, WriterState
      <3>3. DeliveryTypes'
        BY <1>t, <1>a, <1>7 DEF Publish, DeliveryTypes, SentInRange
      <3> QED BY <1>t, <1>r, <1>7, <3>1, <3>2, <3>3 DEF Publish, TypeOK, WaitTypes
    <2>2. SentInRange' /\ WrittenIsComplete'
      BY <1>a, <1>t, <1>7 DEF Publish, DeliveryTypes, SentInRange, WrittenIsComplete, Filling
    <2>3. CountIsEvidence'
      BY <1>7 DEF Publish, CountIsEvidence
    <2>4. FlagsAreOwned'
      BY <1>a, <1>7 DEF Publish, FlagsAreOwned, MayWrite
    <2> QED BY <2>1, <2>2, <2>3, <2>4 DEF IInv
  <1>8. CASE SendOverflow
    <2>1. TypeOK'
      <3>1. writer' \in WriterState
        BY <1>w, <1>8 DEF SendOverflow, WriterState
      <3>2. DeliveryTypes'
        <4>1. sent \in Messages
          BY <1>a, <1>t, <1>8 DEF SendOverflow, SentInRange, DeliveryTypes, Messages
        <4> QED BY <1>t, <1>8, <4>1 DEF SendOverflow, DeliveryTypes
      <3> QED BY <1>t, <1>r, <1>8, <3>1, <3>2
                 DEF SendOverflow, TypeOK, ring, RingTypes, WaitTypes
    <2>2. SentInRange' /\ WrittenIsComplete'
      BY <1>a, <1>8 DEF SendOverflow, SentInRange, WrittenIsComplete, Filling, ring
    <2>3. CountIsEvidence'
      BY <1>8 DEF SendOverflow, CountIsEvidence
    <2>4. FlagsAreOwned'
      BY <1>a, <1>8 DEF SendOverflow, FlagsAreOwned, ring, MayWrite
    <2> QED BY <2>1, <2>2, <2>3, <2>4 DEF IInv
  <1>9. CASE notify
    <2>1. TypeOK'
      <3>1. writer' \in WriterState
        BY <1>w, <1>t, <1>9 DEF notify, WriterState, RingTypes, ring
      <3>2. WaitTypes'
        BY <1>t, <1>9 DEF notify, WaitTypes, ring
      <3> QED BY <1>t, <1>r, <1>9, <3>1, <3>2 DEF notify, TypeOK, ring, RingTypes, DeliveryTypes
    <2>2. SentInRange' /\ WrittenIsComplete'
      BY <1>a, <1>9 DEF notify, SentInRange, WrittenIsComplete, Filling, ring
    <2>3. CountIsEvidence'
      BY <1>9 DEF notify, CountIsEvidence
    <2>4. FlagsAreOwned'
      BY <1>a, <1>9 DEF notify, FlagsAreOwned, ring, MayWrite
    <2> QED BY <2>1, <2>2, <2>3, <2>4 DEF IInv
  <1>10. CASE SendRemote
    <2>1. TypeOK'
      <3>1. writer' \in WriterState
        BY <1>w, <1>10 DEF SendRemote, WriterState
      <3>2. DeliveryTypes'
        <4>1. sent \in Messages
          BY <1>a, <1>t, <1>10 DEF SendRemote, SentInRange, DeliveryTypes, Messages
        <4> QED BY <1>t, <1>10, <4>1 DEF SendRemote, DeliveryTypes
      <3> QED BY <1>t, <1>r, <1>10, <3>1, <3>2
                 DEF SendRemote, TypeOK, ring, RingTypes, WaitTypes
    <2>2. SentInRange' /\ WrittenIsComplete'
      BY <1>a, <1>10 DEF SendRemote, SentInRange, WrittenIsComplete, Filling, ring
    <2>3. CountIsEvidence'
      BY <1>10 DEF SendRemote, CountIsEvidence
    <2>4. FlagsAreOwned'
      BY <1>a, <1>10 DEF SendRemote, FlagsAreOwned, ring, MayWrite
    <2> QED BY <2>1, <2>2, <2>3, <2>4 DEF IInv
  <1> QED BY <1>1, <1>2, <1>3, <1>4, <1>5, <1>6, <1>7, <1>8, <1>9, <1>10 DEF Writing

\* A step of a local reader keeps the invariant.
LEMMA ReaderStep ==
    ASSUME NEW r \in Readers, IInv, Reading(r) \/ RecvTimeout(r) \/ shutdown(r)
    PROVE  IInv'
  <1> USE Sizes
  <1>a. TypeOK /\ SentInRange /\ WrittenIsComplete /\ CountIsEvidence /\ FlagsAreOwned
    BY DEF IInv
  <1>t. RingTypes /\ DeliveryTypes /\ WaitTypes
    BY <1>a DEF TypeOK
  <1>w. writer \in WriterState
    BY <1>a DEF TypeOK
  <1>r. reader \in [Readers -> ReaderState]
    BY <1>a DEF TypeOK
  <1>1. CASE LoadReadFlag(r)
    <2>1. TypeOK'
      <3>1. reader' \in [Readers -> ReaderState]
        BY <1>r, <1>1 DEF LoadReadFlag, ReaderState
      <3> QED BY <1>t, <1>w, <1>1, <3>1
                 DEF LoadReadFlag, TypeOK, ring, RingTypes, DeliveryTypes, WaitTypes
    <2>2. SentInRange' /\ WrittenIsComplete'
      BY <1>a, <1>1 DEF LoadReadFlag, SentInRange, WrittenIsComplete, Filling, ring
    <2>3. CountIsEvidence'
      BY <1>r, <1>1 DEF LoadReadFlag, ReaderState
    <2>4. FlagsAreOwned'
      BY <1>a, <1>r, <1>1, ZenonT(30) DEF LoadReadFlag, ReaderState, FlagsAreOwned, ring
    <2> QED BY <2>1, <2>2, <2>3, <2>4 DEF IInv
  <1>2. CASE LoadWrittenFlag(r)
    <2>1. TypeOK'
      <3>1. reader' \in [Readers -> ReaderState]
        BY <1>r, <1>2, ReaderUpdate, Zenon DEF LoadWrittenFlag
      <3> QED BY <1>t, <1>w, <1>2, <3>1
                 DEF LoadWrittenFlag, TypeOK, ring, RingTypes, DeliveryTypes, WaitTypes
    <2>2. SentInRange' /\ WrittenIsComplete'
      BY <1>a, <1>2 DEF LoadWrittenFlag, SentInRange, WrittenIsComplete, Filling, ring
    <2>3. CountIsEvidence'
      BY <1>a, <1>2 DEF LoadWrittenFlag, CountIsEvidence, ring
    <2>4. FlagsAreOwned'
      BY <1>a, <1>2 DEF LoadWrittenFlag, FlagsAreOwned, ring
    <2> QED BY <2>1, <2>2, <2>3, <2>4 DEF IInv
  <1>3. CASE WaitNotified(r)
    <2>1. TypeOK'
      <3>1. reader' \in [Readers -> ReaderState]
        BY <1>r, <1>3, ReaderUpdate, Zenon DEF WaitNotified, Wake
      <3>2. WaitTypes'
        BY <1>t, <1>3 DEF WaitNotified, Wake, WaitTypes, ring
      <3> QED BY <1>t, <1>w, <1>3, <3>1, <3>2
                 DEF WaitNotified, TypeOK, ring, RingTypes, DeliveryTypes
    <2>2. SentInRange' /\ WrittenIsComplete'
      BY <1>a, <1>3 DEF WaitNotified, SentInRange, WrittenIsComplete, Filling, ring
    <2>3. CountIsEvidence'
      BY <1>a, <1>3 DEF WaitNotified, CountIsEvidence, ring
    <2>4. FlagsAreOwned'
      BY <1>a, <1>3 DEF WaitNotified, FlagsAreOwned, ring, Wake
    <2> QED BY <2>1, <2>2, <2>3, <2>4 DEF IInv
  <1>4. CASE WaitElapsed(r)
    <2>1. TypeOK'
      <3>1. reader' \in [Readers -> ReaderState]
        BY <1>r, <1>4, ReaderUpdate, Zenon DEF WaitElapsed, Wake
      <3> QED BY <1>t, <1>w, <1>4, <3>1
                 DEF WaitElapsed, TypeOK, ring, RingTypes, DeliveryTypes, WaitTypes
    <2>2. SentInRange' /\ WrittenIsComplete'
      BY <1>a, <1>4 DEF WaitElapsed, SentInRange, WrittenIsComplete, Filling, ring
    <2>3. CountIsEvidence'
      BY <1>a, <1>4 DEF WaitElapsed, CountIsEvidence, ring
    <2>4. FlagsAreOwned'
      BY <1>a, <1>4 DEF WaitElapsed, FlagsAreOwned, ring, Wake
    <2> QED BY <2>1, <2>2, <2>3, <2>4 DEF IInv
  <1>5. CASE Copy(r)
    <2>1. TypeOK'
      <3>1. reader' \in [Readers -> ReaderState]
        BY <1>r, <1>5 DEF Copy, ReaderState
      <3> QED BY <1>t, <1>w, <1>5, <3>1
                 DEF Copy, TypeOK, ring, RingTypes, DeliveryTypes, WaitTypes
    <2>2. SentInRange' /\ WrittenIsComplete'
      BY <1>a, <1>5 DEF Copy, SentInRange, WrittenIsComplete, Filling, ring
    <2>3. CountIsEvidence'
      BY <1>r, <1>5 DEF Copy, ReaderState
    <2>4. FlagsAreOwned'
      BY <1>r, <1>5 DEF Copy, ReaderState, ring
    <2> QED BY <2>1, <2>2, <2>3, <2>4 DEF IInv
  <1>6. CASE MarkRead(r)
    <2>1. TypeOK'
      <3>1. RingTypes'
        BY <1>r, <1>6 DEF MarkRead, ReaderState, ring
      <3>2. reader' \in [Readers -> ReaderState]
        <4>1. NextChunk(reader[r].current_idx) \in Chunks
          BY <1>r, NextChunkType DEF ReaderState
        <4> QED BY <1>r, <1>6, <4>1 DEF MarkRead, ReaderState
      <3>3. DeliveryTypes'
        BY <1>r, <1>6 DEF MarkRead, ReaderState, ReaderState, ring
      <3> QED BY <1>t, <1>w, <1>6, <3>1, <3>2, <3>3 DEF MarkRead, TypeOK, WaitTypes
    <2>2. SentInRange' /\ WrittenIsComplete'
      BY <1>r, <1>6 DEF MarkRead, ReaderState
    <2>3. CountIsEvidence'
      BY <1>a, <1>6 DEF MarkRead, CountIsEvidence
    <2>4. FlagsAreOwned'
      BY <1>a, <1>t, <1>w, <1>r, <1>6
         DEF MarkRead, RingTypes, WriterState, ReaderState, DeliveryTypes, FlagsAreOwned, ring
    <2> QED BY <2>1, <2>2, <2>3, <2>4 DEF IInv
  <1>7. CASE recv(r)
    <2>1. TypeOK'
      <3>1. reader' \in [Readers -> ReaderState]
        BY <1>r, <1>7, Zenon DEF recv, ReaderState, Torn, ring
      <3>2. DeliveryTypes'
        BY <1>t, <1>7 DEF recv, Deliver, DeliveryTypes
      <3> QED BY <1>t, <1>w, <1>7, <3>1, <3>2 DEF recv, TypeOK, ring, RingTypes, WaitTypes
    <2>2. SentInRange' /\ WrittenIsComplete'
      BY <1>a, <1>7 DEF recv, SentInRange, WrittenIsComplete, Filling, ring
    <2>3. CountIsEvidence'
      BY <1>a, <1>7 DEF recv, CountIsEvidence, ring
    <2>4. FlagsAreOwned'
      BY <1>a, <1>7 DEF recv, FlagsAreOwned, ring
    <2> QED BY <2>1, <2>2, <2>3, <2>4 DEF IInv
  <1>8. CASE RecvTimeout(r)
    <2>1. TypeOK'
      <3>1. reader' \in [Readers -> ReaderState]
        BY <1>r, <1>8, Zenon DEF RecvTimeout, ReaderState, RingTypes, Torn, ring
      <3> QED BY <1>t, <1>w, <1>8, <3>1
                 DEF RecvTimeout, TypeOK, ring, RingTypes, DeliveryTypes, WaitTypes
    <2>2. SentInRange' /\ WrittenIsComplete'
      BY <1>a, <1>8 DEF RecvTimeout, SentInRange, WrittenIsComplete, Filling, ring
    <2>3. CountIsEvidence'
      BY <1>a, <1>8 DEF RecvTimeout, CountIsEvidence, ring
    <2>4. FlagsAreOwned'
      BY <1>a, <1>8 DEF RecvTimeout, FlagsAreOwned, ring
    <2> QED BY <2>1, <2>2, <2>3, <2>4 DEF IInv
  <1>9. CASE shutdown(r)
    <2>1. TypeOK'
      <3>1. WaitTypes'
        BY <1>t, <1>9 DEF shutdown, WaitTypes, ring
      <3> QED BY <1>t, <1>w, <1>r, <1>9, <3>1
                 DEF shutdown, TypeOK, ring, RingTypes, DeliveryTypes
    <2>2. SentInRange' /\ WrittenIsComplete'
      BY <1>a, <1>9 DEF shutdown, SentInRange, WrittenIsComplete, Filling, ring
    <2>3. CountIsEvidence'
      BY <1>a, <1>9 DEF shutdown, CountIsEvidence, ring
    <2>4. FlagsAreOwned'
      BY <1>a, <1>9 DEF shutdown, FlagsAreOwned, ring
    <2> QED BY <2>1, <2>2, <2>3, <2>4 DEF IInv
  <1> QED BY <1>1, <1>2, <1>3, <1>4, <1>5, <1>6, <1>7, <1>8, <1>9 DEF Reading

\* The inductive invariant of flags, slots and indices holds throughout.
THEOREM RingInvariance == Spec => []IInv
  <1>1. IInv /\ [Next]_vars => IInv'
    <2> SUFFICES ASSUME IInv, [Next]_vars PROVE IInv'
      OBVIOUS
    <2>1. CASE enqueue \/ Writing
      BY <2>1, WriterStep
    <2>2. ASSUME NEW r \in Readers, Reading(r) \/ RecvTimeout(r) \/ shutdown(r)
          PROVE  IInv'
      BY <2>2, ReaderStep
    <2>3. ASSUME NEW r \in Remotes, RecvRemote(r) PROVE IInv'
      <3>1. TypeOK'
        BY <2>3 DEF IInv, TypeOK, RingTypes, DeliveryTypes, WaitTypes, RecvRemote, Deliver, ring
      <3> QED BY <2>3, <3>1 DEF IInv, TypeOK, SentInRange, WrittenIsComplete,
              CountIsEvidence, FlagsAreOwned, Filling, RecvRemote, ring
    <2>4. CASE UNCHANGED vars
      BY <2>4 DEF IInv, TypeOK, RingTypes, DeliveryTypes, WaitTypes, RingTypes, WriterState,
         ReaderState, DeliveryTypes, SentInRange, WrittenIsComplete, CountIsEvidence,
         FlagsAreOwned, Filling, vars
    <2> QED BY <2>1, <2>2, <2>3, <2>4 DEF Next
  <1> QED BY InitIInv, <1>1, PTL DEF Spec

\* Type correctness of flags, slots, indices, sockets and histories.
THEOREM QueueTypes == Spec => []TypeOK
  BY RingInvariance, PTL DEF IInv

\* The writer never fills a slot a reader is copying from, for every number of
\* readers and slots: the flag order of acquire_write and acquire_read suffices.
THEOREM SlotsNeverTorn == Spec => []SlotExclusive
  <1>1. IInv => SlotExclusive
    BY DEF IInv, TypeOK, ReaderState, WrittenIsComplete, FlagsAreOwned, SlotExclusive
  <1> QED BY RingInvariance, <1>1, PTL

------------------------------------------------------------------------------
(***************************************************************************)
(* The order of the log.  Position k of the log is message k + 1; the      *)
(* flags and indices, which only count modulo max_chunks, are tied to the  *)
(* positions of the writer (sent) and of every reader.                     *)
(***************************************************************************)

Slot(k) == k % max_chunks

Content(k) == IF k + 1 \in Overflows THEN Overflow ELSE k + 1

\* How many slots reader r has marked read.
Pos(r) == Len(received[r]) + (IF reader[r].pc = "recv" THEN 1 ELSE 0)

\* The positions the ring holds; the writer's slot is given up while it fills it.
Writes == writer.pc \in {"write", "reset"}
Window ==
    {k \in 0..(sent - 1) : IF Writes THEN k + max_chunks > sent
                                     ELSE k + max_chunks >= sent}

Positions ==
    /\ writer.current_idx = Slot(sent)
    /\ \A r \in Readers :
        /\ reader[r].current_idx = Slot(Pos(r))
        /\ Pos(r) <= sent /\ sent <= Pos(r) + max_chunks
        /\ Writes => sent < Pos(r) + max_chunks

\* What the slots hold, and what their flags say.
Contents ==
    /\ \A k \in Window :
        /\ written[Slot(k)] = 1 /\ data[Slot(k)] = Content(k)
        /\ \A r \in Readers : read[Slot(k)][r] = IF k < Pos(r) THEN 1 ELSE 0
    /\ \A c \in Chunks : written[c] = 1 => \E k \in Window : c = Slot(k)

Resets ==
    writer.pc = "reset" =>
        /\ data[writer.current_idx] = Content(sent)
        /\ \A q \in 1..(writer.rank - 1) : read[writer.current_idx][q] = 0

Copies ==
    \A r \in Readers :
        /\ reader[r].pc \in {"copy", "copied"} => Pos(r) < sent
        /\ reader[r].pc = "copied" => reader[r].obj = Content(Pos(r))
        /\ reader[r].pc = "recv" => Pos(r) \in Overflows

InOrder ==
    \A r \in Readers \cup Remotes :
        \A i \in 1..Len(received[r]) : received[r][i] = i

\* The socket of a local reader holds the overflowed payloads it has not
\* received, in order.
Handed == IF writer.pc = "send" THEN sent - 1 ELSE sent
Pending(r) == {m \in Overflows : Len(received[r]) < m /\ m <= Handed}

Payloads ==
    \A r \in Readers :
        /\ \A i \in 1..Len(socket[r]) : socket[r][i] \in Pending(r)
        /\ \A i, j \in 1..Len(socket[r]) : i < j => socket[r][i] < socket[r][j]
        /\ \A m \in Pending(r) : \E i \in 1..Len(socket[r]) : socket[r][i] = m

\* A payload that is not yet on the sockets has not been received.
Unsent ==
    writer.pc = "send" /\ sent \in Overflows =>
        \A r \in Readers : Len(received[r]) < sent

\* The socket of a remote reader holds everything it has not received.
Forwarded == IF writer.pc \in {"send", "notify", "remote"} THEN sent - 1 ELSE sent

RemoteLog ==
    \A r \in Remotes :
        /\ Len(received[r]) + Len(socket[r]) = Forwarded
        /\ \A i \in 1..Len(socket[r]) : socket[r][i] = Len(received[r]) + i

RingSide == Positions /\ Contents /\ Resets /\ Copies
DeliverySide == InOrder /\ Payloads /\ Unsent /\ RemoteLog
OInv == IInv /\ RingSide /\ DeliverySide

(***************************************************************************)
(* The slots of the ring: a position of the log modulo max_chunks.         *)
(***************************************************************************)

\* Quotient and remainder.
LEMMA Division ==
    ASSUME NEW n \in Nat, n > 0, NEW k \in Nat
    PROVE  k = n * (k \div n) + (k % n) /\ k \div n \in Nat /\ k % n \in 0..(n - 1)
  OBVIOUS

\* They are unique.
LEMMA DivisionUnique ==
    ASSUME NEW n \in Nat, n > 0, NEW k \in Nat,
           NEW q \in Nat, NEW x \in 0..(n - 1), k = n * q + x
    PROVE  k % n = x
  <1> DEFINE p == k \div n
             y == k % n
  <1>1. k = n * p + y /\ p \in Nat /\ y \in 0..(n - 1)
    BY Division
  <1> HIDE DEF p, y
  <1>2. n * q \in Nat /\ n * p \in Nat
    BY <1>1
  <1>3. ASSUME q > p PROVE n * q >= n * p + n
    <2>1. n * q = n * p + n * (q - p) /\ n * (q - p) \in Int
      BY <1>1
    <2>2. n * (q - p) >= n
      BY <1>1, <1>3
    <2> QED BY <1>2, <2>1, <2>2
  <1>4. ASSUME p > q PROVE n * p >= n * q + n
    <2>1. n * p = n * q + n * (p - q) /\ n * (p - q) \in Int
      BY <1>1
    <2>2. n * (p - q) >= n
      BY <1>1, <1>4
    <2> QED BY <1>2, <2>1, <2>2
  <1>5. x = y
    BY <1>1, <1>2, <1>3, <1>4
  <1> QED BY <1>5 DEF y

\* The ring has slots.
LEMMA ChunkCount == max_chunks \in Nat /\ max_chunks > 0
  BY QueueAssumption

\* Every position has a slot.
LEMMA SlotType == ASSUME NEW k \in Nat PROVE Slot(k) \in Chunks
  BY QueueAssumption DEF Slot, Chunks

\* The slots are used in turn.
LEMMA SlotNext == ASSUME NEW k \in Nat PROVE NextChunk(Slot(k)) = Slot(k + 1)
  <1> DEFINE n == max_chunks
             q == k \div n
             x == k % n
  <1>1. n \in Nat /\ n > 0
    BY ChunkCount
  <1>2. k = n * q + x /\ q \in Nat /\ x \in 0..(n - 1)
    BY <1>1, Division
  <1> HIDE DEF n, q, x
  <1>3. CASE x + 1 < n
    <2>1. k + 1 = n * q + (x + 1) /\ x + 1 \in 0..(n - 1)
      BY <1>1, <1>2, <1>3
    <2>2. (k + 1) % n = x + 1
      BY <1>1, <1>2, <2>1, DivisionUnique
    <2>3. x + 1 = n * 0 + (x + 1)
      BY <1>1, <1>2
    <2>4. (x + 1) % n = x + 1
      BY <1>1, <1>2, <2>1, <2>3, DivisionUnique
    <2> QED BY <2>2, <2>4 DEF Slot, NextChunk, n, x
  <1>4. CASE x + 1 = n
    <2>1. k + 1 = n * (q + 1) + 0 /\ 0 \in 0..(n - 1)
      BY <1>1, <1>2, <1>4
    <2>2. (k + 1) % n = 0
      BY <1>1, <1>2, <2>1, DivisionUnique
    <2>3. x + 1 = n * 1 + 0
      BY <1>1, <1>4
    <2>4. (x + 1) % n = 0
      BY <1>1, <1>2, <2>1, <2>3, DivisionUnique
    <2> QED BY <2>2, <2>4 DEF Slot, NextChunk, n, x
  <1> QED BY <1>1, <1>2, <1>3, <1>4

\* After max_chunks positions the same slot comes again,
LEMMA SlotWraps == ASSUME NEW k \in Nat PROVE Slot(k + max_chunks) = Slot(k)
  <1> DEFINE n == max_chunks
             q == k \div n
             x == k % n
  <1>1. n \in Nat /\ n > 0
    BY ChunkCount
  <1>2. k = n * q + x /\ q \in Nat /\ x \in 0..(n - 1)
    BY <1>1, Division
  <1> HIDE DEF n, q, x
  <1>3. k + n = n * (q + 1) + x
    BY <1>1, <1>2
  <1>4. (k + n) % n = x
    BY <1>1, <1>2, <1>3, DivisionUnique
  <1> QED BY <1>4 DEF Slot, n, x

\* and not before.
LEMMA SlotInjective ==
    ASSUME NEW a \in Nat, NEW b \in Nat, a < b, b < a + max_chunks
    PROVE  Slot(a) # Slot(b)
  <1> DEFINE n == max_chunks
             q == a \div n
             x == a % n
             d == b - a
  <1>1. n \in Nat /\ n > 0
    BY ChunkCount
  <1>2. a = n * q + x /\ q \in Nat /\ x \in 0..(n - 1)
    BY <1>1, Division
  <1>3. d \in 1..(n - 1) /\ b = a + d
    BY <1>1
  <1> HIDE DEF n, q, x, d
  <1>4. CASE x + d < n
    <2>1. b = n * q + (x + d) /\ x + d \in 0..(n - 1)
      BY <1>1, <1>2, <1>3, <1>4
    <2>2. b % n = x + d
      BY <1>1, <1>2, <2>1, DivisionUnique, Zenon
    <2>3. x + d # x
      BY <1>2, <1>3
    <2> QED BY <2>2, <2>3 DEF Slot, n, x
  <1>5. CASE x + d >= n
    <2>1. b = n * (q + 1) + (x + d - n) /\ x + d - n \in 0..(n - 1)
      BY <1>1, <1>2, <1>3, <1>5
    <2>2. b % n = x + d - n
      <3>1. q + 1 \in Nat
        BY <1>2
      <3> QED BY <1>1, <2>1, <3>1, DivisionUnique, Zenon
    <2>3. x + d - n # x
      BY <1>1, <1>2, <1>3
    <2> QED BY <2>2, <2>3 DEF Slot, n, x
  <1> QED BY <1>1, <1>2, <1>3, <1>4, <1>5

(***************************************************************************)
(* The ring side.                                                          *)
(***************************************************************************)

\* The types the proofs below use.
LEMMA OrderTypes ==
    ASSUME IInv
    PROVE  /\ sent \in Nat /\ writer \in WriterState
           /\ reader \in [Readers -> ReaderState]
           /\ RingTypes /\ DeliveryTypes
           /\ \A r \in Readers \cup Remotes : Len(received[r]) \in Nat
           /\ \A r \in Readers : Pos(r) \in Nat
           /\ Window \subseteq Nat
  <1>1. TypeOK
    BY DEF IInv
  <1>2. sent \in Nat /\ RingTypes /\ DeliveryTypes /\ writer \in WriterState
    BY <1>1, Sizes DEF TypeOK, DeliveryTypes
  <1>3. reader \in [Readers -> ReaderState]
    BY <1>1 DEF TypeOK
  <1>4. \A r \in Readers \cup Remotes : Len(received[r]) \in Nat
    BY <1>2 DEF DeliveryTypes
  <1>5. ASSUME NEW r \in Readers PROVE Pos(r) \in Nat
    <2>1. Len(received[r]) \in Nat
      BY <1>4
    <2>2. CASE reader[r].pc = "recv"
      BY <2>1, <2>2 DEF Pos
    <2>3. CASE reader[r].pc # "recv"
      BY <2>1, <2>3 DEF Pos
    <2> QED BY <2>2, <2>3
  <1>6. Window \subseteq Nat
    BY <1>2 DEF Window
  <1> QED BY <1>2, <1>3, <1>4, <1>5, <1>6

\* Two positions of the window have different slots, and the slot the writer
\* fills belongs to none of them.
LEMMA WindowSlots ==
    ASSUME IInv
    PROVE  /\ \A k, l \in Window : k # l => Slot(k) # Slot(l)
           /\ Writes => \A k \in Window : Slot(k) # Slot(sent)
  <1>1. ASSUME NEW k \in Window, NEW l \in Window, k < l PROVE Slot(k) # Slot(l)
    BY <1>1, OrderTypes, ChunkCount, SlotInjective DEF Window
  <1>2. ASSUME Writes, NEW k \in Window PROVE Slot(k) # Slot(sent)
    BY <1>2, OrderTypes, ChunkCount, SlotInjective DEF Window
  <1>3. \A k, l \in Window : k # l => k < l \/ l < k
    BY OrderTypes
  <1> QED BY <1>1, <1>2, <1>3

\* A reader's next position is in the window, unless it has read everything.
LEMMA NextIsHeld ==
    ASSUME IInv, Positions, NEW r \in Readers, Pos(r) < sent
    PROVE  Pos(r) \in Window
  BY OrderTypes, ChunkCount DEF Positions, Window

\* Steps that neither touch the ring nor move anybody.
LEMMA RingFrame ==
    ASSUME Positions, Contents, Resets,
           UNCHANGED <<written, read, data, sent>>,
           writer'.current_idx = writer.current_idx, Writes' = Writes,
           writer'.pc = "reset" => writer.pc = "reset" /\ writer'.rank = writer.rank,
           \A r \in Readers : /\ Pos(r)' = Pos(r)
                              /\ reader'[r].current_idx = reader[r].current_idx
    PROVE  (Positions /\ Contents /\ Resets)'
  <1>1. Window' = Window
    BY DEF Window
  <1>2. Positions'
    BY DEF Positions, Slot
  <1>3. Contents'
    BY <1>1 DEF Contents, Content, Slot
  <1>4. Resets'
    BY DEF Resets, Content
  <1> QED BY <1>2, <1>3, <1>4

\* Steps of the writer outside the ring.
LEMMA WriterElsewhere ==
    ASSUME IInv, RingSide, UNCHANGED <<written, read, data, sent, reader, received>>,
           writer'.current_idx = writer.current_idx, ~ Writes, ~ Writes'
    PROVE  RingSide'
  <1>1. \A r \in Readers : Pos(r)' = Pos(r)
    BY DEF Pos
  <1>2. Writes' = Writes
    BY DEF Writes
  <1>3. writer'.pc # "reset"
    BY DEF Writes
  <1>4. (Positions /\ Contents /\ Resets)'
    BY <1>1, <1>2, <1>3, RingFrame DEF RingSide
  <1>5. Copies'
    BY <1>1 DEF RingSide, Copies, Content
  <1> QED BY <1>4, <1>5 DEF RingSide

\* The writer takes a slot only when every reader is past its last content.
LEMMA SlotIsFree ==
    ASSUME IInv, RingSide, BeginWrite, NEW r \in Readers
    PROVE  sent < Pos(r) + max_chunks
  <1> DEFINE k == sent - max_chunks
  <1>1. /\ sent \in Nat /\ Pos(r) \in Nat /\ max_chunks \in Nat /\ max_chunks > 0
        /\ ~ Writes
    BY OrderTypes, ChunkCount DEF BeginWrite, Writes
  <1>2. CASE sent < max_chunks
    BY <1>1, <1>2
  <1>3. CASE sent >= max_chunks
    <2>1. k \in Nat /\ k \in Window /\ sent = k + max_chunks
      BY <1>1, <1>3 DEF Window
    <2> HIDE DEF k
    <2>2. Slot(k) = writer.current_idx
      BY <2>1, SlotWraps DEF RingSide, Positions
    <2>3. written[writer.current_idx] = 1 /\ read[writer.current_idx][r] = IF k < Pos(r) THEN 1 ELSE 0
      BY <2>1, <2>2 DEF RingSide, Contents
    <2>4. writer.count = n_reader /\ writer.rank = n_reader + 1 /\ writer.pc = "check"
      BY <2>3 DEF BeginWrite, MayWrite
    <2>5. \A q \in 1..(writer.rank - 1) : read[writer.current_idx][q] = 1
      BY <2>4, Sizes DEF IInv, CountIsEvidence
    <2>6. r \in 1..(writer.rank - 1)
      BY <2>4, Sizes DEF Readers
    <2>7. k < Pos(r)
      BY <2>3, <2>5, <2>6
    <2> QED BY <1>1, <2>1, <2>7
  <1> QED BY <1>1, <1>2, <1>3

\* The writer takes the slot of the position that leaves the window.
LEMMA BeginWriteRing == ASSUME IInv, RingSide, BeginWrite PROVE RingSide'
  <1> DEFINE c == writer.current_idx
  <1>1. c = Slot(sent) /\ c \in Chunks
    BY OrderTypes, SlotType DEF RingSide, Positions
  <1>2. /\ \A r \in Readers : Pos(r)' = Pos(r)
        /\ sent' = sent /\ reader' = reader /\ writer'.current_idx = c /\ read' = read
        /\ ~ Writes /\ Writes' /\ writer'.pc = "write"
    BY OrderTypes DEF BeginWrite, Pos, Writes, WriterState
  <1>3. \A k \in Window' : k \in Window /\ k \in Nat /\ Slot(k) # c
    BY <1>1, <1>2, OrderTypes, ChunkCount, SlotInjective DEF Window
  <1>4. Positions'
    BY <1>1, <1>2, SlotIsFree DEF RingSide, Positions, Slot
  <1>5. \A d \in Chunks \ {c} : written'[d] = written[d] /\ data'[d] = data[d]
    BY <1>1, OrderTypes DEF BeginWrite, RingTypes
  <1>6. ASSUME NEW k \in Window'
        PROVE  /\ written'[Slot(k)] = 1 /\ data'[Slot(k)] = Content(k)
               /\ \A r \in Readers : read'[Slot(k)][r] = IF k < Pos(r)' THEN 1 ELSE 0
    <2>1. k \in Window /\ Slot(k) \in Chunks \ {c}
      BY <1>3, SlotType
    <2> QED BY <1>2, <1>5, <2>1 DEF RingSide, Contents
  <1>7. ASSUME NEW d \in Chunks, written'[d] = 1 PROVE \E k \in Window' : d = Slot(k)
    <2>1. d # c
      BY <1>1, <1>7, OrderTypes DEF BeginWrite, RingTypes
    <2>2. PICK k \in Window : d = Slot(k)
      BY <1>5, <1>7, <2>1 DEF RingSide, Contents
    <2>3. k + max_chunks # sent
      BY <1>1, <2>1, <2>2, OrderTypes, SlotWraps
    <2>4. k \in Window'
      BY <1>2, <2>3, OrderTypes, ChunkCount DEF Window
    <2> QED BY <2>2, <2>4
  <1>8. Contents'
    BY <1>6, <1>7 DEF Contents, Content, Slot
  <1>9. Resets' /\ Copies'
    BY <1>2 DEF RingSide, Resets, Copies, Content
  <1> QED BY <1>4, <1>8, <1>9 DEF RingSide

\* The slot now holds the message of the next position.
LEMMA EndWriteRing == ASSUME IInv, RingSide, EndWrite PROVE RingSide'
  <1> DEFINE c == writer.current_idx
  <1>1. c = Slot(sent) /\ c \in Chunks
    BY OrderTypes, SlotType DEF RingSide, Positions
  <1>2. /\ \A r \in Readers : Pos(r)' = Pos(r)
        /\ sent' = sent /\ reader' = reader /\ writer'.current_idx = c
        /\ read' = read /\ written' = written
        /\ Writes /\ Writes' /\ writer'.rank = 1
    BY OrderTypes DEF EndWrite, Pos, Writes, WriterState
  <1>3. Window' = Window
    BY <1>2 DEF Window
  <1>4. Positions'
    BY <1>2 DEF RingSide, Positions, Slot
  <1>5. data'[c] = Content(sent) /\ \A d \in Chunks \ {c} : data'[d] = data[d]
    BY <1>1, OrderTypes DEF EndWrite, RingTypes, Content
  <1>6. \A k \in Window : Slot(k) \in Chunks \ {c}
    BY <1>1, <1>2, WindowSlots, OrderTypes, SlotType
  <1>7. Contents'
    BY <1>2, <1>3, <1>5, <1>6 DEF RingSide, Contents, Content, Slot
  <1>8. Resets' /\ Copies'
    BY <1>2, <1>5 DEF RingSide, Resets, Copies, Content
  <1> QED BY <1>4, <1>7, <1>8 DEF RingSide

\* One more reader's flag of the writer's slot is cleared.
LEMMA ResetReadFlagRing == ASSUME IInv, RingSide, ResetReadFlag PROVE RingSide'
  <1> DEFINE c == writer.current_idx
  <1>1. c = Slot(sent) /\ c \in Chunks /\ writer.rank \in Readers
    BY OrderTypes, SlotType DEF RingSide, Positions, ResetReadFlag, WriterState, Readers
  <1>2. /\ \A r \in Readers : Pos(r)' = Pos(r)
        /\ sent' = sent /\ reader' = reader /\ writer'.current_idx = c
        /\ data' = data /\ written' = written
        /\ Writes /\ Writes' /\ writer'.rank = writer.rank + 1
    BY OrderTypes DEF ResetReadFlag, Pos, Writes, WriterState
  <1>3. Window' = Window
    BY <1>2 DEF Window
  <1>4. Positions'
    BY <1>2 DEF RingSide, Positions, Slot
  <1>5. /\ \A d \in Chunks \ {c} : read'[d] = read[d]
        /\ read'[c][writer.rank] = 0
        /\ \A q \in Readers \ {writer.rank} : read'[c][q] = read[c][q]
    BY <1>1, OrderTypes DEF ResetReadFlag, RingTypes
  <1>6. \A k \in Window : Slot(k) \in Chunks \ {c}
    BY <1>1, <1>2, WindowSlots, OrderTypes, SlotType
  <1>7. Contents'
    BY <1>2, <1>3, <1>5, <1>6 DEF RingSide, Contents, Content, Slot
  <1>8. ASSUME NEW q \in 1..(writer'.rank - 1) PROVE read'[c][q] = 0
    <2>1. q \in Nat /\ q >= 1 /\ q <= writer.rank /\ writer.rank \in 1..n_reader
      BY <1>1, <1>2, Sizes DEF Readers
    <2>2. q = writer.rank \/ q \in 1..(writer.rank - 1)
      BY <2>1
    <2>3. q \in Readers
      BY <2>1, Sizes DEF Readers
    <2> QED BY <1>5, <2>2, <2>3 DEF RingSide, Resets, ResetReadFlag
  <1>9. data'[c] = Content(sent)
    BY <1>2 DEF RingSide, Resets, ResetReadFlag
  <1>10. Resets' /\ Copies'
    BY <1>2, <1>8, <1>9 DEF RingSide, Resets, Copies, Content
  <1> QED BY <1>4, <1>7, <1>10 DEF RingSide

\* The next position enters the window, unread by everybody.
LEMMA PublishRing == ASSUME IInv, RingSide, Publish PROVE RingSide'
  <1> DEFINE c == writer.current_idx
  <1>1. c = Slot(sent) /\ c \in Chunks /\ sent \in Nat
    BY OrderTypes, SlotType DEF RingSide, Positions
  <1>2. /\ \A r \in Readers : Pos(r)' = Pos(r) /\ Pos(r) \in Nat
        /\ sent' = sent + 1 /\ reader' = reader /\ writer'.current_idx = NextChunk(c)
        /\ data' = data /\ read' = read
        /\ Writes /\ ~ Writes' /\ writer'.pc = "send"
    BY OrderTypes, Zenon DEF Publish, Pos, Writes, WriterState
  <1>3. Window' = Window \cup {sent}
    BY <1>1, <1>2, ChunkCount DEF Window
  <1>4. Positions'
    <2>1. writer'.current_idx = Slot(sent')
      BY <1>1, <1>2, SlotNext
    <2>2. ASSUME NEW r \in Readers
          PROVE  /\ reader'[r].current_idx = Slot(Pos(r)')
                 /\ Pos(r)' <= sent' /\ sent' <= Pos(r)' + max_chunks
      BY <1>1, <1>2, ChunkCount DEF RingSide, Positions
    <2> QED BY <1>2, <2>1, <2>2 DEF Positions, Slot
  <1>5. written'[c] = 1 /\ \A d \in Chunks \ {c} : written'[d] = written[d]
    BY <1>1, OrderTypes DEF Publish, RingTypes
  <1>6. \A k \in Window : Slot(k) \in Chunks \ {c}
    BY <1>1, <1>2, WindowSlots, OrderTypes, SlotType
  <1>7. ASSUME NEW r \in Readers PROVE read[c][r] = 0 /\ ~ (sent < Pos(r))
    <2>1. r \in 1..(writer.rank - 1)
      BY Sizes DEF Publish, Readers
    <2> QED BY <1>1, <1>2, <2>1 DEF RingSide, Resets, Positions, Publish
  <1>8. ASSUME NEW k \in Window'
        PROVE  /\ written'[Slot(k)] = 1 /\ data'[Slot(k)] = Content(k)
               /\ \A r \in Readers : read'[Slot(k)][r] = IF k < Pos(r)' THEN 1 ELSE 0
    <2>1. CASE k \in Window
      BY <1>2, <1>5, <1>6, <2>1 DEF RingSide, Contents
    <2>2. CASE k = sent
      BY <1>1, <1>2, <1>5, <1>7, <2>2 DEF RingSide, Resets, Publish
    <2> QED BY <1>3, <2>1, <2>2
  <1>9. ASSUME NEW d \in Chunks, written'[d] = 1 PROVE \E k \in Window' : d = Slot(k)
    BY <1>1, <1>3, <1>5, <1>9 DEF RingSide, Contents
  <1>10. Contents'
    BY <1>8, <1>9 DEF Contents, Content, Slot
  <1>11. Resets' /\ Copies'
    BY <1>1, <1>2 DEF RingSide, Resets, Copies, Content
  <1> QED BY <1>4, <1>10, <1>11 DEF RingSide

\* A reader that finds its next slot written and unread has something to read.
LEMMA LoadWrittenFlagRing ==
    ASSUME IInv, RingSide, NEW r \in Readers, LoadWrittenFlag(r)
    PROVE  RingSide'
  <1>1. /\ \A q \in Readers : /\ Pos(q)' = Pos(q)
                              /\ reader'[q].current_idx = reader[q].current_idx
                              /\ reader'[q].obj = reader[q].obj
                              /\ q # r => reader'[q] = reader[q]
        /\ UNCHANGED <<written, read, data, sent, writer>>
        /\ reader'[r].pc \in {"copy", "wait"}
    BY OrderTypes, Zenon DEF LoadWrittenFlag, ring, Pos, ReaderState
  <1>2. (Positions /\ Contents /\ Resets)'
    BY <1>1, RingFrame DEF RingSide, Writes
  <1>3. ASSUME reader'[r].pc = "copy" PROVE Pos(r) < sent
    <2> DEFINE c == reader[r].current_idx
    <2>1. c \in Chunks /\ written[c] = 1 /\ reader[r].read_flag = 0 /\ reader[r].pc = "polled"
      BY <1>3, OrderTypes DEF LoadWrittenFlag, ReaderState
    <2>2. read[c][r] = 0
      BY <2>1 DEF IInv, FlagsAreOwned
    <2>3. PICK k \in Window : c = Slot(k)
      BY <2>1 DEF RingSide, Contents
    <2>4. ~ (k < Pos(r))
      BY <2>2, <2>3 DEF RingSide, Contents
    <2> QED BY <2>4, OrderTypes DEF Window
  <1>4. Copies'
    BY <1>1, <1>3 DEF RingSide, Copies, Content
  <1> QED BY <1>2, <1>4 DEF RingSide

\* What a reader copies is the message at its position.
LEMMA CopyRing == ASSUME IInv, RingSide, NEW r \in Readers, Copy(r) PROVE RingSide'
  <1>1. /\ \A q \in Readers : /\ Pos(q)' = Pos(q)
                              /\ reader'[q].current_idx = reader[q].current_idx
                              /\ q # r => reader'[q] = reader[q]
        /\ UNCHANGED <<written, read, data, sent, writer>>
        /\ reader'[r].pc = "copied" /\ reader'[r].obj = data[reader[r].current_idx]
    BY OrderTypes DEF Copy, ring, Pos, ReaderState
  <1>2. (Positions /\ Contents /\ Resets)'
    BY <1>1, RingFrame DEF RingSide, Writes
  <1>3. Pos(r) < sent
    BY DEF Copy, RingSide, Copies
  <1>4. reader'[r].obj = Content(Pos(r))
    BY <1>1, <1>3, NextIsHeld DEF RingSide, Positions, Contents
  <1>5. Copies'
    BY <1>1, <1>3, <1>4 DEF RingSide, Copies, Content
  <1> QED BY <1>2, <1>5 DEF RingSide

\* Leaving acquire_read: the reader moves on by one position.
LEMMA MarkReadRing == ASSUME IInv, RingSide, NEW r \in Readers, MarkRead(r) PROVE RingSide'
  <1> DEFINE c == reader[r].current_idx
             p == Pos(r)
  <1>1. /\ c = Slot(p) /\ c \in Chunks /\ p \in Nat /\ p < sent /\ sent \in Nat
        /\ p = Len(received[r]) /\ reader[r].obj = Content(p)
        /\ sent <= p + max_chunks /\ (Writes => sent < p + max_chunks)
    <2>1. reader[r].pc = "copied" /\ Len(received[r]) \in Nat
      BY OrderTypes DEF MarkRead
    <2>2. p = Len(received[r])
      BY <2>1 DEF Pos
    <2>3. p \in Nat /\ sent \in Nat /\ c = Slot(p)
      BY OrderTypes DEF RingSide, Positions
    <2> HIDE DEF p
    <2>4. c \in Chunks
      BY <2>3, SlotType
    <2> QED BY <2>1, <2>2, <2>3, <2>4 DEF RingSide, Positions, Copies, p
  <1>2. /\ UNCHANGED <<written, data, sent, writer>>
        /\ \A q \in Readers : q # r => reader'[q] = reader[q] /\ received'[q] = received[q]
        /\ reader'[r].current_idx = NextChunk(c)
        /\ reader'[r].pc = IF reader[r].obj = Overflow THEN "recv" ELSE "poll"
        /\ received'[r] = IF reader[r].obj = Overflow THEN received[r]
                          ELSE Append(received[r], reader[r].obj)
    BY OrderTypes DEF MarkRead, ReaderState, DeliveryTypes
  <1>3. \A q \in Readers : q # r => Pos(q)' = Pos(q)
    BY <1>2, Zenon DEF Pos
  <1>4. Pos(r)' = p + 1
    <2>1. CASE reader[r].obj = Overflow
      BY <1>1, <1>2, <2>1, Zenon DEF Pos
    <2>2. CASE reader[r].obj # Overflow
      <3>1. Len(received'[r]) = Len(received[r]) + 1
        BY <1>2, <2>2, OrderTypes DEF DeliveryTypes, ReaderState
      <3>2. reader'[r].pc = "poll"
        BY <1>2, <2>2
      <3>3. Pos(r)' = Len(received'[r]) + 0
        BY <3>2 DEF Pos
      <3> QED BY <1>1, <3>1, <3>3
    <2> QED BY <2>1, <2>2
  <1>5. p \in Window /\ Window' = Window /\ Window \subseteq Nat
    BY <1>1, <1>2, NextIsHeld, OrderTypes DEF RingSide, Window, Writes
  <1>6. /\ \A d \in Chunks \ {c} : read'[d] = read[d]
        /\ read'[c][r] = 1
        /\ \A q \in Readers \ {r} : read'[c][q] = read[c][q]
    BY <1>1, OrderTypes DEF MarkRead, RingTypes
  <1> HIDE DEF p
  <1>7. Positions'
    <2>1. reader'[r].current_idx = Slot(Pos(r)')
      BY <1>1, <1>2, <1>4, SlotNext
    <2>2. /\ Pos(r)' <= sent /\ sent <= Pos(r)' + max_chunks
          /\ Writes => sent < Pos(r)' + max_chunks
      BY <1>1, <1>4, ChunkCount
    <2> QED BY <1>2, <1>3, <2>1, <2>2 DEF RingSide, Positions, Slot, Writes
  <1>8. ASSUME NEW k \in Window, NEW q \in Readers
        PROVE  read'[Slot(k)][q] = IF k < Pos(q)' THEN 1 ELSE 0
    <2>1. read[Slot(k)][q] = IF k < Pos(q) THEN 1 ELSE 0
      BY DEF RingSide, Contents
    <2>2. CASE q # r
      BY <1>3, <1>6, <2>1, <2>2, <1>5, SlotType
    <2>3. CASE q = r /\ k = p
      BY <1>1, <1>4, <1>6, <2>3
    <2>4. CASE q = r /\ k # p
      <3>1. Slot(k) \in Chunks \ {c}
        BY <1>1, <1>5, <2>4, WindowSlots, SlotType
      <3>2. k < p + 1 <=> k < p
        BY <1>1, <1>5, <2>4
      <3> QED BY <1>4, <1>6, <2>1, <2>4, <3>1, <3>2 DEF p
    <2> QED BY <2>2, <2>3, <2>4
  <1>9. Contents'
    BY <1>2, <1>5, <1>8, Zenon DEF RingSide, Contents, Content, Slot
  <1>10. Resets'
    <2> SUFFICES ASSUME writer.pc = "reset" PROVE Resets'
      BY <1>2 DEF Resets
    <2>1. writer.current_idx \in Chunks \ {c}
      BY <1>1, <1>5, WindowSlots, OrderTypes DEF Writes, RingSide, Positions, WriterState
    <2> QED BY <1>2, <1>6, <2>1 DEF RingSide, Resets, Content
  <1>11. Copies'
    <2>1. reader'[r].pc = "recv" => Pos(r)' \in Overflows
      BY <1>1, <1>2, <1>4 DEF Content, Overflow
    <2> QED BY <1>2, <1>3, <2>1 DEF RingSide, Copies, Content
  <1> QED BY <1>7, <1>9, <1>10, <1>11 DEF RingSide

\* Steps of readers that leave their positions alone.
LEMMA ReaderElsewhere ==
    ASSUME IInv, RingSide, UNCHANGED <<written, read, data, sent, writer>>,
           \A q \in Readers :
               /\ Pos(q)' = Pos(q) /\ reader'[q].current_idx = reader[q].current_idx
               /\ reader'[q] = reader[q] \/ reader'[q].pc \notin {"copy", "copied", "recv"}
    PROVE  RingSide'
  <1>1. (Positions /\ Contents /\ Resets)'
    BY RingFrame DEF RingSide, Writes
  <1>2. Copies'
    BY DEF RingSide, Copies, Content
  <1> QED BY <1>1, <1>2 DEF RingSide

\* Receiving a payload, which completes the position already marked.
LEMMA recvRing == ASSUME IInv, RingSide, NEW r \in Readers, recv(r) PROVE RingSide'
  <1>1. UNCHANGED <<written, read, data, sent, writer>>
    BY DEF recv, ring
  <1>2. Len(received'[r]) = Len(received[r]) + 1
    BY OrderTypes DEF recv, Deliver, DeliveryTypes
  <1>3. /\ reader[r].pc = "recv" /\ reader'[r].pc = "poll"
        /\ reader'[r].current_idx = reader[r].current_idx
        /\ \A q \in Readers : q # r => reader'[q] = reader[q] /\ received'[q] = received[q]
    BY OrderTypes DEF recv, Deliver, DeliveryTypes, ReaderState
  <1>4. Pos(r)' = Pos(r)
    <2>1. Pos(r) = Len(received[r]) + 1 /\ Pos(r)' = Len(received'[r]) + 0
      BY <1>3 DEF Pos
    <2> QED BY <1>2, <2>1, OrderTypes
  <1>5. \A q \in Readers : Pos(q)' = Pos(q)
    BY <1>3, <1>4, Zenon DEF Pos
  <1> QED BY <1>1, <1>3, <1>5, ReaderElsewhere

\* Every step keeps the ring side.
LEMMA RingStep ==
    ASSUME ~ RecvTimeouts, IInv, RingSide, [Next]_vars
    PROVE  RingSide'
  <1>1. CASE enqueue \/ CountReadFlag \/ CheckAgain \/ SendOverflow \/ notify \/ SendRemote
    <2>1. UNCHANGED <<written, read, data, sent, reader, received>>
      BY <1>1 DEF enqueue, CountReadFlag, CheckAgain, SendOverflow, notify, SendRemote, ring
    <2>2. writer'.current_idx = writer.current_idx /\ ~ Writes /\ ~ Writes'
      BY <1>1, OrderTypes, Zenon DEF enqueue, CountReadFlag, CheckAgain, SendOverflow, notify,
         SendRemote, Writes, WriterState
    <2> QED BY <2>1, <2>2, WriterElsewhere
  <1>2. CASE BeginWrite
    BY <1>2, BeginWriteRing
  <1>3. CASE EndWrite
    BY <1>3, EndWriteRing
  <1>4. CASE ResetReadFlag
    BY <1>4, ResetReadFlagRing
  <1>5. CASE Publish
    BY <1>5, PublishRing
  <1>6. ASSUME NEW r \in Readers, LoadReadFlag(r) \/ WaitNotified(r) \/ WaitElapsed(r)
        PROVE  RingSide'
    <2>1. UNCHANGED <<written, read, data, sent, writer, received>>
      BY <1>6 DEF LoadReadFlag, WaitNotified, WaitElapsed, ring
    <2>2. /\ reader[r].pc # "recv" /\ reader'[r].pc \in {"poll", "polled", "cancelled"}
          /\ reader'[r].current_idx = reader[r].current_idx
          /\ \A q \in Readers : q # r => reader'[q] = reader[q]
      BY <1>6, OrderTypes DEF LoadReadFlag, WaitNotified, WaitElapsed, Wake, ReaderState
    <2>3. \A q \in Readers : Pos(q)' = Pos(q)
      BY <2>1, <2>2, Zenon DEF Pos
    <2> QED BY <2>1, <2>2, <2>3, ReaderElsewhere
  <1>7. ASSUME NEW r \in Readers, LoadWrittenFlag(r) PROVE RingSide'
    BY <1>7, LoadWrittenFlagRing
  <1>8. ASSUME NEW r \in Readers, Copy(r) PROVE RingSide'
    BY <1>8, CopyRing
  <1>9. ASSUME NEW r \in Readers, MarkRead(r) PROVE RingSide'
    BY <1>9, MarkReadRing
  <1>10. ASSUME NEW r \in Readers, recv(r) PROVE RingSide'
    BY <1>10, recvRing
  <1>11. ASSUME NEW r \in Readers, shutdown(r) PROVE RingSide'
    <2>1. UNCHANGED <<written, read, data, sent, writer, reader, received>>
      BY <1>11 DEF shutdown, ring
    <2>2. \A q \in Readers : Pos(q)' = Pos(q)
      BY <2>1 DEF Pos
    <2> QED BY <2>1, <2>2, ReaderElsewhere
  <1>12. ASSUME NEW r \in Remotes, RecvRemote(r) PROVE RingSide'
    <2>1. UNCHANGED <<written, read, data, sent, writer, reader>>
      BY <1>12 DEF RecvRemote, ring
    <2>2. \A q \in Readers : received'[q] = received[q]
      BY <1>12, OrderTypes, QueueAssumption DEF RecvRemote, Deliver, DeliveryTypes
    <2>3. \A q \in Readers : Pos(q)' = Pos(q)
      BY <2>1, <2>2, Zenon DEF Pos
    <2> QED BY <2>1, <2>3, ReaderElsewhere
  <1>13. CASE UNCHANGED vars
    <2>1. \A q \in Readers : Pos(q)' = Pos(q)
      BY <1>13 DEF vars, Pos
    <2> QED BY <1>13, <2>1, ReaderElsewhere DEF vars
  <1> QED BY <1>1, <1>2, <1>3, <1>4, <1>5, <1>6, <1>7, <1>8, <1>9, <1>10, <1>11, <1>12,
             <1>13 DEF Next, Writing, Reading, RecvTimeout

(***************************************************************************)
(* The delivery side.                                                      *)
(***************************************************************************)

\* Steps that neither hand over nor take a message.
LEMMA DeliveryFrame ==
    ASSUME DeliverySide, UNCHANGED <<received, socket>>, Handed' = Handed,
           Forwarded' = Forwarded,
           writer'.pc = "send" => writer.pc = "send" /\ sent' = sent
    PROVE  DeliverySide'
  <1>1. \A r \in Readers : Pending(r)' = Pending(r)
    BY DEF Pending
  <1>2. InOrder' /\ RemoteLog'
    BY Zenon DEF DeliverySide, InOrder, RemoteLog
  <1>3. Payloads' /\ Unsent'
    BY <1>1 DEF DeliverySide, Payloads, Unsent
  <1> QED BY <1>2, <1>3 DEF DeliverySide

\* What Append and Tail do to a sequence, element by element.
LEMMA Appended ==
    ASSUME NEW S, NEW s \in Seq(S), NEW x \in S
    PROVE  /\ Len(Append(s, x)) = Len(s) + 1
           /\ \A i \in 1..Len(s) : Append(s, x)[i] = s[i]
           /\ Append(s, x)[Len(s) + 1] = x
  OBVIOUS

\* And what Tail leaves.
LEMMA Shortened ==
    ASSUME NEW S, NEW s \in Seq(S), s # <<>>
    PROVE  /\ Len(s) >= 1 /\ Len(Tail(s)) = Len(s) - 1 /\ Head(s) = s[1]
           /\ \A i \in 1..(Len(s) - 1) : Tail(s)[i] = s[i + 1]
  OBVIOUS

\* The payload of the message just published goes to every local reader.
LEMMA SendOverflowDelivery == ASSUME IInv, DeliverySide, SendOverflow PROVE DeliverySide'
  <1>1. /\ received' = received /\ sent' = sent /\ sent \in Nat /\ sent \in Messages
        /\ Handed = sent - 1 /\ Handed' = sent /\ Forwarded' = Forwarded
        /\ writer.pc = "send" /\ writer'.pc = "notify"
    <2>1. writer.pc = "send" /\ writer'.pc = "notify" /\ received' = received /\ sent' = sent
      BY OrderTypes DEF SendOverflow, WriterState
    <2>2. sent > 0
      BY <2>1 DEF IInv, SentInRange
    <2>3. sent \in Messages
      BY <2>2, OrderTypes, Sizes DEF DeliveryTypes, Messages
    <2> QED BY <2>1, <2>3, OrderTypes DEF Handed, Forwarded
  <1>2. \A r \in Remotes : socket'[r] = socket[r]
    BY QueueAssumption, OrderTypes DEF SendOverflow, DeliveryTypes
  <1>3. InOrder' /\ Unsent' /\ RemoteLog'
    BY <1>1, <1>2, Zenon DEF DeliverySide, InOrder, Unsent, RemoteLog
  <1>4. ASSUME NEW r \in Readers
        PROVE  /\ \A i \in 1..Len(socket'[r]) : socket'[r][i] \in Pending(r)'
               /\ \A i, j \in 1..Len(socket'[r]) : i < j => socket'[r][i] < socket'[r][j]
               /\ \A m \in Pending(r)' : \E i \in 1..Len(socket'[r]) : socket'[r][i] = m
    <2> DEFINE s == socket[r]
               t == socket'[r]
    <2>1. s \in Seq(Messages) /\ Len(s) \in Nat /\ Len(received[r]) \in Nat
      BY OrderTypes DEF DeliveryTypes
    <2>2. /\ \A i \in 1..Len(s) : s[i] \in Pending(r)
          /\ \A i, j \in 1..Len(s) : i < j => s[i] < s[j]
          /\ \A m \in Pending(r) : \E i \in 1..Len(s) : s[i] = m
      BY DEF DeliverySide, Payloads
    <2>3. Overflows \subseteq Nat
      BY QueueAssumption DEF Messages
    <2>4. CASE sent \notin Overflows
      <3>1. t = s
        BY <2>4, OrderTypes DEF SendOverflow, DeliveryTypes
      <3>2. Pending(r)' = Pending(r)
        <4>1. \A m \in Overflows : m <= sent - 1 <=> m <= sent
          BY <1>1, <2>3, <2>4
        <4> QED BY <1>1, <4>1 DEF Pending
      <3> QED BY <2>2, <3>1, <3>2
    <2>5. CASE sent \in Overflows
      <3>1. t = Append(s, sent)
        BY <2>5, OrderTypes DEF SendOverflow, DeliveryTypes
      <3>2. /\ Len(t) = Len(s) + 1 /\ t[Len(s) + 1] = sent
            /\ \A i \in 1..Len(s) : t[i] = s[i]
        BY <1>1, <2>1, <3>1, Appended
      <3>3. Len(received[r]) < sent
        BY <1>1, <2>5 DEF DeliverySide, Unsent
      <3>4. Pending(r)' = Pending(r) \cup {sent} /\ \A m \in Pending(r) : m < sent
        <4>1. \A m \in Overflows : m <= sent <=> m <= sent - 1 \/ m = sent
          BY <1>1, <2>3
        <4>2. \A m \in Overflows : m <= sent - 1 => m < sent
          BY <1>1, <2>3
        <4> QED BY <1>1, <2>5, <3>3, <4>1, <4>2, Zenon DEF Pending
      <3> HIDE DEF s, t
      <3>5. \A i \in 1..Len(t) : i \in 1..Len(s) \/ i = Len(s) + 1
        BY <2>1, <3>2
      <3>6. \A i \in 1..Len(t) : t[i] \in Pending(r)'
        BY <2>2, <3>2, <3>4, <3>5
      <3>7. ASSUME NEW i \in 1..Len(t), NEW j \in 1..Len(t), i < j PROVE t[i] < t[j]
        BY <2>1, <2>2, <3>2, <3>4, <3>5, <3>7
      <3>8. ASSUME NEW m \in Pending(r)' PROVE \E i \in 1..Len(t) : t[i] = m
        <4>1. Len(s) + 1 \in 1..Len(t) /\ \A i \in 1..Len(s) : i \in 1..Len(t)
          BY <2>1, <3>2
        <4> QED BY <2>2, <3>2, <3>4, <4>1
      <3> QED BY <3>6, <3>7, <3>8 DEF t
    <2> QED BY <2>4, <2>5
  <1>5. Payloads'
    BY <1>4 DEF Payloads
  <1> QED BY <1>3, <1>5 DEF DeliverySide

\* Every message goes to every remote reader.
LEMMA SendRemoteDelivery == ASSUME IInv, DeliverySide, SendRemote PROVE DeliverySide'
  <1>1. /\ received' = received /\ sent' = sent /\ sent \in Messages /\ sent \in Nat
        /\ Handed' = Handed /\ Forwarded = sent - 1 /\ Forwarded' = sent
        /\ writer'.pc = "idle"
    <2>1. writer.pc = "remote" /\ writer'.pc = "idle" /\ received' = received /\ sent' = sent
      BY OrderTypes DEF SendRemote, WriterState
    <2>2. sent > 0
      BY <2>1 DEF IInv, SentInRange
    <2>3. sent \in Messages
      BY <2>2, OrderTypes, Sizes DEF DeliveryTypes, Messages
    <2> QED BY <2>1, <2>3, OrderTypes DEF Handed, Forwarded
  <1>2. \A r \in Readers : socket'[r] = socket[r]
    BY QueueAssumption, OrderTypes DEF SendRemote, DeliveryTypes
  <1>3. InOrder' /\ Unsent' /\ Payloads'
    BY <1>1, <1>2 DEF DeliverySide, InOrder, Unsent, Payloads, Pending
  <1>4. ASSUME NEW r \in Remotes
        PROVE  /\ Len(received'[r]) + Len(socket'[r]) = Forwarded'
               /\ \A i \in 1..Len(socket'[r]) : socket'[r][i] = Len(received'[r]) + i
    <2> DEFINE s == socket[r]
               t == socket'[r]
    <2>1. s \in Seq(Messages) /\ Len(s) \in Nat /\ Len(received[r]) \in Nat
      BY OrderTypes DEF DeliveryTypes
    <2>2. t = Append(s, sent)
      BY OrderTypes DEF SendRemote, DeliveryTypes
    <2>3. /\ Len(t) = Len(s) + 1 /\ t[Len(s) + 1] = sent
          /\ \A i \in 1..Len(s) : t[i] = s[i]
      BY <1>1, <2>1, <2>2, Appended
    <2>4. /\ Len(received[r]) + Len(s) = sent - 1
          /\ \A i \in 1..Len(s) : s[i] = Len(received[r]) + i
      BY <1>1, Zenon DEF DeliverySide, RemoteLog
    <2> DEFINE n == Len(received[r])
    <2> HIDE DEF s, t, n
    <2>5. n \in Nat /\ n + Len(s) = sent - 1 /\ \A i \in 1..Len(s) : s[i] = n + i
      BY <2>1, <2>4 DEF n
    <2>6. \A i \in 1..Len(t) : t[i] = n + i
      <3>1. \A i \in 1..Len(t) : i \in 1..Len(s) \/ i = Len(s) + 1
        BY <2>1, <2>3
      <3>2. sent = n + (Len(s) + 1)
        BY <1>1, <2>1, <2>5
      <3> QED BY <2>3, <2>5, <3>1, <3>2
    <2>7. n + Len(t) = sent
      BY <1>1, <2>1, <2>3, <2>5
    <2> QED BY <1>1, <2>6, <2>7, Zenon DEF t, n
  <1> QED BY <1>3, <1>4, Zenon DEF DeliverySide, RemoteLog

\* A reader that receives the next message of the log keeps its history in order.
LEMMA TakeNext ==
    ASSUME IInv, InOrder, NEW r \in Readers \cup Remotes,
           NEW x \in Messages \cup {Torn}, x = Len(received[r]) + 1,
           received' = [received EXCEPT ![r] = Append(@, x)]
    PROVE  /\ InOrder'
           /\ Len(received'[r]) = Len(received[r]) + 1
           /\ \A q \in Readers \cup Remotes : q # r => received'[q] = received[q]
  <1> DEFINE s == received[r]
             t == received'[r]
  <1>1. s \in Seq(Messages \cup {Torn}) /\ Len(s) \in Nat /\ t = Append(s, x)
    BY OrderTypes DEF DeliveryTypes
  <1>2. \A q \in Readers \cup Remotes : q # r => received'[q] = received[q]
    BY OrderTypes DEF DeliveryTypes
  <1>3. Len(t) = Len(s) + 1 /\ t[Len(s) + 1] = x /\ \A i \in 1..Len(s) : t[i] = s[i]
    BY <1>1, Appended
  <1>4. \A i \in 1..Len(s) : s[i] = i
    BY DEF InOrder
  <1> HIDE DEF t
  <1>5. \A i \in 1..Len(t) : i \in 1..Len(s) \/ i = Len(s) + 1
    BY <1>1, <1>3
  <1>6. \A i \in 1..Len(t) : t[i] = i
    BY <1>3, <1>4, <1>5
  <1> QED BY <1>2, <1>3, <1>6 DEF InOrder, t

\* The first payload on a reader's socket is the one it waits for.
LEMMA HeadIsNext ==
    ASSUME IInv, RingSide, DeliverySide, NEW r \in Readers,
           reader[r].pc = "recv", socket[r] # <<>>
    PROVE  Head(socket[r]) = Len(received[r]) + 1 /\ Len(received[r]) + 1 \in Pending(r)
  <1> DEFINE s == socket[r]
             n == Len(received[r])
  <1>1. s \in Seq(Messages) /\ n \in Nat /\ sent \in Nat /\ Overflows \subseteq Nat
    BY OrderTypes, QueueAssumption DEF DeliveryTypes, Messages
  <1>2. Len(s) \in Nat /\ Len(s) >= 1 /\ Head(s) = s[1]
    BY <1>1, Shortened
  <1>3. n + 1 \in Overflows
    BY Zenon DEF RingSide, Copies, Pos
  <1>4. /\ s[1] \in Pending(r)
        /\ \A i \in 1..Len(s) : 1 < i => s[1] < s[i]
        /\ \A m \in Pending(r) : \E i \in 1..Len(s) : s[i] = m
    BY <1>2 DEF DeliverySide, Payloads
  <1>5. n < s[1] /\ s[1] <= Handed /\ s[1] \in Nat /\ Handed \in Int
    <2>1. n < s[1] /\ s[1] <= Handed /\ s[1] \in Nat
      BY <1>1, <1>4, Zenon DEF Pending
    <2>2. Handed \in Int
      BY <1>1 DEF Handed
    <2> QED BY <2>1, <2>2
  <1> HIDE DEF s
  <1>6. n + 1 <= Handed
    BY <1>1, <1>5
  <1>7. n + 1 \in Pending(r)
    BY <1>1, <1>3, <1>6 DEF Pending
  <1>8. PICK i \in 1..Len(s) : s[i] = n + 1
    BY <1>4, <1>7
  <1>9. i = 1
    BY <1>1, <1>2, <1>4, <1>5, <1>8
  <1> QED BY <1>2, <1>7, <1>8, <1>9 DEF s

\* A reader leaves acquire_read with a message, or to wait for its payload.
LEMMA MarkReadDelivery ==
    ASSUME IInv, RingSide, DeliverySide, NEW r \in Readers, MarkRead(r)
    PROVE  DeliverySide'
  <1>1. UNCHANGED <<socket, sent, writer>>
    BY DEF MarkRead
  <1>2. Handed' = Handed /\ Forwarded' = Forwarded
    BY <1>1 DEF Handed, Forwarded
  <1>3. CASE reader[r].obj = Overflow
    <2>1. received' = received
      BY <1>3 DEF MarkRead
    <2> QED BY <1>1, <1>2, <2>1, DeliveryFrame
  <1>4. CASE reader[r].obj # Overflow
    <2> DEFINE n == Len(received[r])
    <2>1. n \in Nat /\ sent \in Nat /\ reader[r].pc = "copied"
      BY OrderTypes DEF MarkRead
    <2>2. Pos(r) = n
      BY <2>1 DEF Pos
    <2>3. reader[r].obj = n + 1 /\ n + 1 \notin Overflows /\ n < sent
      BY <1>4, <2>1, <2>2 DEF RingSide, Copies, Content
    <2>4. reader[r].obj \in Messages \cup {Torn}
      BY <1>4, OrderTypes DEF ReaderState
    <2>5. received' = [received EXCEPT ![r] = Append(@, reader[r].obj)]
      BY <1>4 DEF MarkRead
    <2>6. /\ InOrder' /\ Len(received'[r]) = n + 1
          /\ \A q \in Readers \cup Remotes : q # r => received'[q] = received[q]
      BY <2>3, <2>4, <2>5, TakeNext, Zenon DEF DeliverySide
    <2> HIDE DEF n
    <2>7. RemoteLog'
      BY <1>1, <1>2, <2>6, QueueAssumption, Zenon DEF DeliverySide, RemoteLog
    <2>8. Unsent'
      <3> SUFFICES ASSUME writer.pc = "send", sent \in Overflows, NEW q \in Readers
                   PROVE  Len(received'[q]) < sent
        BY <1>1 DEF Unsent
      <3>1. n + 1 < sent
        BY <2>1, <2>3
      <3> QED BY <2>6, <3>1 DEF DeliverySide, Unsent
    <2>9. Pending(r)' = Pending(r)
      <3>1. \A m \in Overflows : n < m <=> n + 1 < m
        BY <2>1, <2>3, QueueAssumption DEF Messages
      <3> QED BY <1>2, <2>6, <3>1 DEF Pending, n
    <2>10. \A q \in Readers : Pending(q)' = Pending(q)
      BY <1>2, <2>6, <2>9 DEF Pending
    <2>11. Payloads'
      BY <1>1, <2>10 DEF DeliverySide, Payloads
    <2> QED BY <2>6, <2>7, <2>8, <2>11 DEF DeliverySide
  <1> QED BY <1>3, <1>4

\* A payload is received.
LEMMA recvDelivery ==
    ASSUME IInv, RingSide, DeliverySide, NEW r \in Readers, recv(r)
    PROVE  DeliverySide'
  <1> DEFINE n == Len(received[r])
             s == socket[r]
             t == socket'[r]
  <1>1. UNCHANGED <<sent, writer>>
    BY DEF recv
  <1>2. Handed' = Handed /\ Forwarded' = Forwarded
    BY <1>1 DEF Handed, Forwarded
  <1>3. Head(s) = n + 1 /\ n + 1 \in Pending(r) /\ s # <<>>
    BY HeadIsNext DEF recv, Deliver
  <1>4. /\ n \in Nat /\ sent \in Nat /\ s \in Seq(Messages) /\ Len(s) \in Nat
        /\ Overflows \subseteq Nat /\ n + 1 \in Messages \cup {Torn}
    BY <1>3, OrderTypes, QueueAssumption DEF DeliveryTypes, Messages, Pending
  <1>5. received' = [received EXCEPT ![r] = Append(@, n + 1)]
    BY <1>3, Zenon DEF recv, Deliver
  <1>6. /\ InOrder' /\ Len(received'[r]) = n + 1
        /\ \A q \in Readers \cup Remotes : q # r => received'[q] = received[q]
    BY <1>4, <1>5, TakeNext, Zenon DEF DeliverySide
  <1>7. t = Tail(s) /\ \A q \in Readers \cup Remotes : q # r => socket'[q] = socket[q]
    BY OrderTypes DEF recv, Deliver, DeliveryTypes
  <1>8. /\ Len(s) >= 1 /\ Len(t) = Len(s) - 1 /\ s[1] = n + 1
        /\ \A i \in 1..(Len(s) - 1) : t[i] = s[i + 1]
    BY <1>3, <1>4, <1>7, Shortened
  <1>9. /\ \A i \in 1..Len(s) : s[i] \in Pending(r)
        /\ \A i, j \in 1..Len(s) : i < j => s[i] < s[j]
        /\ \A m \in Pending(r) : \E i \in 1..Len(s) : s[i] = m
    BY DEF DeliverySide, Payloads
  <1>10. RemoteLog'
    <2>1. \A q \in Remotes : received'[q] = received[q] /\ socket'[q] = socket[q]
      BY <1>6, <1>7, QueueAssumption
    <2> QED BY <1>2, <2>1, Zenon DEF DeliverySide, RemoteLog
  <1> HIDE DEF n, s, t
  <1>11. Unsent'
    <2> SUFFICES ASSUME writer.pc = "send", sent \in Overflows, NEW q \in Readers
                 PROVE  Len(received'[q]) < sent
      BY <1>1 DEF Unsent
    <2>1. n + 1 <= sent - 1
      BY <1>3 DEF Pending, Handed
    <2>2. n + 1 < sent
      BY <1>4, <2>1
    <2> QED BY <1>6, <2>2 DEF DeliverySide, Unsent
  <1>12. Pending(r)' = Pending(r) \ {n + 1}
    <2>1. \A m \in Overflows : n + 1 < m <=> n < m /\ m # n + 1
      BY <1>4
    <2> QED BY <1>2, <1>6, <2>1 DEF Pending, n
  <1>13. \A q \in Readers : q # r => Pending(q)' = Pending(q)
    BY <1>2, <1>6 DEF Pending
  <1>14. ASSUME NEW i \in 1..Len(t)
         PROVE  i \in 1..(Len(s) - 1) /\ i + 1 \in 1..Len(s) /\ 1 \in 1..Len(s) /\ 1 < i + 1
    BY <1>4, <1>8
  <1>15. ASSUME NEW i \in 1..Len(t) PROVE t[i] \in Pending(r)'
    <2>1. t[i] = s[i + 1] /\ s[1] < s[i + 1] /\ s[i + 1] \in Pending(r) /\ s[i + 1] \in Nat
      BY <1>4, <1>8, <1>9, <1>14, Zenon DEF Pending
    <2> QED BY <1>4, <1>8, <1>12, <2>1
  <1>16. ASSUME NEW i \in 1..Len(t), NEW j \in 1..Len(t), i < j PROVE t[i] < t[j]
    <2>1. t[i] = s[i + 1] /\ t[j] = s[j + 1] /\ i + 1 \in 1..Len(s) /\ j + 1 \in 1..Len(s)
      BY <1>8, <1>14
    <2>2. i + 1 < j + 1
      BY <1>16
    <2> QED BY <1>9, <2>1, <2>2
  <1>17. ASSUME NEW m \in Pending(r)' PROVE \E i \in 1..Len(t) : t[i] = m
    <2>1. PICK i \in 1..Len(s) : s[i] = m
      BY <1>9, <1>12
    <2>2. i # 1
      BY <1>8, <1>12, <2>1
    <2>3. i - 1 \in 1..Len(t) /\ i - 1 \in 1..(Len(s) - 1) /\ (i - 1) + 1 = i
      BY <1>4, <1>8, <2>2
    <2>4. t[i - 1] = m
      BY <1>8, <2>1, <2>3
    <2> QED BY <2>3, <2>4
  <1>18. Payloads'
    <2> SUFFICES ASSUME NEW q \in Readers
                 PROVE  /\ \A i \in 1..Len(socket'[q]) : socket'[q][i] \in Pending(q)'
                        /\ \A i, j \in 1..Len(socket'[q]) : i < j => socket'[q][i] < socket'[q][j]
                        /\ \A m \in Pending(q)' : \E i \in 1..Len(socket'[q]) : socket'[q][i] = m
      BY Zenon DEF Payloads
    <2>1. CASE q = r
      BY <1>15, <1>16, <1>17, <2>1 DEF t
    <2>2. CASE q # r
      BY <1>7, <1>13, <2>2 DEF DeliverySide, Payloads
    <2> QED BY <2>1, <2>2
  <1> QED BY <1>6, <1>10, <1>11, <1>18 DEF DeliverySide

\* A remote reader receives the next message.
LEMMA RemoteHead ==
    ASSUME IInv, DeliverySide, NEW r \in Remotes, socket[r] # <<>>
    PROVE  /\ Head(socket[r]) = Len(received[r]) + 1
           /\ Head(socket[r]) \in Messages /\ Len(received[r]) + 1 <= sent
  <1> DEFINE s == socket[r]
             n == Len(received[r])
  <1>1. s \in Seq(Messages) /\ n \in Nat /\ sent \in Nat /\ Len(s) \in Nat
    BY OrderTypes DEF DeliveryTypes
  <1>2. Len(s) >= 1 /\ Head(s) = s[1] /\ Head(s) \in Messages
    BY <1>1, Shortened
  <1>3. n + Len(s) = Forwarded /\ s[1] = n + 1
    <2>1. n + Len(s) = Forwarded /\ \A i \in 1..Len(s) : s[i] = n + i
      BY Zenon DEF DeliverySide, RemoteLog
    <2>2. 1 \in 1..Len(s)
      BY <1>1, <1>2
    <2> QED BY <2>1, <2>2, Zenon
  <1>4. Forwarded \in Int /\ Forwarded <= sent
    BY <1>1 DEF Forwarded
  <1> HIDE DEF s, n
  <1>5. n + 1 <= sent
    BY <1>1, <1>2, <1>3, <1>4
  <1> QED BY <1>2, <1>3, <1>5 DEF s, n

\* A remote reader takes the head of its socket.
LEMMA RecvRemoteDelivery ==
    ASSUME IInv, DeliverySide, NEW r \in Remotes, RecvRemote(r)
    PROVE  DeliverySide'
  <1> DEFINE n == Len(received[r])
             s == socket[r]
             t == socket'[r]
  <1>1. UNCHANGED <<sent, writer>>
    BY DEF RecvRemote
  <1>2. Handed' = Handed /\ Forwarded' = Forwarded
    BY <1>1 DEF Handed, Forwarded
  <1>3. Head(s) = n + 1 /\ Head(s) \in Messages /\ s # <<>>
    BY RemoteHead DEF RecvRemote, Deliver
  <1>4. n \in Nat /\ s \in Seq(Messages) /\ Len(s) \in Nat
    BY OrderTypes DEF DeliveryTypes
  <1>5. received' = [received EXCEPT ![r] = Append(@, Head(s))]
    BY DEF RecvRemote, Deliver
  <1>6. /\ InOrder' /\ Len(received'[r]) = n + 1
        /\ \A q \in Readers \cup Remotes : q # r => received'[q] = received[q]
    BY <1>3, <1>5, TakeNext, Zenon DEF DeliverySide
  <1>7. t = Tail(s) /\ \A q \in Readers \cup Remotes : q # r => socket'[q] = socket[q]
    BY OrderTypes DEF RecvRemote, Deliver, DeliveryTypes
  <1>8. /\ Len(s) >= 1 /\ Len(t) = Len(s) - 1
        /\ \A i \in 1..(Len(s) - 1) : t[i] = s[i + 1]
    BY <1>3, <1>4, <1>7, Shortened
  <1>9. n + Len(s) = Forwarded /\ \A i \in 1..Len(s) : s[i] = n + i
    BY Zenon DEF DeliverySide, RemoteLog
  <1>10. \A q \in Readers : Pending(q)' = Pending(q) /\ socket'[q] = socket[q] /\ received'[q] = received[q]
    BY <1>2, <1>6, <1>7, QueueAssumption DEF Pending
  <1>11. Payloads' /\ Unsent'
    BY <1>1, <1>10 DEF DeliverySide, Payloads, Unsent
  <1> HIDE DEF n, s, t
  <1>12. (n + 1) + Len(t) = Forwarded
    BY <1>4, <1>8, <1>9
  <1>13. ASSUME NEW i \in 1..Len(t) PROVE t[i] = (n + 1) + i
    <2>1. i \in 1..(Len(s) - 1) /\ i + 1 \in 1..Len(s)
      BY <1>4, <1>8
    <2>2. t[i] = n + (i + 1)
      BY <1>8, <1>9, <2>1
    <2> QED BY <1>4, <2>2
  <1>14. RemoteLog'
    <2> SUFFICES ASSUME NEW q \in Remotes
                 PROVE  /\ Len(received'[q]) + Len(socket'[q]) = Forwarded'
                        /\ \A i \in 1..Len(socket'[q]) : socket'[q][i] = Len(received'[q]) + i
      BY Zenon DEF RemoteLog
    <2>1. CASE q = r
      <3>1. Len(received'[q]) = n + 1 /\ socket'[q] = t
        BY <1>6, <2>1 DEF t
      <3> QED BY <1>2, <1>12, <1>13, <3>1
    <2>2. CASE q # r
      <3>1. received'[q] = received[q] /\ socket'[q] = socket[q]
        BY <1>6, <1>7, <2>2
      <3> QED BY <1>2, <3>1, Zenon DEF DeliverySide, RemoteLog
    <2> QED BY <2>1, <2>2, Zenon
  <1> QED BY <1>6, <1>11, <1>14 DEF DeliverySide

\* Publishing hands nothing over yet.
LEMMA PublishDelivery ==
    ASSUME IInv, RingSide, DeliverySide, Publish
    PROVE  DeliverySide'
  <1>1. /\ UNCHANGED <<received, socket, reader>> /\ sent' = sent + 1 /\ sent \in Nat
        /\ writer.pc = "reset" /\ writer'.pc = "send"
    BY OrderTypes DEF Publish, WriterState
  <1>2. Handed' = Handed /\ Forwarded' = Forwarded
    BY <1>1 DEF Handed, Forwarded
  <1>3. \A r \in Readers : Pending(r)' = Pending(r)
    BY <1>1, <1>2 DEF Pending
  <1>4. InOrder' /\ RemoteLog'
    BY <1>1, <1>2, Zenon DEF DeliverySide, InOrder, RemoteLog
  <1>5. Payloads'
    BY Zenon, <1>1, <1>3 DEF DeliverySide, Payloads
  <1>6. ASSUME NEW r \in Readers PROVE Len(received[r]) < sent + 1
    <2>1. Len(received[r]) \in Nat /\ Pos(r) <= sent
      BY OrderTypes DEF RingSide, Positions
    <2>2. CASE reader[r].pc = "recv"
      <3>1. Pos(r) = Len(received[r]) + 1
        BY <2>2 DEF Pos
      <3> QED BY <1>1, <2>1, <3>1
    <2>3. CASE reader[r].pc # "recv"
      <3>1. Pos(r) = Len(received[r]) + 0
        BY <2>3 DEF Pos
      <3> QED BY <1>1, <2>1, <3>1
    <2> QED BY <2>2, <2>3
  <1>7. Unsent'
    BY <1>1, <1>6 DEF Unsent
  <1> QED BY <1>4, <1>5, <1>7 DEF DeliverySide

\* Every step keeps the delivery side.
LEMMA DeliveryStep ==
    ASSUME ~ RecvTimeouts, IInv, RingSide, DeliverySide, [Next]_vars
    PROVE  DeliverySide'
  <1>1. CASE \/ enqueue \/ CountReadFlag \/ CheckAgain \/ BeginWrite \/ EndWrite
             \/ ResetReadFlag \/ notify
    <2>1. UNCHANGED <<received, socket, sent>>
      BY <1>1 DEF enqueue, CountReadFlag, CheckAgain, BeginWrite, EndWrite,
         ResetReadFlag, notify
    <2>2. \/ /\ writer.pc \in {"idle", "check", "write", "reset"}
             /\ writer'.pc \in {"idle", "check", "write", "reset"}
          \/ writer.pc = "notify" /\ writer'.pc = "remote"
      BY <1>1, OrderTypes, Zenon DEF enqueue, CountReadFlag, CheckAgain, BeginWrite, EndWrite,
         ResetReadFlag, notify, WriterState
    <2>3. Handed' = Handed /\ Forwarded' = Forwarded
      BY <2>1, <2>2 DEF Handed, Forwarded
    <2> QED BY <2>1, <2>2, <2>3, DeliveryFrame
  <1>2. CASE Publish
    BY <1>2, PublishDelivery
  <1>3. CASE SendOverflow
    BY <1>3, SendOverflowDelivery
  <1>4. CASE SendRemote
    BY <1>4, SendRemoteDelivery
  <1>5. CASE \/ \E r \in Readers : \/ LoadReadFlag(r) \/ LoadWrittenFlag(r)
                                   \/ WaitNotified(r) \/ WaitElapsed(r) \/ Copy(r)
                                   \/ shutdown(r)
             \/ UNCHANGED vars
    <2>1. UNCHANGED <<received, socket, sent, writer>>
      BY <1>5, Zenon DEF LoadReadFlag, LoadWrittenFlag, WaitNotified, WaitElapsed, Copy,
         shutdown, vars
    <2>2. Handed' = Handed /\ Forwarded' = Forwarded
      BY <2>1 DEF Handed, Forwarded
    <2> QED BY <2>1, <2>2, DeliveryFrame
  <1>6. ASSUME NEW r \in Readers, MarkRead(r) PROVE DeliverySide'
    BY <1>6, MarkReadDelivery
  <1>7. ASSUME NEW r \in Readers, recv(r) PROVE DeliverySide'
    BY <1>7, recvDelivery
  <1>8. ASSUME NEW r \in Remotes, RecvRemote(r) PROVE DeliverySide'
    BY <1>8, RecvRemoteDelivery
  <1> QED BY <1>1, <1>2, <1>3, <1>4, <1>5, <1>6, <1>7, <1>8
          DEF Next, Writing, Reading, RecvTimeout

\* The empty ring with its sockets satisfies the invariant.
LEMMA InitOInv == Init => OInv
  <1> SUFFICES ASSUME Init PROVE OInv
    OBVIOUS
  <1>1. IInv
    BY InitIInv
  <1>2. /\ sent = 0 /\ writer.pc = "idle" /\ writer.current_idx = 0
        /\ \A r \in Readers : reader[r].pc = "poll" /\ reader[r].current_idx = 0
        /\ \A r \in Readers \cup Remotes :
              received[r] = <<>> /\ socket[r] = <<>>
        /\ \A c \in Chunks : written[c] = 0
    BY DEF Init
  <1>3. /\ \A r \in Readers \cup Remotes : Len(received[r]) = 0 /\ Len(socket[r]) = 0
        /\ Window = {} /\ ~ Writes
    BY <1>2 DEF Window, Writes
  <1>4. ASSUME NEW r \in Readers PROVE Pos(r) = 0
    <2>1. Pos(r) = 0 + 0
      BY <1>2, <1>3, Zenon DEF Pos
    <2> QED BY <2>1
  <1>5. Slot(0) = 0
    BY ChunkCount DEF Slot
  <1>6. Positions
    BY <1>2, <1>3, <1>4, <1>5, ChunkCount DEF Positions
  <1>7. Contents /\ Resets /\ Copies
    BY <1>2, <1>3 DEF Contents, Resets, Copies
  <1>8. Handed = 0 /\ Forwarded = 0
    BY <1>2 DEF Handed, Forwarded
  <1>9. InOrder /\ Unsent
    BY <1>2, <1>3 DEF InOrder, Unsent
  <1>12. ASSUME NEW r \in Remotes
         PROVE  /\ Len(received[r]) + Len(socket[r]) = Forwarded
                /\ \A i \in 1..Len(socket[r]) : socket[r][i] = Len(received[r]) + i
    <2>1. Len(received[r]) = 0 /\ Len(socket[r]) = 0
      BY <1>3
    <2> QED BY <1>8, <2>1
  <1>13. RemoteLog
    BY <1>12, Zenon DEF RemoteLog
  <1>14. \A m \in Overflows : m \in Nat /\ m > 0
    BY QueueAssumption DEF Messages
  <1>10. ASSUME NEW r \in Readers PROVE Pending(r) = {}
    <2>1. Len(received[r]) = 0
      BY <1>3
    <2> QED BY <1>8, <1>14, <2>1 DEF Pending
  <1>11. Payloads
    BY <1>3, <1>10 DEF Payloads
  <1> QED BY <1>1, <1>6, <1>7, <1>9, <1>11, <1>13 DEF OInv, RingSide, DeliverySide

\* With callers that wait for their payloads, the invariant holds at every step.
THEOREM OrderInvariance == ASSUME ~ RecvTimeouts PROVE Spec => []OInv
  <1>1. OInv /\ IInv' /\ [Next]_vars => OInv'
    BY RingStep, DeliveryStep DEF OInv
  <1> QED BY InitOInv, RingInvariance, <1>1, PTL DEF Spec

(***************************************************************************)
(* The steps of the ring are steps of the broadcast queue.                 *)
(***************************************************************************)

Log(n) == [i \in 1..n |-> i]

\* The log is the sequence of the first n messages.
LEMMA LogGrows ==
    ASSUME NEW n \in Nat
    PROVE  /\ Log(n) \in Seq(Nat) /\ Len(Log(n)) = n
           /\ Append(Log(n), n + 1) = Log(n + 1)
           /\ \A i \in 1..n : Log(n)[i] = i
  BY DEF Log

Gone == {r \in Readers : reader[r].pc = "cancelled"}

\* Publishing is enqueue: the writer is at most max_chunks slots ahead of the
\* positions, and a position at most one payload ahead of what was received.
LEMMA PublishEnqueues ==
    ASSUME OInv, Publish
    PROVE  Queue!Next
  <1>1. /\ sent \in Nat /\ sent' = sent + 1 /\ sent < MaxMessages
        /\ UNCHANGED <<received, reader>> /\ Writes
    BY OrderTypes DEF OInv, IInv, SentInRange, Publish, Writes
  <1>2. PICK m \in Messages : m = sent + 1
    BY <1>1, QueueAssumption DEF Messages
  <1>3. ASSUME NEW r \in Readers PROVE sent < Len(received[r]) + (max_chunks + 1)
    <2> DEFINE n == Len(received[r])
    <2>1. n \in Nat /\ Pos(r) \in Nat /\ sent < Pos(r) + max_chunks /\ max_chunks \in Nat
      BY <1>1, OrderTypes, ChunkCount DEF OInv, RingSide, Positions
    <2>2. Pos(r) = n + 1 \/ Pos(r) = n + 0
      BY Zenon DEF Pos
    <2> HIDE DEF n
    <2>3. sent < n + (max_chunks + 1)
      BY <1>1, <2>1, <2>2
    <2> QED BY <2>3 DEF n
  <1>4. Log(sent)' = Append(Log(sent), m) /\ Len(Log(sent)) = sent
    <2>1. Log(sent)' = Log(sent + 1)
      BY <1>1 DEF Log
    <2> QED BY <1>1, <1>2, <2>1, LogGrows
  <1>5. \A r \in Readers : Len(Log(sent)) < Len(received[r]) + (max_chunks + 1)
    BY <1>3, <1>4
  <1>6. UNCHANGED <<received, Gone>>
    BY <1>1 DEF Gone
  <1>7. Queue!enqueue(m)
    BY <1>4, <1>5, <1>6, Zenon DEF Queue!enqueue, Log, Gone
  <1> QED BY <1>7 DEF Queue!Next

\* Handing reader r the message after its last is dequeue.
LEMMA TakingDequeues ==
    ASSUME OInv, NEW r \in Readers \cup Remotes,
           Len(received[r]) + 1 <= sent, r \notin Gone,
           received' = [received EXCEPT ![r] = Append(@, Len(received[r]) + 1)],
           sent' = sent, Gone' = Gone
    PROVE  Queue!Next
  <1>1. sent \in Nat /\ Len(received[r]) \in Nat
    BY OrderTypes DEF OInv
  <1>2. /\ Log(sent)' = Log(sent) /\ Len(Log(sent)) = sent
        /\ Log(sent)[Len(received[r]) + 1] = Len(received[r]) + 1
    BY <1>1, LogGrows DEF Log
  <1>3. received' = [received EXCEPT ![r] = Append(received[r], Log(sent)[Len(received[r]) + 1])]
    BY <1>2
  <1>4. Len(received[r]) < Len(Log(sent))
    BY <1>1, <1>2
  <1>5. Queue!dequeue(r)
    BY <1>2, <1>3, <1>4, Zenon DEF Queue!dequeue, Log, Gone
  <1> QED BY <1>5, Zenon DEF Queue!Next

\* A step that publishes nothing, hands over nothing and cancels nobody is
\* invisible to the callers.
LEMMA Invisible ==
    ASSUME sent' = sent, received' = received, Gone' = Gone
    PROVE  UNCHANGED Queue!qvars
  BY DEF Queue!qvars, Gone

\* Reader r goes from one of the loop's states to another.
LEMMA StaysInLoop ==
    ASSUME NEW r \in Readers, \A q \in Readers : q # r => reader'[q] = reader[q],
           reader[r].pc # "cancelled", reader'[r].pc # "cancelled"
    PROVE  Gone' = Gone
  <1>1. \A q \in Readers : reader'[q].pc = "cancelled" <=> reader[q].pc = "cancelled"
    OBVIOUS
  <1> QED BY <1>1 DEF Gone

\* A reader's wait ends: it polls again, or leaves if the queue is shutting
\* down.
LEMMA WakeMaps ==
    ASSUME IInv, NEW r \in Readers, reader[r].pc = "wait", reader' = Wake(r),
           UNCHANGED <<sent, received>>
    PROVE  [Queue!Next]_(Queue!qvars)
  <1>1. CASE shutting_down[r]
    <2>1. /\ reader'[r].pc = "cancelled"
          /\ \A q \in Readers : q # r => reader'[q] = reader[q]
      BY <1>1, OrderTypes DEF Wake, ReaderState
    <2>2. Gone' = Gone \cup {r} /\ r \notin Gone
      <3>1. \A q \in Readers : reader'[q].pc = "cancelled" <=> reader[q].pc = "cancelled" \/ q = r
        BY <2>1
      <3> QED BY <3>1 DEF Gone
    <2>3. Log(sent)' = Log(sent)
      BY DEF Log
    <2>4. Queue!leave(r)
      BY <2>2, <2>3, Zenon DEF Queue!leave, Log, Gone
    <2> QED BY <2>4, Zenon DEF Queue!Next
  <1>2. CASE ~ shutting_down[r]
    <2>1. /\ reader'[r].pc = "poll"
          /\ \A q \in Readers : q # r => reader'[q] = reader[q]
      BY <1>2, OrderTypes DEF Wake, ReaderState
    <2>2. Gone' = Gone
      BY <2>1, StaysInLoop
    <2> QED BY <2>2, Invisible
  <1> QED BY <1>1, <1>2

\* The ring hands over the message after the last, or defers to the socket.
LEMMA MarkReadMaps ==
    ASSUME OInv, NEW r \in Readers, MarkRead(r)
    PROVE  [Queue!Next]_(Queue!qvars)
  <1>1. /\ reader[r].pc = "copied" /\ reader'[r].pc # "cancelled" /\ sent' = sent
        /\ \A q \in Readers : q # r => reader'[q] = reader[q]
    BY OrderTypes DEF OInv, MarkRead, ReaderState
  <1>2. Gone' = Gone
    BY <1>1, StaysInLoop
  <1>3. CASE reader[r].obj = Overflow
    <2>1. received' = received
      BY <1>3 DEF MarkRead
    <2> QED BY <1>1, <1>2, <2>1, Invisible
  <1>4. CASE reader[r].obj # Overflow
    <2> DEFINE n == Len(received[r])
    <2>1. n \in Nat /\ sent \in Nat
      BY OrderTypes DEF OInv
    <2>2. Pos(r) = n
      BY <1>1, <2>1 DEF Pos
    <2>3. reader[r].obj = n + 1 /\ n < sent
      BY <1>1, <1>4, <2>2 DEF OInv, RingSide, Copies, Content
    <2>4. received' = [received EXCEPT ![r] = Append(@, n + 1)]
      BY <1>4, <2>3 DEF MarkRead
    <2>5. n + 1 <= sent /\ r \notin Gone
      BY <1>1, <2>1, <2>3 DEF Gone
    <2> QED BY <1>1, <1>2, <2>4, <2>5, TakingDequeues, Zenon
  <1> QED BY <1>3, <1>4

\* A payload from the socket is the message after the last.
LEMMA recvMaps ==
    ASSUME OInv, NEW r \in Readers, recv(r)
    PROVE  Queue!Next
  <1>1. /\ reader[r].pc = "recv" /\ reader'[r].pc = "poll" /\ sent' = sent
        /\ \A q \in Readers : q # r => reader'[q] = reader[q]
        /\ socket[r] # <<>>
        /\ received' = [received EXCEPT ![r] = Append(@, Head(socket[r]))]
    BY OrderTypes DEF OInv, recv, Deliver, ReaderState
  <1>2. Gone' = Gone /\ r \notin Gone
    BY <1>1, StaysInLoop DEF Gone
  <1>3. Head(socket[r]) = Len(received[r]) + 1 /\ Len(received[r]) + 1 <= Handed
    BY <1>1, HeadIsNext DEF OInv, Pending
  <1>4. Handed <= sent /\ Handed \in Int /\ sent \in Nat /\ Len(received[r]) \in Nat
    BY OrderTypes DEF OInv, Handed
  <1>5. Len(received[r]) + 1 <= sent
    BY <1>3, <1>4
  <1> QED BY <1>1, <1>2, <1>3, <1>5, TakingDequeues, Zenon

\* A remote reader takes the message after its last.
LEMMA RecvRemoteMaps ==
    ASSUME OInv, NEW r \in Remotes, RecvRemote(r)
    PROVE  Queue!Next
  <1>1. /\ UNCHANGED <<sent, reader>> /\ socket[r] # <<>>
        /\ received' = [received EXCEPT ![r] = Append(@, Head(socket[r]))]
    BY DEF RecvRemote, Deliver
  <1>2. Gone' = Gone /\ r \notin Gone
    BY <1>1, QueueAssumption DEF Gone
  <1>3. Head(socket[r]) = Len(received[r]) + 1 /\ Len(received[r]) + 1 <= sent
    BY <1>1, RemoteHead DEF OInv
  <1> QED BY <1>1, <1>2, <1>3, TakingDequeues, Zenon

\* Every step of the ring is a step of the broadcast queue or invisible in it.
LEMMA StepMaps ==
    ASSUME ~ RecvTimeouts, OInv, [Next]_vars
    PROVE  [Queue!Next]_(Queue!qvars)
  <1>1. CASE enqueue \/ CountReadFlag \/ CheckAgain \/ BeginWrite \/ EndWrite
             \/ ResetReadFlag \/ SendOverflow \/ notify \/ SendRemote
             \/ (\E r \in Readers : shutdown(r)) \/ UNCHANGED vars
    <2>1. UNCHANGED <<sent, received, reader>>
      BY <1>1 DEF enqueue, CountReadFlag, CheckAgain, BeginWrite, EndWrite,
         ResetReadFlag, SendOverflow, notify, SendRemote, shutdown, vars
    <2>2. Gone' = Gone
      BY <2>1 DEF Gone
    <2> QED BY <2>1, <2>2, Invisible
  <1>2. CASE Publish
    BY <1>2, PublishEnqueues
  <1>3. ASSUME NEW r \in Readers, LoadReadFlag(r) \/ LoadWrittenFlag(r) \/ Copy(r)
        PROVE  UNCHANGED Queue!qvars
    <2>1. /\ reader[r].pc # "cancelled" /\ reader'[r].pc # "cancelled"
          /\ UNCHANGED <<sent, received>>
          /\ \A q \in Readers : q # r => reader'[q] = reader[q]
      BY <1>3, OrderTypes DEF OInv, LoadReadFlag, LoadWrittenFlag, Copy, ReaderState
    <2>2. Gone' = Gone
      BY <2>1, StaysInLoop
    <2> QED BY <2>1, <2>2, Invisible
  <1>4. ASSUME NEW r \in Readers, WaitNotified(r) \/ WaitElapsed(r)
        PROVE  [Queue!Next]_(Queue!qvars)
    BY <1>4, WakeMaps DEF OInv, WaitNotified, WaitElapsed
  <1>5. ASSUME NEW r \in Readers, MarkRead(r) PROVE [Queue!Next]_(Queue!qvars)
    BY <1>5, MarkReadMaps
  <1>6. ASSUME NEW r \in Readers, recv(r) PROVE Queue!Next
    BY <1>6, recvMaps
  <1>7. ASSUME NEW r \in Remotes, RecvRemote(r) PROVE Queue!Next
    BY <1>7, RecvRemoteMaps
  <1> QED BY <1>1, <1>2, <1>3, <1>4, <1>5, <1>6, <1>7
          DEF Next, Writing, Reading, RecvTimeout

\* The safety part of ImplementsBroadcastQueue, for every number of readers,
\* slots and messages: whatever the interleaving of flags, payloads, pings and
\* shutdowns, what the callers of enqueue and dequeue see is a broadcast queue
\* that holds max_chunks messages and a payload in flight.
THEOREM RingIsAQueue ==
    ASSUME ~ RecvTimeouts
    PROVE  Spec => Queue!Init /\ [][Queue!Next]_(Queue!qvars)
  <1>1. Init => Queue!Init
    <2> SUFFICES ASSUME Init PROVE Queue!Init
      OBVIOUS
    <2>1. [i \in 1..sent |-> i] = <<>>
      BY DEF Init
    <2>2. Gone = {}
      BY DEF Init, Gone
    <2> QED BY <2>1, <2>2 DEF Init, Queue!Init, Gone
  <1>2. OInv /\ [Next]_vars => [Queue!Next]_(Queue!qvars)
    BY StepMaps
  <1> QED BY <1>1, <1>2, OrderInvariance, PTL DEF Spec

=============================================================================
