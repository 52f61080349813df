---------------------------- MODULE MessageQueue ----------------------------
(***************************************************************************)
(* The shared-memory broadcast queue of shm_broadcast.py: one writer, the  *)
(* readers of its node, which poll the slots of a ShmRingBuffer, and the   *)
(* readers of other nodes, which receive from a socket.  Every slot has a  *)
(* written flag and one read flag per local reader; no lock guards them,   *)
(* so every load and store of a flag is a step of its own.  The fences in  *)
(* the code make the steps of one process visible in program order.        *)
(*                                                                         *)
(* A message is its number.  A slot holds a message, Torn while the writer *)
(* is filling it, or Overflow: the payload was too large for the slot and  *)
(* follows on the reader's socket, which the slot cannot name.             *)
(***************************************************************************)
EXTENDS Integers, Sequences

CONSTANTS n_reader,      \* local readers, numbered 1..n_reader
          Remotes,       \* readers on other nodes
          max_chunks,    \* slots of the ring
          MaxMessages,   \* bound: messages enqueued
          Overflows,     \* the messages too large for a slot
          RecvTimeouts   \* whether callers pass dequeue a timeout

Readers == 1..n_reader
Chunks == 0..(max_chunks - 1)
Messages == 1..MaxMessages

ASSUME QueueAssumption ==
    /\ n_reader \in Nat \ {0} /\ max_chunks \in Nat \ {0}
    /\ MaxMessages \in Nat
    /\ Overflows \subseteq Messages
    /\ RecvTimeouts \in BOOLEAN
    /\ Remotes \cap Readers = {}

Overflow == 0
Torn == -1

VARIABLES
    written,        \* metadata_buffer[0] of every slot
    read,           \* metadata_buffer[1 ..] of every slot
    data,           \* what every slot holds
    writer,         \* the writer: its step, current_idx, and its flag scan
    reader,         \* the same for every local reader
    socket,         \* payloads in flight to every reader
    ping,           \* local_notify_socket: a notification to pick up
    shutting_down,  \* MessageQueue.shutting_down of every local reader
    sent,           \* messages published so far
    received        \* what dequeue has returned to every reader

ring == <<written, read, data>>
vars == <<written, read, data, writer, reader, socket, ping, shutting_down,
          sent, received>>

Init ==
    /\ written = [c \in Chunks |-> 0]
    /\ read = [c \in Chunks |-> [r \in Readers |-> 0]]
    /\ data = [c \in Chunks |-> Torn]
    /\ writer = [pc |-> "idle", current_idx |-> 0, rank |-> 1, count |-> 0]
    /\ reader = [r \in Readers |-> [pc |-> "poll", current_idx |-> 0,
                                    read_flag |-> 0, obj |-> Torn]]
    /\ socket = [r \in Readers \cup Remotes |-> <<>>]
    /\ ping = [r \in Readers |-> FALSE]
    /\ shutting_down = [r \in Readers |-> FALSE]
    /\ sent = 0
    /\ received = [r \in Readers \cup Remotes |-> <<>>]

\* current_idx advanced without the modulus.
NextChunkUnwrapped(i) == i + 1

NextChunk(i) == (i + 1) % max_chunks

------------------------------------------------------------------------------
(***************************************************************************)
(* The writer: enqueue, around acquire_write.                              *)
(***************************************************************************)

enqueue ==
    /\ writer.pc = "idle" /\ sent < MaxMessages
    /\ writer' = [writer EXCEPT !.pc = "check", !.rank = 1, !.count = 0]
    /\ UNCHANGED <<ring, reader, socket, ping, shutting_down, sent, received>>

\* check(): sum(metadata_buffer[1:]), one flag at a time.
CountReadFlag ==
    /\ writer.pc = "check" /\ writer.rank <= n_reader
    /\ writer' = [writer EXCEPT
                    !.count = @ + read[writer.current_idx][writer.rank],
                    !.rank = @ + 1]
    /\ UNCHANGED <<ring, reader, socket, ping, shutting_down, sent, received>>

\* Taking the first reader to finish for all of them.
MayWriteEarly(count) == written[writer.current_idx] = 0 \/ count > 0

MayWrite(count) == written[writer.current_idx] = 0 \/ count = n_reader

\* check() fails: look again (or, past the deadline, raise with nothing
\* changed, which the caller's next enqueue continues from).
CheckAgain ==
    /\ writer.pc = "check" /\ writer.rank = n_reader + 1
    /\ ~ MayWrite(writer.count)
    /\ writer' = [writer EXCEPT !.rank = 1, !.count = 0]
    /\ UNCHANGED <<ring, reader, socket, ping, shutting_down, sent, received>>

\* check() succeeds: mark the slot not written and start filling it.
BeginWrite ==
    /\ writer.pc = "check" /\ writer.rank = n_reader + 1
    /\ MayWrite(writer.count)
    /\ written' = [written EXCEPT ![writer.current_idx] = 0]
    /\ data' = [data EXCEPT ![writer.current_idx] = Torn]
    /\ writer' = [writer EXCEPT !.pc = "write"]
    /\ UNCHANGED <<read, reader, socket, ping, shutting_down, sent, received>>

\* Mutant: the written flag raised before the read flags are lowered.
EndWriteEarly ==
    /\ writer.pc = "write"
    /\ data' = [data EXCEPT ![writer.current_idx] =
                  IF sent + 1 \in Overflows THEN Overflow ELSE sent + 1]
    /\ written' = [written EXCEPT ![writer.current_idx] = 1]
    /\ writer' = [writer EXCEPT !.pc = "reset", !.rank = 1]
    /\ UNCHANGED <<read, reader, socket, ping, shutting_down, sent, received>>

EndWrite ==
    /\ writer.pc = "write"
    /\ data' = [data EXCEPT ![writer.current_idx] =
                  IF sent + 1 \in Overflows THEN Overflow ELSE sent + 1]
    /\ writer' = [writer EXCEPT !.pc = "reset", !.rank = 1]
    /\ UNCHANGED <<written, read, reader, socket, ping, shutting_down, sent,
                   received>>

ResetReadFlag ==
    /\ writer.pc = "reset" /\ writer.rank <= n_reader
    /\ read' = [read EXCEPT ![writer.current_idx][writer.rank] = 0]
    /\ writer' = [writer EXCEPT !.rank = @ + 1]
    /\ UNCHANGED <<written, data, reader, socket, ping, shutting_down, sent,
                   received>>

Publish ==
    /\ writer.pc = "reset" /\ writer.rank = n_reader + 1
    /\ written' = [written EXCEPT ![writer.current_idx] = 1]
    /\ sent' = sent + 1
    /\ writer' = [writer EXCEPT !.pc = "send",
                                !.current_idx = NextChunk(@)]
    /\ UNCHANGED <<read, data, reader, socket, ping, shutting_down, received>>

\* local_socket.send_multipart of a payload that overflowed its slot.
SendOverflow ==
    /\ writer.pc = "send"
    /\ socket' = [r \in DOMAIN socket |->
                    IF r \in Readers /\ sent \in Overflows
                    THEN Append(socket[r], sent) ELSE socket[r]]
    /\ writer' = [writer EXCEPT !.pc = "notify"]
    /\ UNCHANGED <<ring, reader, ping, shutting_down, sent, received>>

\* SpinCondition.notify(): the PUB socket, with a high water mark of 1,
\* delivers the ping to some readers and drops it for the others.
notify ==
    /\ writer.pc = "notify"
    /\ \E reached \in SUBSET Readers :
          ping' = [r \in Readers |-> ping[r] \/ r \in reached]
    /\ writer' = [writer EXCEPT !.pc = "remote"]
    /\ UNCHANGED <<ring, reader, socket, shutting_down, sent, received>>

SendRemote ==
    /\ writer.pc = "remote"
    /\ socket' = [r \in DOMAIN socket |->
                    IF r \in Remotes THEN Append(socket[r], sent)
                    ELSE socket[r]]
    /\ writer' = [writer EXCEPT !.pc = "idle"]
    /\ UNCHANGED <<ring, reader, ping, shutting_down, sent, received>>

Writing == \/ CountReadFlag \/ CheckAgain \/ BeginWrite \/ EndWrite
           \/ ResetReadFlag \/ Publish \/ SendOverflow \/ notify \/ SendRemote

------------------------------------------------------------------------------
(***************************************************************************)
(* A local reader: dequeue, around acquire_read, called in a loop.         *)
(***************************************************************************)

\* check(): the reader's own read flag first, then the written flag.
LoadReadFlag(r) ==
    /\ reader[r].pc = "poll"
    /\ reader' = [reader EXCEPT
                    ![r].read_flag = read[reader[r].current_idx][r],
                    ![r].pc = "polled"]
    /\ UNCHANGED <<ring, writer, socket, ping, shutting_down, sent, received>>

LoadWrittenFlag(r) ==
    /\ reader[r].pc = "polled"
    /\ reader' = [reader EXCEPT ![r].pc =
                    IF written[reader[r].current_idx] = 1
                       /\ reader[r].read_flag = 0
                    THEN "copy" ELSE "wait"]
    /\ UNCHANGED <<ring, writer, socket, ping, shutting_down, sent, received>>

\* Polling again without looking at shutting_down.
WakeUnchecked(r) == [reader EXCEPT ![r].pc = "poll"]

\* After wait(): raise if the queue is shutting down, else poll again.
Wake(r) == [reader EXCEPT ![r].pc =
              IF shutting_down[r] THEN "cancelled" ELSE "poll"]

\* SpinCondition.wait() in idle mode, ended by the writer's ping.
WaitNotified(r) ==
    /\ reader[r].pc = "wait" /\ ping[r]
    /\ reader' = Wake(r)
    /\ ping' = [ping EXCEPT ![r] = FALSE]
    /\ UNCHANGED <<ring, writer, socket, shutting_down, sent, received>>

\* wait() with no recheck interval: only cancel() ends it without a ping.
WaitIndefinitely(r) ==
    /\ reader[r].pc = "wait" /\ shutting_down[r]
    /\ reader' = Wake(r)
    /\ UNCHANGED <<ring, writer, socket, ping, shutting_down, sent, received>>

\* wait() ended otherwise: at once while reads are frequent, by cancel(), or
\* after at most SHM_READER_RECHECK_INTERVAL_MS.
WaitElapsed(r) ==
    /\ reader[r].pc = "wait"
    /\ reader' = Wake(r)
    /\ UNCHANGED <<ring, writer, socket, ping, shutting_down, sent, received>>

\* The caller copies the message out of the slot, or sees its overflow byte.
Copy(r) ==
    /\ reader[r].pc = "copy"
    /\ reader' = [reader EXCEPT ![r].obj = data[reader[r].current_idx],
                                ![r].pc = "copied"]
    /\ UNCHANGED <<ring, writer, socket, ping, shutting_down, sent, received>>

\* Leaving acquire_read: set the read flag, advance, and return the message
\* unless its payload is still to come on the socket.
MarkRead(r) ==
    /\ reader[r].pc = "copied"
    /\ read' = [read EXCEPT ![reader[r].current_idx][r] = 1]
    /\ reader' = [reader EXCEPT
                    ![r].current_idx = NextChunk(@),
                    ![r].obj = Torn,
                    ![r].pc = IF reader[r].obj = Overflow THEN "recv"
                              ELSE "poll"]
    /\ received' = IF reader[r].obj = Overflow THEN received
                   ELSE [received EXCEPT ![r] = Append(@, reader[r].obj)]
    /\ UNCHANGED <<written, data, writer, socket, ping, shutting_down, sent>>

Deliver(r) ==
    /\ socket[r] /= <<>>
    /\ received' = [received EXCEPT ![r] = Append(@, Head(socket[r]))]
    /\ socket' = [socket EXCEPT ![r] = Tail(@)]

recv(r) ==
    /\ reader[r].pc = "recv"
    /\ Deliver(r)
    /\ reader' = [reader EXCEPT ![r].pc = "poll"]
    /\ UNCHANGED <<ring, writer, ping, shutting_down, sent>>

\* Mutant: the reader comes back to the slot whose payload it gave up on.
RecvTimeoutStepsBack(r) ==
    /\ RecvTimeouts
    /\ reader[r].pc = "recv" /\ socket[r] = <<>>
    /\ reader' = [reader EXCEPT ![r].pc = "poll",
                                ![r].current_idx = (@ - 1) % max_chunks]
    /\ UNCHANGED <<ring, writer, socket, ping, shutting_down, sent, received>>

\* recv() gives up on the payload; the slot is already marked read.
RecvTimeout(r) ==
    /\ RecvTimeouts
    /\ reader[r].pc = "recv" /\ socket[r] = <<>>
    /\ reader' = [reader EXCEPT ![r].pc = "poll"]
    /\ UNCHANGED <<ring, writer, socket, ping, shutting_down, sent, received>>

Reading(r) == \/ LoadReadFlag(r) \/ LoadWrittenFlag(r)
              \/ WaitNotified(r) \/ WaitElapsed(r)
              \/ Copy(r) \/ MarkRead(r) \/ recv(r)

\* A reader on another node.
RecvRemote(r) ==
    /\ Deliver(r)
    /\ UNCHANGED <<ring, writer, reader, ping, shutting_down, sent>>

\* A monitor thread of the reader's process.
shutdown(r) ==
    /\ ~ shutting_down[r]
    /\ shutting_down' = [shutting_down EXCEPT ![r] = TRUE]
    /\ UNCHANGED <<ring, writer, reader, socket, ping, sent, received>>

Next == \/ enqueue \/ Writing
        \/ \E r \in Readers : Reading(r) \/ RecvTimeout(r) \/ shutdown(r)
        \/ \E r \in Remotes : RecvRemote(r)

\* An enqueue that has begun runs on, the readers' loops keep calling
\* dequeue, and every wait ends; nobody need enqueue again or shut down.
Fairness == /\ WF_vars(Writing)
            /\ \A r \in Readers : WF_vars(Reading(r))
            /\ \A r \in Remotes : WF_vars(RecvRemote(r))

Spec == Init /\ [][Next]_vars /\ Fairness

------------------------------------------------------------------------------
(***************************************************************************)
(* Properties                                                              *)
(***************************************************************************)

RingTypes ==
    /\ written \in [Chunks -> 0..1]
    /\ read \in [Chunks -> [Readers -> 0..1]]
    /\ data \in [Chunks -> Messages \cup {Overflow, Torn}]

WriterState ==
    [pc : {"idle", "check", "write", "reset", "send", "notify", "remote"},
     current_idx : Chunks, rank : 1..(n_reader + 1), count : 0..n_reader]

ReaderState ==
    [pc : {"poll", "polled", "wait", "copy", "copied", "recv", "cancelled"},
     current_idx : Chunks, read_flag : 0..1, obj : Messages \cup {Overflow, Torn}]

DeliveryTypes ==
    /\ socket \in [Readers \cup Remotes -> Seq(Messages)]
    /\ received \in [Readers \cup Remotes -> Seq(Messages \cup {Torn})]
    /\ sent \in 0..MaxMessages

WaitTypes ==
    ping \in [Readers -> BOOLEAN] /\ shutting_down \in [Readers -> BOOLEAN]

\* Every flag is a bit, every index a slot of the ring, and every value in a
\* slot or on a socket is one the writer put there.
TypeOK ==
    /\ RingTypes /\ DeliveryTypes /\ WaitTypes
    /\ writer \in WriterState
    /\ reader \in [Readers -> ReaderState]

Filling(c) == writer.pc \in {"write", "reset"} /\ writer.current_idx = c

\* The writer never fills a slot that a reader has found readable and has not
\* marked read: without a lock, the flag order of acquire_write and
\* acquire_read alone keeps a reader from copying a half-written message.
SlotExclusive ==
    \A r \in Readers :
        reader[r].pc \in {"copy", "copied"} =>
            /\ ~ Filling(reader[r].current_idx)
            /\ data[reader[r].current_idx] /= Torn

Queue == INSTANCE BroadcastQueue WITH
            Capacity <- max_chunks + 1,
            log <- [i \in 1..sent |-> i],
            gone <- {r \in Readers : reader[r].pc = "cancelled"}

\* The ring, the overflow socket and the remote sockets together implement the
\* broadcast queue: every reader gets every message once and in order, the
\* writer runs at most max_chunks slots and one pending payload ahead of a
\* local reader, and although pings may be lost a reader that has not been
\* cancelled gets every published message eventually.
ImplementsBroadcastQueue == Queue!Spec

\* A writer waiting for a slot gets it: enqueue returns unless a reader it
\* waits for has been shut down, in which case nothing else would free the
\* slot.
EnqueueReturns ==
    writer.pc = "check" ~>
        \/ writer.pc = "idle"
        \/ \E r \in Readers : reader[r].pc = "cancelled"

\* Once the writer is quiet, shutdown() ends the reader's loop, wherever in it
\* the call came and whether or not its notification arrives.  acquire_read
\* looks at shutting_down only after a wait, so a writer that never lets the
\* ring run empty could delay this for ever; here MaxMessages stops it.
ShutdownEndsReader ==
    \A r \in Readers : shutting_down[r] ~> reader[r].pc = "cancelled"

\* A caller that times out waiting for a payload whose slot it has already
\* marked read, and dequeues again, may be given that payload for a later
\* slot.  Still, what fits into a slot comes in the order sent, and so does
\* what is too large, so that nothing comes twice.
EachPathInOrder ==
    \A r \in Readers \cup Remotes :
        \A i, j \in 1..Len(received[r]) :
            (/\ i < j
             /\ received[r][i] \in Overflows <=> received[r][j] \in Overflows)
            => received[r][i] < received[r][j]

=============================================================================
