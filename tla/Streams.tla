------------------------------- MODULE Streams -------------------------------
(***************************************************************************)
(* Framed messages over a byte stream: src/utils/ipc/framed_io.cpp and the *)
(* two channels built on it, socket_channel.cpp and filebuffer_channel.cpp.*)
(*                                                                         *)
(* Two endpoints, "a" (the socket client) and "b" (the server), each have  *)
(* writer threads that call transmit and one reader thread.  The kernel    *)
(* holds up to Capacity bytes in each direction, takes any part of what is *)
(* offered and gives any part of what it holds.  A prefix has two digits   *)
(* to the base Base instead of four bytes.  A step is one system call, one *)
(* acquisition of the endpoint's write mutex, or one store.                *)
(*                                                                         *)
(* A channel is destroyed, or a client dies with its process, and a new    *)
(* client connects; connections never share bytes.  FIFO endpoints hold    *)
(* both ends of their pipes open and have no connection to lose.           *)
(***************************************************************************)
EXTENDS Naturals, Sequences, SequencesExt
CONSTANTS Kind,                   \* "SOCKET" or "FIFO"
          Writers,                \* threads that transmit
          EndOf,                  \* the endpoint of each
          Bodies,                 \* what they send: sequences of digits
          Base,                   \* of the length prefix
          maximum_message_bytes,
          Capacity,               \* bytes the kernel holds each way
          MaxSends,               \* transmissions begun
          MaxFaults,              \* failing system calls and dying clients
          MaxClients              \* clients that connect one after the other
VARIABLES pipe,     \* bytes written by each end and not yet read by the other
          open,     \* whether each end's descriptor is open
          shut,     \* whether each end's connection was shut down
          mutex,    \* the writer or reader holding each end's write mutex
          status,   \* each channel's status
          stopping, \* whether each channel is being destroyed
          writer, reader,
          sent, delivered,        \* bodies begun and bodies received, by end
          sends, faults, clients
vars == <<pipe, open, shut, mutex, status, stopping, writer, reader, sent, delivered, sends,
          faults, clients>>
link == <<pipe, open, shut>>
counts == <<sends, faults, clients>>

Ends == {"a", "b"}
Peer(e) == IF e = "a" THEN "b" ELSE "a"
Idle == [pc |-> "idle", rest |-> <<>>, result |-> "OK"]
Fresh == [pc |-> "look", bytes |-> <<>>, result |-> "OK"]
Accepting == [Fresh EXCEPT !.pc = "accept"]
Ended == [Fresh EXCEPT !.pc = "ended"]
Free == "free"

Init ==
    /\ pipe = [e \in Ends |-> <<>>]
    /\ open = [e \in Ends |-> TRUE] /\ shut = [e \in Ends |-> FALSE]
    /\ mutex = [e \in Ends |-> Free] /\ status = [e \in Ends |-> "OK"]
    /\ stopping = [e \in Ends |-> FALSE]
    /\ writer = [w \in Writers |-> Idle] /\ reader = [e \in Ends |-> Fresh]
    /\ sent = [e \in Ends |-> <<>>] /\ delivered = [e \in Ends |-> <<>>]
    /\ sends = 0 /\ faults = 0 /\ clients = 1

Frame(body) == <<Len(body) \div Base, Len(body) % Base>> \o body

(* Whether the connection still reaches the other end. *)
Reaches(e) == Kind = "FIFO" \/ (open[Peer(e)] /\ ~shut[e] /\ ~shut[Peer(e)])

------------------------------------------------------------------------------
(* Writing. *)

(* The channel's status is looked at before the mutex is taken. *)
transmit(w, body) ==
    /\ writer[w].pc = "idle" /\ sends < MaxSends
    /\ status[EndOf[w]] = "OK" /\ ~stopping[EndOf[w]]
    /\ sends' = sends + 1
    /\ writer' = [writer EXCEPT ![w] = [pc |-> "lock", rest |-> body, result |-> "OK"]]
    /\ UNCHANGED <<link, mutex, status, stopping, reader, sent, delivered, faults, clients>>

(* No descriptor, or a body over the limit, ends write_frame at once. *)
write_frame(w) ==
    LET e == EndOf[w] IN
    /\ writer[w].pc = "lock" /\ mutex[e] = Free
    /\ mutex' = [mutex EXCEPT ![e] = w]
    /\ IF ~open[e] \/ Len(writer[w].rest) > maximum_message_bytes
       THEN /\ writer' = [writer EXCEPT ![w].pc = "done",
                              ![w].result = IF open[e] THEN "MESSAGE_TOO_LARGE"
                                            ELSE "NOT_CONNECTED"]
            /\ UNCHANGED sent
       ELSE /\ writer' = [writer EXCEPT ![w].pc = "write", ![w].rest = Frame(@)]
            /\ sent' = [sent EXCEPT ![e] = Append(@, writer[w].rest)]
    /\ UNCHANGED <<link, status, stopping, reader, delivered, counts>>

(* Some of the bytes; a peer that is gone is NOT_CONNECTED, a failing call *)
(* IO_ERROR; a full pipe is waited for.                                    *)
write_all(w) ==
    LET e == EndOf[w]
        room == Capacity - Len(pipe[e])
        rest == writer[w].rest
    IN
    /\ writer[w].pc = "write"
    /\ \/ /\ Reaches(e)
          /\ \E count \in 1..room :
                /\ count <= Len(rest)
                /\ pipe' = [pipe EXCEPT ![e] = @ \o SubSeq(rest, 1, count)]
                /\ writer' = [writer EXCEPT
                      ![w] = IF count = Len(rest)
                             THEN [pc |-> "done", rest |-> <<>>, result |-> "OK"]
                             ELSE [@ EXCEPT !.rest = SubSeq(rest, count + 1, Len(rest))]]
          /\ UNCHANGED faults
       \/ /\ ~Reaches(e)
          /\ writer' = [writer EXCEPT ![w].pc = "done", ![w].result = "NOT_CONNECTED"]
          /\ UNCHANGED <<pipe, faults>>
       \/ /\ faults < MaxFaults
          /\ faults' = faults + 1
          /\ writer' = [writer EXCEPT ![w].pc = "done", ![w].result = "IO_ERROR"]
          /\ UNCHANGED pipe
    /\ UNCHANGED <<open, shut, mutex, status, stopping, reader, sent, delivered, sends,
                   clients>>

(* Returns without retiring the stream. *)
retire_never(w) == UNCHANGED <<shut, status>>

(* A write that failed part way leaves a torn frame: a socket is shut down *)
(* and a FIFO's channel is marked unusable.                                *)
retire(w) ==
    LET e == EndOf[w]
        torn == writer[w].result \notin {"OK", "MESSAGE_TOO_LARGE"}
    IN  IF Kind = "SOCKET"
        THEN /\ shut' = [shut EXCEPT ![e] = @ \/ (torn /\ open[e])]
             /\ UNCHANGED status
        ELSE /\ status' = [status EXCEPT ![e] = IF torn THEN writer[w].result ELSE @]
             /\ UNCHANGED shut

transmit_returns(w) ==
    /\ writer[w].pc = "done"
    /\ retire(w)
    /\ mutex' = [mutex EXCEPT ![EndOf[w]] = Free]
    /\ writer' = [writer EXCEPT ![w] = Idle]
    /\ UNCHANGED <<pipe, open, stopping, reader, sent, delivered, counts>>

------------------------------------------------------------------------------
(* Reading. *)

(* The reader leaves its loop with the result of the frame it read last. *)
Left(e, result) == reader' = [reader EXCEPT ![e].pc = "close", ![e].result = result]

(* A socket's reader takes the mutex to look at the descriptor before each *)
(* frame; a FIFO's descriptor is its own.                                  *)
run_peer(e) ==
    /\ reader[e].pc = "look"
    /\ IF stopping[e] THEN Left(e, "CHANNEL_UNAVAILABLE")
       ELSE /\ Kind = "SOCKET" => mutex[e] = Free
            /\ reader' = [reader EXCEPT ![e].pc = "read"]
    /\ UNCHANGED <<link, mutex, status, stopping, writer, sent, delivered, counts>>

(* What is missing of the frame: the prefix, then the body it announces. *)
Announced(bytes) == bytes[1] * Base + bytes[2]

Missing(bytes) ==
    IF Len(bytes) < 2 THEN 2 - Len(bytes) ELSE Announced(bytes) + 2 - Len(bytes)

Oversized(bytes) == Len(bytes) >= 2 /\ Announced(bytes) > maximum_message_bytes

(* One poll and read: some of the bytes, the end of the stream, or a call  *)
(* that fails.                                                             *)
read_exactly(e) ==
    LET incoming == pipe[Peer(e)] IN
    /\ reader[e].pc = "read"
    /\ Missing(reader[e].bytes) > 0 /\ ~Oversized(reader[e].bytes)
    /\ \/ /\ stopping[e]
          /\ Left(e, "CHANNEL_UNAVAILABLE")
          /\ UNCHANGED <<pipe, faults>>
       \/ /\ ~stopping[e]
          /\ \E count \in 1..Len(incoming) :
                /\ count <= Missing(reader[e].bytes)
                /\ reader' = [reader EXCEPT ![e].bytes = @ \o SubSeq(incoming, 1, count)]
                /\ pipe' = [pipe EXCEPT ![Peer(e)] = SubSeq(incoming, count + 1, Len(incoming))]
          /\ UNCHANGED faults
       \/ /\ ~stopping[e] /\ incoming = <<>> /\ ~Reaches(e)
          /\ Left(e, "END_OF_STREAM")
          /\ UNCHANGED <<pipe, faults>>
       \/ /\ ~stopping[e] /\ faults < MaxFaults
          /\ faults' = faults + 1
          /\ Left(e, "IO_ERROR")
          /\ UNCHANGED pipe
    /\ UNCHANGED <<open, shut, mutex, status, stopping, writer, sent, delivered, sends, clients>>

read_frame(e) ==
    LET bytes == reader[e].bytes IN
    /\ reader[e].pc = "read"
    /\ IF Oversized(bytes)
       THEN Left(e, "MESSAGE_TOO_LARGE") /\ UNCHANGED delivered
       ELSE /\ Missing(bytes) = 0
            /\ delivered' = [delivered EXCEPT ![e] = Append(@, SubSeq(bytes, 3, Len(bytes)))]
            /\ reader' = [reader EXCEPT ![e] = Fresh]
    /\ UNCHANGED <<link, mutex, status, stopping, writer, sent, counts>>

(* What a closed descriptor has not read is lost. *)
Close(e) == open' = [open EXCEPT ![e] = FALSE] /\ pipe' = [pipe EXCEPT ![Peer(e)] = <<>>]

(* The reader's way out: a socket closes the descriptor under the mutex,   *)
(* and a client's channel is then not connected; a FIFO's channel takes    *)
(* the status of the failed read.  A channel that stops keeps its status.  *)
ReaderEnds(e) ==
    LET failed == IF Kind = "SOCKET" THEN e = "a" /\ ~stopping[e]
                  ELSE reader[e].result # "CHANNEL_UNAVAILABLE"
    IN
    /\ reader[e].pc = "close"
    /\ Kind = "SOCKET" => mutex[e] = Free
    /\ IF Kind = "FIFO" THEN UNCHANGED <<pipe, open>> ELSE Close(e)
    /\ status' = [status EXCEPT ![e] = IF ~failed THEN @
                                       ELSE IF Kind = "FIFO" THEN reader[e].result
                                       ELSE "NOT_CONNECTED"]
    /\ reader' = [reader EXCEPT ![e] = IF e = "b" /\ Kind = "SOCKET" THEN Accepting ELSE Ended]
    /\ UNCHANGED <<shut, mutex, stopping, writer, sent, delivered, counts>>

------------------------------------------------------------------------------
(* Channels and clients come and go. *)

(* The destructor, which runs while nobody transmits: the reader sees the  *)
(* flag before its next call, and its way out closes the connection.       *)
stop(e) ==
    /\ ~stopping[e]
    /\ \A w \in Writers : EndOf[w] = e => writer[w].pc = "idle"
    /\ stopping' = [stopping EXCEPT ![e] = TRUE]
    /\ UNCHANGED <<link, mutex, status, writer, reader, sent, delivered, counts>>

(* A dying process stops its threads anywhere. *)
ClientDies ==
    /\ Kind = "SOCKET" /\ open["a"] /\ faults < MaxFaults
    /\ faults' = faults + 1
    /\ Close("a")
    /\ mutex' = [mutex EXCEPT !["a"] = Free]
    /\ stopping' = [stopping EXCEPT !["a"] = TRUE]
    /\ writer' = [w \in Writers |-> IF EndOf[w] = "a" THEN Idle ELSE writer[w]]
    /\ reader' = [reader EXCEPT !["a"] = Ended]
    /\ UNCHANGED <<shut, status, sent, delivered, sends, clients>>

(* A connection between a new client and the server, which takes it or     *)
(* fails to configure its descriptor and closes it.                        *)
Connected(accepted) ==
    /\ clients < MaxClients /\ clients' = clients + 1
    /\ reader["a"] = Ended /\ mutex["b"] = Free
    /\ \A w \in Writers : EndOf[w] = "a" => writer[w].pc = "idle"
    /\ pipe' = [e \in Ends |-> <<>>] /\ open' = [a |-> TRUE, b |-> accepted]
    /\ shut' = [e \in Ends |-> FALSE] /\ stopping' = [stopping EXCEPT !["a"] = FALSE]
    /\ reader' = [reader EXCEPT !["a"] = Fresh, !["b"] = IF accepted THEN Fresh ELSE @]
    /\ sent' = [e \in Ends |-> <<>>] /\ delivered' = [e \in Ends |-> <<>>]

(* The server, done with the last client: it stops, accepts the next one,  *)
(* or gives up when polling for it fails.                                  *)
run_server ==
    /\ Kind = "SOCKET" /\ reader["b"] = Accepting
    /\ \/ /\ stopping["b"]
          /\ reader' = [reader EXCEPT !["b"] = Ended]
          /\ UNCHANGED <<link, stopping, status, sent, delivered, counts>>
       \/ /\ ~stopping["b"] /\ Connected(TRUE)
          /\ status' = [status EXCEPT !["a"] = "OK"]
          /\ UNCHANGED <<sends, faults>>
       \/ /\ ~stopping["b"] /\ faults < MaxFaults /\ Connected(FALSE)
          /\ status' = [status EXCEPT !["a"] = "OK"] /\ faults' = faults + 1
          /\ UNCHANGED sends
       \/ /\ ~stopping["b"] /\ faults < MaxFaults
          /\ reader' = [reader EXCEPT !["b"] = Ended]
          /\ status' = [status EXCEPT !["b"] = "IO_ERROR"] /\ faults' = faults + 1
          /\ UNCHANGED <<link, stopping, sent, delivered, sends, clients>>
    /\ UNCHANGED <<mutex, writer>>

Transmitting(w) == write_frame(w) \/ write_all(w) \/ transmit_returns(w)
Reading(e) == run_peer(e) \/ read_exactly(e) \/ read_frame(e) \/ ReaderEnds(e)

Next ==
    \/ \E w \in Writers, body \in Bodies : transmit(w, body)
    \/ \E w \in Writers : Transmitting(w)
    \/ \E e \in Ends : Reading(e)
    \/ \E e \in Ends : stop(e)
    \/ ClientDies \/ run_server

(* Every thread runs; who starts a transmission, and when a channel comes  *)
(* or goes, is up to the program.                                          *)
Fairness ==
    /\ \A w \in Writers : SF_vars(Transmitting(w))
    /\ \A e \in Ends : SF_vars(Reading(e))

Spec == Init /\ [][Next]_vars /\ Fairness

(* The messages an endpoint receives over a connection are the first ones  *)
(* its peer sent over it, whole and in order, whatever writes fail, are    *)
(* cut short or run concurrently: a torn frame is never followed by        *)
(* another.                                                                *)
FramesWhole ==
    \A e \in Ends : IsPrefix(delivered[e], sent[Peer(e)])

(* A transmission does not wait for ever: the peer's own thread reads what *)
(* it sends, so room comes or the connection goes (framed_io.cpp:107).     *)
TransmitReturns ==
    \A w \in Writers : (writer[w].pc # "idle") ~> (writer[w].pc = "idle")
=============================================================================
