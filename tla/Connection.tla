------------------------------ MODULE Connection ------------------------------
(***************************************************************************)
(* One accepted connection: TcpConn (TcpConn.cpp), the Http2Conn that owns *)
(* it and is its delegate (Http2Conn.cpp), and the entry of GrpcServ that  *)
(* owns both and destroys them when it is told of the end.                 *)
(*                                                                         *)
(* Handlers of one connection exclude each other by the wrapper's lock, so *)
(* one handler is in progress at a time: it reads, parses frame by frame,  *)
(* then writes.  A step is one frame with every call made on its behalf.   *)
(* Threads take events from epoll before they try the lock, so an event    *)
(* may be handled after the interest it was reported for is withdrawn.     *)
(*                                                                         *)
(* Bytes are abstracted: the peer may have sent any frames next, and of    *)
(* the output only the kinds of frames waiting in it are known.  Stream 0  *)
(* carries control frames only.  epoll_ctl and nghttp2's deflater do not   *)
(* fail.                                                                   *)
(***************************************************************************)
CONSTANTS
    Ids,        \* numbers of streams, other than 0
    Threads

VARIABLES
    tcp,        \* TcpConn::state_
    taskset,    \* TcpConn::taskset_, the interest known to epoll
    output,     \* what waits in TcpConn::output_
    http,       \* Http2Conn::state_
    stream,     \* stream[s]: Http2Stream::state_, "none" without an entry
    dlgt,       \* dlgt[s]: Http2Stream::dlgt_
    exists,     \* GrpcServ still has the connection in conns_
    fault,      \* what ended the process, if anything did
    held,       \* held[t]: the event thread t has taken from epoll, or {}
    pc,         \* where the handler in progress is
    outNext     \* its event has OUT as well

tcpVars  == <<tcp, taskset, output>>
httpVars == <<http, stream, dlgt>>
handler  == <<held, pc, outNext>>
vars     == <<tcpVars, httpVars, exists, fault, handler>>

Events       == SUBSET {"IN", "OUT"}
TcpStates    == {"CONNECTED", "FLUSHING", "CLOSED"}
HttpStates   == {"CONNECTING", "CONNECTED", "CLOSED", "ERROR"}
StreamStates == {"IDLE", "OPEN", "HALF_CLOSED_LOCAL", "HALF_CLOSED_REMOTE",
                 "CLOSED"}

(* The streams' delegates: a producer or consumer, which goes away when it *)
(* is told of the end, or the one object that answers 404, which stays.    *)
Delegates == {"service", "404"}

TypeOK ==
    /\ tcp \in TcpStates
    /\ taskset \in Events
    /\ output \subseteq {"frame", "window"}
    /\ http \in HttpStates
    /\ stream \in [Ids -> StreamStates \cup {"none"}]
    /\ dlgt \in [Ids -> Delegates \cup {"none"}]
    /\ exists \in BOOLEAN
    /\ fault \in {"none", "assertion", "deleted"}
    /\ held \in [Threads -> Events]
    /\ pc \in {"idle", "read", "write"}
    /\ outNext \in BOOLEAN

(* readSome: the interest in IN is added to the others.                    *)
ReadSome(tasks) == tasks \cup {"IN"}

(* The constructors, with readSome at their end.                           *)
Init ==
    /\ tcp = "CONNECTED"
    /\ taskset = ReadSome({})
    /\ output = {}
    /\ http = "CONNECTING"
    /\ stream = [s \in Ids |-> "none"]
    /\ dlgt = [s \in Ids |-> "none"]
    /\ exists = TRUE
    /\ fault = "none"
    /\ held = [t \in Threads |-> {}]
    /\ pc = "idle"
    /\ outNext = FALSE

-----------------------------------------------------------------------------
(***************************************************************************)
(* Faults: an assertion that fails, and the use of a destroyed object.     *)
(***************************************************************************)
Abort ==
    /\ fault' = "assertion"
    /\ UNCHANGED <<tcpVars, httpVars, exists, handler>>

-----------------------------------------------------------------------------
(***************************************************************************)
(* Closing.                                                                *)
(***************************************************************************)

(* A producer or consumer is deleted by its provider and takes itself out  *)
(* of its stream, whatever it is told; the object for 404 ignores it all.  *)
RemoveService(d) == IF d = "service" THEN "none" ELSE d

OnError(d)  == RemoveService(d)
OnClosed(d) == RemoveService(d)

(* onClosed, or onError, for every stream that has a delegate.             *)
Ended  == [s \in Ids |-> OnClosed(dlgt[s])]
Failed == [s \in Ids |-> OnError(dlgt[s])]

AllClosed ==
    [s \in Ids |-> IF stream[s] = "none" THEN "none" ELSE "CLOSED"]

(* closeNow: the delegate's onClosed or onError reaches GrpcServ, which    *)
(* erases the connection.                                                  *)
Gone ==
    /\ tcp' = "CLOSED"
    /\ taskset' = {}
    /\ exists' = FALSE

(* The same with Http2Conn::onClosed, when closeNow is not the end of      *)
(* handleError or handleClose; the destructors of the streams end those    *)
(* that still have a delegate.                                             *)
CloseNow ==
    /\ Gone
    /\ dlgt' = Ended
    /\ IF http \in {"CLOSED", "ERROR"}
       THEN UNCHANGED <<http, stream>>
       ELSE http' = "CLOSED" /\ stream' = AllClosed

(* The ERROR macro: onError, by which the connection is destroyed, and     *)
(* then closeNow on what is left of it.                                    *)
Fail ==
    /\ Gone
    /\ dlgt' = Ended
    /\ http' = "ERROR"
    /\ fault' = "deleted"
    /\ UNCHANGED <<output, stream>>

(* TcpConn::closeSoon of a connected TcpConn.  With nothing to flush it    *)
(* closes at once, unless shutdown fails because the peer has reset the    *)
(* connection; used tells if the caller goes on with the connection.       *)
CloseSoon(used) ==
    /\ UNCHANGED output
    /\ IF output = {}
       THEN /\ Gone
            /\ fault' \in IF used THEN {"deleted"} ELSE {"none", "deleted"}
       ELSE /\ tcp' = "FLUSHING"
            /\ taskset' = (taskset \ {"IN"}) \cup {"OUT"}
            /\ UNCHANGED <<exists, fault>>

(* After the IN part of an event its OUT part, if it has one.              *)
NextPart == pc' = IF outNext THEN "write" ELSE "idle"

(* Http2Conn::handleError, and back through parseFrame and onRead.  st are *)
(* the streams, with the one the frame may have added.                     *)
HandleErrorSilent(st) ==    \* faulty
    IF tcp # "CONNECTED"
    THEN Abort
    ELSE /\ http' = "ERROR"
         /\ stream' = st
         /\ dlgt' = IF output = {} THEN Ended ELSE dlgt
         /\ CloseSoon(FALSE)
         /\ NextPart
         /\ UNCHANGED <<held, outNext>>

HandleError(st) ==
    IF tcp # "CONNECTED"
    THEN Abort
    ELSE /\ http' = "ERROR"
         /\ stream' = st
         /\ dlgt' = Failed
         /\ CloseSoon(FALSE)
         /\ NextPart
         /\ UNCHANGED <<held, outNext>>

(* A frame is added to the output and the interest in OUT announced.       *)
WriteSomeQuiet == output' = output \cup {"frame"} /\ UNCHANGED taskset  \* faulty

WriteSome ==
    /\ output' = output \cup {"frame"}
    /\ taskset' = taskset \cup {"OUT"}

-----------------------------------------------------------------------------
(***************************************************************************)
(* Events: Loop::run and Wrapper::onEvent.                                 *)
(***************************************************************************)
Report(t) ==
    /\ exists
    /\ held[t] = {}
    /\ \E evt \in (SUBSET taskset) \ {{}} : held' = [held EXCEPT ![t] = evt]
    /\ UNCHANGED <<tcpVars, httpVars, exists, fault, pc, outNext>>

(* The wrapper is locked, or has no connection any more.                   *)
Drop(t) ==
    /\ held[t] # {}
    /\ pc # "idle" \/ ~exists
    /\ held' = [held EXCEPT ![t] = {}]
    /\ UNCHANGED <<tcpVars, httpVars, exists, fault, pc, outNext>>

Take(t) ==
    /\ held[t] # {}
    /\ pc = "idle" /\ exists
    /\ held' = [held EXCEPT ![t] = {}]

(* TcpConn::onEvent.  With IN it must be connected; recv gets data or      *)
(* nothing, the end of the stream, or an error.                            *)
StartRead(t) ==
    /\ Take(t)
    /\ "IN" \in held[t]
    /\ tcp = "CONNECTED"
    /\ pc' = "read"
    /\ outNext' = ("OUT" \in held[t])
    /\ UNCHANGED <<tcpVars, httpVars, exists, fault>>

PeerClosed(t) ==
    /\ Take(t)
    /\ "IN" \in held[t]
    /\ tcp = "CONNECTED"
    /\ CloseNow
    /\ output' = {}
    /\ UNCHANGED <<fault, pc, outNext>>

ReadError(t) ==
    /\ Take(t)
    /\ "IN" \in held[t]
    /\ tcp = "CONNECTED"
    /\ Fail
    /\ UNCHANGED <<pc, outNext>>

ReadWhileFlushing(t) ==
    /\ held[t] # {} /\ "IN" \in held[t]
    /\ pc = "idle" /\ exists
    /\ tcp # "CONNECTED"
    /\ Abort

StartWrite(t) ==
    /\ Take(t)
    /\ "IN" \notin held[t]
    /\ pc' = "write"
    /\ outNext' = TRUE
    /\ UNCHANGED <<tcpVars, httpVars, exists, fault>>

-----------------------------------------------------------------------------
(***************************************************************************)
(* Parsing: Http2Conn::onRead and parseFrame, one action per type of       *)
(* frame.  A frame that is in order leaves the handler reading.            *)
(***************************************************************************)

(* No complete frame is left.                                              *)
EndRead ==
    /\ pc = "read"
    /\ NextPart
    /\ UNCHANGED <<tcpVars, httpVars, exists, fault, held, outNext>>

Known(s) == stream[s] \notin {"none", "CLOSED"}

NewStream == "IDLE"

WithStream(s) ==
    IF Known(s) THEN stream ELSE [stream EXCEPT ![s] = NewStream]

(* A frame of an unknown type, a control frame with the number of a        *)
(* stream, an RST_STREAM of the wrong length, a frame of an unknown        *)
(* stream.                                                                 *)
Invalid == pc = "read" /\ HandleError(stream)

(* PUSH_PROMISE is invalid, but adds the stream it names.                  *)
PushPromise(s) == pc = "read" /\ HandleError(WithStream(s))

(* Of a known stream both change nothing.                                  *)
Priority     == pc = "read" /\ UNCHANGED vars
WindowUpdate == pc = "read" /\ UNCHANGED vars

(* What END_STREAM makes of a stream, and of its delegate.                 *)
HalfClosed(state) ==
    CASE state \in {"IDLE", "OPEN"}    -> "HALF_CLOSED_REMOTE"
      [] state = "HALF_CLOSED_LOCAL"  -> "CLOSED"
      [] OTHER                        -> state

(* The answer to DATA is a WINDOW_UPDATE, put into the output unannounced. *)
Data(s, end) ==
    /\ pc = "read"
    /\ IF http = "CONNECTED" /\ stream[s] \in {"OPEN", "HALF_CLOSED_LOCAL"}
       THEN /\ output' = output \cup {"window"}
            /\ IF end
               THEN /\ stream' = [stream EXCEPT ![s] = HalfClosed(@)]
                    /\ dlgt' = [dlgt EXCEPT ![s] = OnClosed(@)]
               ELSE UNCHANGED <<stream, dlgt>>
            /\ UNCHANGED <<tcp, taskset, http, exists, fault, handler>>
       ELSE HandleError(stream)

(* The fields of HEADERS and CONTINUATION.  end tells END_STREAM, complete *)
(* END_HEADERS, valid if the block can be inflated, and path which service *)
(* it asks for: a complete block gets a stream its delegate, who answers   *)
(* with headers, unless it has one already.                                *)
HeaderFields == [end : BOOLEAN, complete : BOOLEAN, valid : BOOLEAN,
                 path : Delegates]

(* sendHeaders: refused for a stream our side has ended; finish ends it.   *)
MaySendHeaders(state) == state \in {"IDLE", "OPEN", "HALF_CLOSED_REMOTE"}

SendHeaders(state, finish) ==
    IF MaySendHeaders(state) /\ finish THEN "HALF_CLOSED_LOCAL" ELSE state

WriteHeaders(state, doclose) == SendHeaders(state, doclose)

(* newStream and onCreated: 200 with more to come, or 404 and the end.     *)
OnCreated(state, path) == WriteHeaders(state, path = "404")

Opened(state, isNew, path) ==
    LET answered == IF isNew THEN OnCreated(state, path) ELSE state
    IN  IF answered = "IDLE" THEN "OPEN" ELSE answered

(* Headers that follow are trailers, of which no delegate makes anything.  *)
OnTrailer(d) == d

HeaderBlock(st, s, h) ==
    LET isNew == h.complete /\ dlgt[s] = "none"
        sends == isNew /\ MaySendHeaders(st[s])
        state == IF h.complete THEN Opened(st[s], isNew, h.path) ELSE st[s]
        owner == IF isNew THEN h.path ELSE OnTrailer(dlgt[s])
    IN
    IF \/ http # "CONNECTED"
       \/ st[s] \notin {"IDLE", "OPEN", "HALF_CLOSED_LOCAL"}
       \/ h.complete /\ ~h.valid
    THEN HandleError(st)
    ELSE IF sends /\ tcp # "CONNECTED"
    THEN Abort
    ELSE /\ stream' = [st EXCEPT ![s] = IF h.end THEN HalfClosed(state) ELSE state]
         /\ dlgt' = [dlgt EXCEPT ![s] = IF h.end THEN OnClosed(owner) ELSE owner]
         /\ IF sends THEN WriteSome ELSE UNCHANGED <<output, taskset>>
         /\ UNCHANGED <<tcp, http, exists, fault, handler>>

(* HEADERS begin a stream that is unknown or closed; the entry of a closed *)
(* one is used again with the delegate it has.                             *)
Headers(s, h) ==
    /\ pc = "read"
    /\ HeaderBlock(WithStream(s), s, h)

Continuation(s, h) ==
    /\ pc = "read"
    /\ IF Known(s) THEN HeaderBlock(stream, s, h) ELSE HandleError(stream)

RstStreamUntold(s) ==    \* faulty
    /\ pc = "read"
    /\ IF http = "CONNECTED" /\ Known(s) /\ stream[s] # "IDLE"
       THEN /\ stream' = [stream EXCEPT ![s] = "CLOSED"]
            /\ UNCHANGED <<tcpVars, http, dlgt, exists, fault, handler>>
       ELSE HandleError(stream)

RstStream(s) ==
    /\ pc = "read"
    /\ IF http = "CONNECTED" /\ Known(s) /\ stream[s] # "IDLE"
       THEN /\ stream' = [stream EXCEPT ![s] = "CLOSED"]
            /\ dlgt' = [dlgt EXCEPT ![s] = OnClosed(@)]
            /\ UNCHANGED <<tcpVars, http, exists, fault, handler>>
       ELSE HandleError(stream)

SettingsAck ==
    /\ pc = "read"
    /\ http' = "CONNECTED"
    /\ UNCHANGED <<tcpVars, stream, dlgt, exists, fault, handler>>

(* SETTINGS and PING are answered.                                         *)
Answered ==
    /\ pc = "read"
    /\ IF tcp # "CONNECTED"
       THEN Abort
       ELSE /\ WriteSome
            /\ UNCHANGED <<tcp, httpVars, exists, fault, handler>>

(* handleClose, after which parsing goes on.                               *)
HandleClose ==
    /\ IF http # "CLOSED" /\ tcp # "CONNECTED"
       THEN Abort
       ELSE /\ http' = "CLOSED"
            /\ stream' = AllClosed
            /\ dlgt' = Ended
            /\ IF http # "CLOSED"
               THEN CloseSoon(TRUE)
               ELSE UNCHANGED <<tcpVars, exists, fault>>
            /\ UNCHANGED handler

GoAway == pc = "read" /\ HandleClose

Frame ==
    \/ Invalid
    \/ Priority \/ WindowUpdate
    \/ SettingsAck
    \/ Answered
    \/ GoAway
    \/ \E s \in Ids :
         \/ RstStream(s)
         \/ PushPromise(s)
         \/ \E end \in BOOLEAN : Data(s, end)
         \/ \E h \in HeaderFields : Headers(s, h) \/ Continuation(s, h)

-----------------------------------------------------------------------------
(***************************************************************************)
(* Writing: directWriteV.                                                  *)
(***************************************************************************)

(* The read part has destroyed the connection, and onEvent looks at its    *)
(* state.                                                                  *)
WriteDeleted ==
    /\ pc = "write"
    /\ ~exists
    /\ fault' = "deleted"
    /\ UNCHANGED <<tcpVars, httpVars, exists, handler>>

(* Nothing is written, or not everything.                                  *)
WriteSomeOf ==
    /\ pc = "write"
    /\ exists
    /\ IF output = {}
       THEN UNCHANGED output
       ELSE output' \in (SUBSET output) \ {{}}
    /\ pc' = "idle"
    /\ UNCHANGED <<tcp, taskset, httpVars, exists, fault, held, outNext>>

(* Everything is written; a connection that was flushing is shut down and  *)
(* closed.                                                                 *)
WriteAllStay ==    \* faulty
    /\ pc = "write"
    /\ exists /\ output # {}
    /\ output' = {}
    /\ pc' = "idle"
    /\ taskset' = taskset \ {"OUT"}
    /\ UNCHANGED <<tcp, httpVars, exists, fault, held, outNext>>

WriteAll ==
    /\ pc = "write"
    /\ exists /\ output # {}
    /\ pc' = "idle"
    /\ UNCHANGED <<held, outNext>>
    /\ IF tcp = "FLUSHING"
       THEN \/ CloseNow /\ output' = {} /\ UNCHANGED fault
            \/ Fail
       ELSE /\ output' = {}
            /\ taskset' = taskset \ {"OUT"}
            /\ UNCHANGED <<tcp, httpVars, exists, fault>>

WriteError ==
    /\ pc = "write"
    /\ exists /\ output # {}
    /\ pc' = "idle"
    /\ IF tcp = "FLUSHING"
       THEN CloseNow /\ UNCHANGED <<output, fault>>
       ELSE Fail
    /\ UNCHANGED <<held, outNext>>

(* sendData, for a stream both sides have not ended.                       *)
MaySendData(state) == state \in {"OPEN", "HALF_CLOSED_REMOTE"}

SendData(s) ==
    /\ MaySendData(stream[s])
    /\ IF tcp # "CONNECTED"
       THEN Abort
       ELSE /\ WriteSome
            /\ UNCHANGED <<tcp, httpVars, exists, fault, handler>>

(* A message of the broker for stream s, written by the handler of the     *)
(* consumer's event under the connection's lock: writeData.                *)
Push(s) ==
    /\ pc = "idle" /\ exists
    /\ dlgt[s] = "service"
    /\ SendData(s)

-----------------------------------------------------------------------------
Handle(t) ==
    \/ Drop(t)
    \/ StartRead(t)
    \/ PeerClosed(t)
    \/ ReadError(t)
    \/ ReadWhileFlushing(t)
    \/ StartWrite(t)

Write == WriteDeleted \/ WriteSomeOf \/ WriteAll \/ WriteError

Next ==
    /\ fault = "none"
    /\ \/ \E t \in Threads : Report(t) \/ Handle(t)
       \/ Frame
       \/ EndRead
       \/ Write
       \/ \E s \in Ids : Push(s)

Spec == Init /\ [][Next]_vars

(* Threads that wait get events and handle them, a handler goes on, what   *)
(* has been received is read to its end, and a peer that is written to     *)
(* again and again takes everything at last or is found dead.              *)
Fairness ==
    /\ \A t \in Threads :
         /\ WF_vars(fault = "none" /\ Report(t))
         /\ WF_vars(fault = "none" /\ Handle(t))
    /\ WF_vars(fault = "none" /\ EndRead)
    /\ WF_vars(fault = "none" /\ Write)
    /\ SF_vars(fault = "none" /\ (WriteAll \/ WriteError))

FairSpec == Spec /\ Fairness

-----------------------------------------------------------------------------
(* What is put into the output is announced, else it would wait for the    *)
(* next occasion to write: while connected, a frame other than a           *)
(* WINDOW_UPDATE comes with the interest in OUT (Http2Conn.cpp:107, :131,  *)
(* :480, :509), and a connection is flushed only when there is something   *)
(* to flush, and watched for that (TcpConn.cpp:176).                       *)
OutputAnnounced ==
    /\ tcp = "CONNECTED" /\ "frame" \in output => "OUT" \in taskset
    /\ tcp = "FLUSHING" => output # {} /\ "OUT" \in taskset

(* A stream with a producer or consumer is one sendData accepts, so no     *)
(* message of the broker is dropped for the state of its stream            *)
(* (Http2Conn.cpp:117 with GrpcRestr.cpp:258).                             *)
ServedWritable ==
    \A s \in Ids :
        dlgt[s] = "service" => MaySendData(stream[s])

(* A connection that is being flushed gets closed (TcpConn.cpp:165-257).   *)
FlushEnds == tcp = "FLUSHING" ~> tcp = "CLOSED" \/ fault # "none"

(* Http2Conn.hpp:140: the owner may delete the connection when it is told  *)
(* of its end, so nothing of it is used afterwards.                        *)
NeverUsedAfterEnd == fault # "deleted"

absPhase == CASE ~exists                        -> "gone"
              [] exists /\ tcp = "FLUSHING"     -> "closing"
              [] exists /\ tcp # "FLUSHING"     -> "open"
absLive  == {s \in Ids : dlgt[s] = "service"}

Abstract == INSTANCE Session WITH phase <- absPhase, live <- absLive

(* Every service ends in the step in which its connection starts to close, *)
(* and none begins afterwards (Http2Conn.cpp:626-661).                     *)
ImplementsSession == Abstract!Spec
=============================================================================
