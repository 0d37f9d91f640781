--------------------------- MODULE ConnectionProofs ---------------------------
(***************************************************************************)
(* Proofs about Connection for any number of streams and threads: its      *)
(* type, that output is announced, that served streams can be written to,  *)
(* and that it implements Session.                                         *)
(***************************************************************************)
EXTENDS Connection, TLAPS

(* The owner has the connection exactly as long as its socket is open.     *)
OwnedWhileOpen == exists <=> tcp # "CLOSED"

(* Nothing is served on a connection that closes or is closed.             *)
ServedWhileConnected ==
    tcp # "CONNECTED" => \A s \in Ids : dlgt[s] # "service"

(* Only the answer 404 ends our side of a stream.                          *)
LocalEndIs404 ==
    \A s \in Ids : stream[s] = "HALF_CLOSED_LOCAL" => dlgt[s] = "404"

(* A session that has been closed is on a socket that is, or is flushed.   *)
ClosedNotConnected == http = "CLOSED" => tcp # "CONNECTED"

CInv ==
    /\ TypeOK
    /\ OutputAnnounced
    /\ ServedWritable
    /\ OwnedWhileOpen
    /\ ServedWhileConnected
    /\ LocalEndIs404
    /\ ClosedNotConnected

-----------------------------------------------------------------------------
(* After Ended nothing is served and the 404 streams keep their delegate.  *)
LEMMA EndedServesNothing ==
    ASSUME TypeOK
    PROVE  /\ Ended \in [Ids -> Delegates \cup {"none"}]
           /\ \A s \in Ids : /\ Ended[s] # "service"
                             /\ dlgt[s] = "404" => Ended[s] = "404"
    BY DEF TypeOK, TcpStates, HttpStates, Ended, OnClosed, RemoveService, Delegates

(* A stream is told of an error as of the end.                             *)
LEMMA FailedIsEnded == Failed = Ended
    BY DEF Failed, Ended, OnError, OnClosed

(* closeNow by the end of the peer or of flushing keeps the invariant.     *)
LEMMA CloseNowKeepsInv ==
    ASSUME CInv, CloseNow, output' \subseteq {"frame", "window"},
           fault' = fault, held' \in [Threads -> Events],
           pc' = "idle", outNext' \in BOOLEAN
    PROVE  CInv'
<1>1. /\ Ended \in [Ids -> Delegates \cup {"none"}]
      /\ \A s \in Ids : Ended[s] # "service" /\ (dlgt[s] = "404" => Ended[s] = "404")
  BY EndedServesNothing DEF CInv
<1>2. stream' \in [Ids -> StreamStates \cup {"none"}]
  BY DEF CInv, TypeOK, TcpStates, HttpStates, CloseNow, AllClosed, StreamStates
<1>3. \A s \in Ids : stream'[s] = "HALF_CLOSED_LOCAL" => stream[s] = "HALF_CLOSED_LOCAL"
  BY DEF CInv, TypeOK, TcpStates, HttpStates, CloseNow, AllClosed, StreamStates
<1>4. TypeOK'
  BY <1>1, <1>2 DEF CInv, TypeOK, TcpStates, HttpStates, CloseNow, Gone, Events
<1>5. LocalEndIs404'
  BY <1>1, <1>3 DEF CInv, LocalEndIs404, CloseNow
<1> QED
  BY <1>1, <1>4, <1>5 DEF CInv, CloseNow, Gone, OutputAnnounced, ServedWritable,
     OwnedWhileOpen, ServedWhileConnected, ClosedNotConnected

(* The ERROR macro keeps it, too.                                          *)
LEMMA FailKeepsInv ==
    ASSUME CInv, Fail, held' \in [Threads -> Events],
           pc' = "idle", outNext' \in BOOLEAN
    PROVE  CInv'
<1>1. /\ Ended \in [Ids -> Delegates \cup {"none"}]
      /\ \A s \in Ids : Ended[s] # "service" /\ (dlgt[s] = "404" => Ended[s] = "404")
  BY EndedServesNothing DEF CInv
<1>2. TypeOK'
  BY <1>1 DEF CInv, TypeOK, TcpStates, HttpStates, Fail, Gone, Events
<1>3. LocalEndIs404'
  BY <1>1 DEF CInv, LocalEndIs404, Fail
<1> QED
  BY <1>1, <1>2, <1>3 DEF CInv, Fail, Gone, OutputAnnounced, ServedWritable,
     OwnedWhileOpen, ServedWhileConnected, ClosedNotConnected

(* An assertion that fails leaves everything as it was.                    *)
LEMMA AbortKeepsInv ==
    ASSUME CInv, Abort
    PROVE  CInv'
<1>1. TypeOK'
  BY DEF CInv, Abort, TypeOK, TcpStates, HttpStates, tcpVars, httpVars, handler
<1>2. OutputAnnounced' /\ ServedWritable' /\ OwnedWhileOpen'
  BY DEF CInv, Abort, tcpVars, httpVars, OutputAnnounced, ServedWritable,
         OwnedWhileOpen
<1>3. ServedWhileConnected' /\ LocalEndIs404' /\ ClosedNotConnected'
  BY DEF CInv, Abort, tcpVars, httpVars, ServedWhileConnected, LocalEndIs404,
         ClosedNotConnected
<1> QED
  BY <1>1, <1>2, <1>3 DEF CInv

(* handleError, with the streams the frame has left.                       *)
LEMMA HandleErrorKeepsInv ==
    ASSUME CInv, pc = "read",
           NEW st \in [Ids -> StreamStates \cup {"none"}],
           \A s \in Ids : st[s] = "HALF_CLOSED_LOCAL" => stream[s] = "HALF_CLOSED_LOCAL",
           HandleError(st)
    PROVE  CInv'
<1>1. /\ Ended \in [Ids -> Delegates \cup {"none"}]
      /\ \A s \in Ids : Ended[s] # "service" /\ (dlgt[s] = "404" => Ended[s] = "404")
  BY EndedServesNothing DEF CInv
<1>2. CASE tcp # "CONNECTED"
  BY <1>2, AbortKeepsInv DEF HandleError
<1>3. CASE tcp = "CONNECTED"
  <2>1. /\ http' = "ERROR" /\ stream' = st /\ dlgt' = Ended
        /\ CloseSoon(FALSE) /\ NextPart
        /\ held' = held /\ outNext' = outNext
    BY <1>3, FailedIsEnded DEF HandleError
  <2>2. TypeOK'
    BY <1>1, <1>3, <2>1 DEF CInv, TypeOK, TcpStates, HttpStates, CloseSoon, Gone, NextPart, Events
  <2>3. LocalEndIs404'
    BY <1>1, <2>1 DEF CInv, LocalEndIs404
  <2>4. OutputAnnounced' /\ OwnedWhileOpen'
    BY <1>3, <2>1 DEF CInv, OutputAnnounced, OwnedWhileOpen, CloseSoon, Gone
  <2> QED
    BY <1>1, <2>1, <2>2, <2>3, <2>4 DEF CInv, ServedWritable, ServedWhileConnected,
       ClosedNotConnected
<1> QED
  BY <1>2, <1>3

(* END_STREAM leaves no stream that only our side has ended.               *)
LEMMA HalfClosedState ==
    ASSUME NEW state \in StreamStates
    PROVE  HalfClosed(state) \in StreamStates \ {"HALF_CLOSED_LOCAL"}
<1>1. CASE state \in {"IDLE", "OPEN"}
  BY <1>1 DEF HalfClosed, StreamStates
<1>2. CASE state = "HALF_CLOSED_LOCAL"
  BY <1>2 DEF HalfClosed, StreamStates
<1>3. CASE state \notin {"IDLE", "OPEN", "HALF_CLOSED_LOCAL"}
  BY <1>3 DEF HalfClosed, StreamStates
<1> QED
  BY <1>1, <1>2, <1>3

(* The headers of an answer are not refused: a stream that gets its        *)
(* delegate now is not one our side has ended.                             *)
LEMMA NewMaySend ==
    ASSUME CInv, NEW s \in Ids, NEW state, dlgt[s] = "none",
           state = stream[s] \/ state = "IDLE",
           state \in {"IDLE", "OPEN", "HALF_CLOSED_LOCAL"}
    PROVE  MaySendHeaders(state)
    BY DEF CInv, LocalEndIs404, MaySendHeaders

(* A block of headers: the delegate it gives a stream that has none comes  *)
(* with a state in which that delegate may write, or answers 404.          *)
LEMMA HeaderBlockKeepsInv ==
    ASSUME CInv, pc = "read", NEW s \in Ids, NEW h \in HeaderFields,
           NEW st \in [Ids -> StreamStates \cup {"none"}],
           \A i \in Ids : i # s => st[i] = stream[i],
           \/ st[s] = stream[s]
           \/ st[s] = "IDLE" /\ dlgt[s] # "service",
           HeaderBlock(st, s, h)
    PROVE  CInv'
<1> DEFINE isNew == h.complete /\ dlgt[s] = "none"
           state == IF h.complete THEN Opened(st[s], isNew, h.path) ELSE st[s]
           owner == IF isNew THEN h.path ELSE OnTrailer(dlgt[s])
           newState == IF h.end THEN HalfClosed(state) ELSE state
           newDlgt == IF h.end THEN OnClosed(owner) ELSE owner
<1>1. CASE \/ http # "CONNECTED"
           \/ st[s] \notin {"IDLE", "OPEN", "HALF_CLOSED_LOCAL"}
           \/ h.complete /\ ~h.valid
  <2>1. HandleError(st)
    BY <1>1 DEF HeaderBlock
  <2>2. \A i \in Ids : st[i] = "HALF_CLOSED_LOCAL" => stream[i] = "HALF_CLOSED_LOCAL"
    OBVIOUS
  <2> QED
    BY <2>1, <2>2, HandleErrorKeepsInv
<1>2. CASE /\ http = "CONNECTED"
           /\ st[s] \in {"IDLE", "OPEN", "HALF_CLOSED_LOCAL"}
           /\ ~(h.complete /\ ~h.valid)
  <2>1. CASE isNew /\ tcp # "CONNECTED"
    BY <1>2, <2>1, AbortKeepsInv, NewMaySend DEF HeaderBlock
  <2>2. CASE ~(isNew /\ tcp # "CONNECTED")
    <3>1. /\ stream' = [st EXCEPT ![s] = newState]
          /\ dlgt' = [dlgt EXCEPT ![s] = newDlgt]
          /\ IF isNew THEN WriteSome ELSE UNCHANGED <<output, taskset>>
          /\ UNCHANGED <<tcp, http, exists, fault, handler>>
      BY <1>2, <2>2, NewMaySend DEF HeaderBlock
    <3>2. h.path \in Delegates /\ dlgt[s] \in Delegates \cup {"none"}
      BY DEF CInv, TypeOK, TcpStates, HttpStates, HeaderFields
    <3>3. newDlgt \in Delegates \cup {"none"}
      BY <3>2 DEF OnClosed, RemoveService, OnTrailer, Delegates
    <3>4. /\ st[s] = "HALF_CLOSED_LOCAL" => dlgt[s] = "404"
          /\ dlgt[s] = "service" => st[s] = "OPEN"
      BY <1>2 DEF CInv, LocalEndIs404, ServedWritable, MaySendData
    <3>5. h.complete \in BOOLEAN
      BY DEF HeaderFields
    <3>6. /\ state \in {"IDLE", "OPEN", "HALF_CLOSED_LOCAL"}
          /\ state = "HALF_CLOSED_LOCAL" => owner = "404"
          /\ owner = "service" => state = "OPEN"
      <4>1. CASE isNew /\ h.path = "404"
        BY <1>2, <3>2, <3>4, <4>1
           DEF Opened, OnCreated, WriteHeaders, SendHeaders, MaySendHeaders
      <4>2. CASE h.complete /\ ~(isNew /\ h.path = "404") /\ st[s] = "IDLE"
        BY <3>2, <3>4, <4>2
           DEF Opened, OnCreated, WriteHeaders, SendHeaders, MaySendHeaders, OnTrailer, Delegates
      <4>3. CASE h.complete /\ ~(isNew /\ h.path = "404") /\ st[s] # "IDLE"
        BY <1>2, <3>2, <3>4, <4>3
           DEF Opened, OnCreated, WriteHeaders, SendHeaders, MaySendHeaders, OnTrailer, Delegates
      <4>4. CASE ~h.complete
        BY <1>2, <3>4, <4>4 DEF OnTrailer
      <4> QED
        BY <3>5, <4>1, <4>2, <4>3, <4>4
    <3>7. HalfClosed(state) \in StreamStates \ {"HALF_CLOSED_LOCAL"}
      BY <3>6, HalfClosedState DEF StreamStates
    <3>8. newState \in StreamStates /\ (newState = "HALF_CLOSED_LOCAL" => newDlgt = "404")
      BY <3>6, <3>7 DEF OnClosed, RemoveService, StreamStates
    <3>9. newDlgt = "service" => newState = "OPEN"
      BY <3>6, <3>7 DEF OnClosed, RemoveService
    <3>10. newDlgt = "service" => tcp = "CONNECTED"
      BY <2>2 DEF CInv, ServedWhileConnected, OnClosed, RemoveService, OnTrailer
    <3> HIDE DEF newState, newDlgt
    <3>11. TypeOK'
      BY <3>1, <3>3, <3>8 DEF CInv, TypeOK, TcpStates, HttpStates, WriteSome, Events, handler
    <3>12. OutputAnnounced'
      BY <3>1, <2>2 DEF CInv, OutputAnnounced, WriteSome
    <3>13. ServedWritable' /\ LocalEndIs404'
      BY <3>1, <3>8, <3>9 DEF CInv, TypeOK, TcpStates, HttpStates, ServedWritable, MaySendData,
         LocalEndIs404
    <3>14. ServedWhileConnected'
      BY <3>1, <3>10 DEF CInv, TypeOK, TcpStates, HttpStates, ServedWhileConnected
    <3> QED
      BY <3>1, <3>11, <3>12, <3>13, <3>14 DEF CInv, OwnedWhileOpen,
         ClosedNotConnected, handler
  <2> QED
    BY <2>1, <2>2
<1> QED
  BY <1>1, <1>2

(* GOAWAY, also when it comes again.                                       *)
LEMMA GoAwayKeepsInv ==
    ASSUME CInv, GoAway
    PROVE  CInv'
<1>1. /\ Ended \in [Ids -> Delegates \cup {"none"}]
      /\ \A s \in Ids : Ended[s] # "service" /\ (dlgt[s] = "404" => Ended[s] = "404")
  BY EndedServesNothing DEF CInv
<1>2. /\ AllClosed \in [Ids -> StreamStates \cup {"none"}]
      /\ \A s \in Ids : AllClosed[s] # "HALF_CLOSED_LOCAL"
  BY DEF AllClosed, StreamStates
<1>3. CASE http # "CLOSED" /\ tcp # "CONNECTED"
  BY <1>3, AbortKeepsInv DEF GoAway, HandleClose
<1>4. CASE http = "CLOSED"
  <2>1. /\ http' = "CLOSED" /\ stream' = AllClosed /\ dlgt' = Ended
        /\ UNCHANGED <<tcpVars, exists, fault, handler>>
    BY <1>4 DEF GoAway, HandleClose
  <2>2. TypeOK'
    BY <1>1, <1>2, <2>1 DEF CInv, TypeOK, TcpStates, HttpStates, tcpVars, handler
  <2>3. OutputAnnounced' /\ OwnedWhileOpen' /\ ClosedNotConnected'
    BY <1>4, <2>1 DEF CInv, tcpVars, OutputAnnounced, OwnedWhileOpen, ClosedNotConnected
  <2>4. ServedWritable' /\ ServedWhileConnected' /\ LocalEndIs404'
    BY <1>1, <1>2, <2>1 DEF ServedWritable, ServedWhileConnected, LocalEndIs404
  <2> QED
    BY <2>2, <2>3, <2>4 DEF CInv
<1>5. CASE http # "CLOSED" /\ tcp = "CONNECTED"
  <2>1. /\ http' = "CLOSED" /\ stream' = AllClosed /\ dlgt' = Ended
        /\ CloseSoon(TRUE)
        /\ UNCHANGED handler
        /\ pc = "read"
    BY <1>5 DEF GoAway, HandleClose
  <2>2. TypeOK'
    BY <1>1, <1>2, <1>5, <2>1 DEF CInv, TypeOK, TcpStates, HttpStates, CloseSoon, Gone, Events, handler
  <2>3. OutputAnnounced' /\ OwnedWhileOpen'
    BY <1>5, <2>1 DEF CInv, OutputAnnounced, OwnedWhileOpen, CloseSoon, Gone
  <2>4. ServedWritable' /\ ServedWhileConnected' /\ LocalEndIs404'
    BY <1>1, <1>2, <2>1 DEF ServedWritable, ServedWhileConnected, LocalEndIs404
  <2>5. ClosedNotConnected'
    BY <1>5, <2>1 DEF ClosedNotConnected, CloseSoon, Gone
  <2> QED
    BY <2>2, <2>3, <2>4, <2>5 DEF CInv
<1> QED
  BY <1>3, <1>4, <1>5

-----------------------------------------------------------------------------
(* Steps that change neither the streams nor the socket's state keep it,   *)
(* if what they add to the output is announced.                            *)
LEMMA QuietKeepsInv ==
    ASSUME CInv, TypeOK',
           UNCHANGED <<tcp, stream, dlgt, exists>>,
           http' = http \/ http' = "CONNECTED",
           OutputAnnounced'
    PROVE  CInv'
  BY DEF CInv, ServedWritable, OwnedWhileOpen, ServedWhileConnected,
         LocalEndIs404, ClosedNotConnected

(* A step that changes one stream keeps the invariant if the stream ends   *)
(* up in no state its delegate could not write in.                         *)
LEMMA StreamKeepsInv ==
    ASSUME CInv, NEW s \in Ids, NEW state \in StreamStates \ {"HALF_CLOSED_LOCAL"},
           stream' = [stream EXCEPT ![s] = state],
           dlgt' = [dlgt EXCEPT ![s] = OnClosed(dlgt[s])],
           output' = output \/ output' = output \cup {"window"},
           UNCHANGED <<tcp, taskset, http, exists, fault, handler>>
    PROVE  CInv'
<1>1. /\ OnClosed(dlgt[s]) \in Delegates \cup {"none"}
      /\ OnClosed(dlgt[s]) # "service"
  BY DEF CInv, TypeOK, TcpStates, HttpStates, OnClosed, RemoveService, Delegates
<1>2. TypeOK'
  BY <1>1 DEF CInv, TypeOK, TcpStates, HttpStates, handler
<1>3. ServedWritable' /\ ServedWhileConnected' /\ LocalEndIs404'
  BY <1>1 DEF CInv, TypeOK, TcpStates, HttpStates, ServedWritable, ServedWhileConnected, LocalEndIs404
<1>4. OutputAnnounced'
  BY DEF CInv, OutputAnnounced
<1> QED
  BY <1>2, <1>3, <1>4 DEF CInv, OwnedWhileOpen, ClosedNotConnected

(* Every frame keeps the invariant.                                        *)
LEMMA FrameKeepsInv == CInv /\ Frame => CInv'
<1> SUFFICES ASSUME CInv, Frame PROVE CInv'
  OBVIOUS
<1>0. /\ pc = "read"
      /\ stream \in [Ids -> StreamStates \cup {"none"}]
  BY DEF Frame, Invalid, PushPromise, Priority, WindowUpdate, SettingsAck, Answered, GoAway, HandleClose,
         RstStream, Data, Headers, Continuation, CInv, TypeOK, TcpStates, HttpStates
<1>err. HandleError(stream) => CInv'
  BY <1>0, HandleErrorKeepsInv
<1>ign. CASE Priority \/ WindowUpdate
  <2>1. UNCHANGED vars
    BY <1>ign DEF Priority, WindowUpdate
  <2> QED
    BY <2>1 DEF vars, tcpVars, httpVars, handler, CInv, TypeOK, TcpStates, HttpStates,
       OutputAnnounced, ServedWritable, OwnedWhileOpen, ServedWhileConnected,
       LocalEndIs404, ClosedNotConnected
<1>idle. ASSUME NEW s \in Ids, ~Known(s)
         PROVE  /\ [stream EXCEPT ![s] = "IDLE"] \in [Ids -> StreamStates \cup {"none"}]
                /\ dlgt[s] # "service"
  BY <1>0, <1>idle DEF Known, CInv, ServedWritable, MaySendData, StreamStates
<1>1. CASE Invalid
  BY <1>1, <1>err DEF Invalid
<1>push. ASSUME NEW s \in Ids, PushPromise(s) PROVE CInv'
  <2>1. CASE Known(s)
    BY <1>push, <1>err, <2>1 DEF PushPromise, WithStream
  <2>2. CASE ~Known(s)
    <3> DEFINE st == [stream EXCEPT ![s] = "IDLE"]
    <3>1. \A i \in Ids : st[i] = "HALF_CLOSED_LOCAL" => stream[i] = "HALF_CLOSED_LOCAL"
      BY <1>0
    <3>2. HandleError(st)
      BY <1>push, <2>2 DEF PushPromise, WithStream, NewStream
    <3> QED
      BY <1>0, <1>idle, <2>2, <3>1, <3>2, HandleErrorKeepsInv
  <2> QED
    BY <2>1, <2>2
<1>2. CASE SettingsAck
  BY <1>2, QuietKeepsInv DEF SettingsAck, CInv, TypeOK, TcpStates, HttpStates, OutputAnnounced, tcpVars, handler
<1>3. CASE Answered
  <2>1. CASE tcp # "CONNECTED"
    BY <1>3, <2>1, AbortKeepsInv DEF Answered
  <2>2. CASE tcp = "CONNECTED"
    BY <1>3, <2>2, QuietKeepsInv
       DEF Answered, WriteSome, CInv, TypeOK, TcpStates, HttpStates, OutputAnnounced, httpVars, handler, Events
  <2> QED
    BY <2>1, <2>2
<1>4. CASE GoAway
  BY <1>4, GoAwayKeepsInv
<1>5. ASSUME NEW s \in Ids, RstStream(s) PROVE CInv'
  BY <1>5, <1>err, StreamKeepsInv DEF RstStream, tcpVars, StreamStates
<1>6. ASSUME NEW s \in Ids, NEW end \in BOOLEAN, Data(s, end) PROVE CInv'
  <2>1. CASE ~(http = "CONNECTED" /\ stream[s] \in {"OPEN", "HALF_CLOSED_LOCAL"})
    BY <1>6, <1>err, <2>1 DEF Data
  <2>2. CASE /\ http = "CONNECTED" /\ stream[s] \in {"OPEN", "HALF_CLOSED_LOCAL"}
             /\ end
    <3>1. HalfClosed(stream[s]) \in StreamStates \ {"HALF_CLOSED_LOCAL"}
      BY <2>2, HalfClosedState DEF StreamStates
    <3> QED
      BY <1>6, <2>2, <3>1, StreamKeepsInv DEF Data
  <2>3. CASE /\ http = "CONNECTED" /\ stream[s] \in {"OPEN", "HALF_CLOSED_LOCAL"}
             /\ ~end
    <3>1. /\ output' = output \cup {"window"}
          /\ UNCHANGED <<tcp, taskset, httpVars, exists, fault, handler>>
      BY <1>6, <2>3 DEF Data, httpVars
    <3>2. TypeOK' /\ OutputAnnounced'
      BY <3>1 DEF CInv, TypeOK, TcpStates, HttpStates, OutputAnnounced, httpVars, handler
    <3> QED
      BY <3>1, <3>2, QuietKeepsInv DEF httpVars
  <2> QED
    BY <2>1, <2>2, <2>3
<1>7. ASSUME NEW s \in Ids, NEW h \in HeaderFields, Headers(s, h) PROVE CInv'
  <2>1. CASE Known(s)
    BY <1>0, <1>7, <2>1, HeaderBlockKeepsInv DEF Headers, WithStream
  <2>2. CASE ~Known(s)
    <3> DEFINE st == [stream EXCEPT ![s] = "IDLE"]
    <3>1. HeaderBlock(st, s, h)
      BY <1>7, <2>2 DEF Headers, WithStream, NewStream
    <3>2. st[s] = "IDLE" /\ \A i \in Ids : i # s => st[i] = stream[i]
      BY <1>0
    <3> HIDE DEF st
    <3> QED
      BY <1>0, <1>idle, <2>2, <3>1, <3>2, HeaderBlockKeepsInv DEF st
  <2> QED
    BY <2>1, <2>2
<1>8. ASSUME NEW s \in Ids, NEW h \in HeaderFields, Continuation(s, h) PROVE CInv'
  BY <1>0, <1>8, <1>err, HeaderBlockKeepsInv DEF Continuation
<1> QED
  BY <1>ign, <1>1, <1>push, <1>2, <1>3, <1>4, <1>5, <1>6, <1>7, <1>8 DEF Frame

-----------------------------------------------------------------------------
LEMMA InitInv == Init => CInv
  BY DEF Init, ReadSome, MaySendData, CInv, TypeOK, TcpStates, HttpStates, OutputAnnounced, ServedWritable, OwnedWhileOpen,
         ServedWhileConnected, LocalEndIs404, ClosedNotConnected, Events

(* Every step keeps the invariant, one case per action.                    *)
LEMMA NextKeepsInv == CInv /\ [Next]_vars => CInv'
<1> SUFFICES ASSUME CInv, [Next]_vars PROVE CInv'
  OBVIOUS
<1>1. CASE UNCHANGED vars
  <2>1. UNCHANGED <<tcpVars, httpVars, exists, fault, handler>>
    BY <1>1 DEF vars
  <2>2. TypeOK' /\ OutputAnnounced'
    BY <2>1 DEF CInv, TypeOK, TcpStates, HttpStates, OutputAnnounced, tcpVars, httpVars, handler
  <2> QED
    BY <2>1, <2>2, QuietKeepsInv DEF tcpVars, httpVars
<1>2. ASSUME NEW t \in Threads, Report(t) PROVE CInv'
  BY <1>2, QuietKeepsInv DEF Report, CInv, TypeOK, TcpStates, HttpStates, OutputAnnounced, tcpVars, httpVars, Events
<1>3. ASSUME NEW t \in Threads, Drop(t) PROVE CInv'
  BY <1>3, QuietKeepsInv DEF Drop, CInv, TypeOK, TcpStates, HttpStates, OutputAnnounced, tcpVars, httpVars, Events
<1>4. ASSUME NEW t \in Threads, Take(t) PROVE held' \in [Threads -> Events] /\ pc = "idle"
  BY <1>4 DEF Take, CInv, TypeOK, TcpStates, HttpStates, Events
<1>5. ASSUME NEW t \in Threads, StartRead(t) \/ StartWrite(t) PROVE CInv'
  <2>1. /\ held' \in [Threads -> Events]
        /\ UNCHANGED <<tcpVars, httpVars, exists, fault>>
    BY <1>4, <1>5 DEF StartRead, StartWrite
  <2>2. pc' \in {"read", "write"} /\ outNext' \in BOOLEAN
    <3>1. CASE StartRead(t)
      BY <3>1 DEF StartRead
    <3>2. CASE StartWrite(t)
      BY <3>2 DEF StartWrite
    <3> QED
      BY <1>5, <3>1, <3>2
  <2>3. TypeOK' /\ OutputAnnounced'
    BY <2>1, <2>2 DEF CInv, TypeOK, TcpStates, HttpStates, OutputAnnounced, tcpVars, httpVars
  <2> QED
    BY <2>1, <2>3, QuietKeepsInv DEF tcpVars, httpVars
<1>6. ASSUME NEW t \in Threads, PeerClosed(t) PROVE CInv'
  BY <1>4, <1>6, CloseNowKeepsInv DEF PeerClosed, CInv, TypeOK, TcpStates, HttpStates
<1>7. ASSUME NEW t \in Threads, ReadError(t) PROVE CInv'
  BY <1>4, <1>7, FailKeepsInv DEF ReadError, CInv, TypeOK, TcpStates, HttpStates
<1>8. ASSUME NEW t \in Threads, ReadWhileFlushing(t) PROVE CInv'
  BY <1>8, AbortKeepsInv DEF ReadWhileFlushing
<1>9. CASE Frame
  BY <1>9, FrameKeepsInv
<1>10. CASE EndRead
  BY <1>10, QuietKeepsInv
     DEF EndRead, NextPart, CInv, TypeOK, TcpStates, HttpStates, OutputAnnounced, tcpVars, httpVars
<1>11. CASE WriteDeleted
  BY <1>11, QuietKeepsInv
     DEF WriteDeleted, CInv, TypeOK, TcpStates, HttpStates, OutputAnnounced, tcpVars, httpVars, handler
<1>12. CASE WriteSomeOf
  <2>1. TypeOK'
    BY <1>12 DEF WriteSomeOf, CInv, TypeOK, TcpStates, HttpStates, httpVars
  <2>2. OutputAnnounced'
    <3>1. output' \subseteq output /\ (output # {} => output' # {})
      <4>1. CASE output = {}
        BY <1>12, <4>1 DEF WriteSomeOf
      <4>2. CASE output # {}
        <5>1. output' \in SUBSET output /\ output' # {}
          BY <1>12, <4>2 DEF WriteSomeOf
        <5> QED
          BY <5>1
      <4> QED
        BY <4>1, <4>2
    <3> QED
      BY <1>12, <3>1 DEF WriteSomeOf, CInv, OutputAnnounced
  <2> QED
    BY <1>12, <2>1, <2>2, QuietKeepsInv DEF WriteSomeOf, httpVars
<1>13. CASE WriteAll
  <2>1. CASE tcp = "FLUSHING" /\ Fail
    <3>1. held' \in [Threads -> Events] /\ pc' = "idle" /\ outNext' \in BOOLEAN
      BY <1>13 DEF WriteAll, CInv, TypeOK, TcpStates, HttpStates
    <3> QED
      BY <2>1, <3>1, FailKeepsInv
  <2>2. CASE tcp = "FLUSHING" /\ CloseNow /\ output' = {} /\ UNCHANGED fault
    BY <1>13, <2>2, CloseNowKeepsInv DEF WriteAll, CInv, TypeOK, TcpStates, HttpStates
  <2>3. CASE tcp # "FLUSHING"
    <3>1. /\ output' = {}
          /\ taskset' = taskset \ {"OUT"}
          /\ pc' = "idle"
          /\ UNCHANGED <<tcp, httpVars, exists, fault, held, outNext>>
      BY <1>13, <2>3 DEF WriteAll
    <3>2. TypeOK' /\ OutputAnnounced'
      BY <2>3, <3>1 DEF CInv, TypeOK, TcpStates, HttpStates, OutputAnnounced, httpVars, Events
    <3> QED
      BY <3>1, <3>2, QuietKeepsInv DEF httpVars
  <2> QED
    BY <1>13, <2>1, <2>2, <2>3 DEF WriteAll
<1>14. CASE WriteError
  BY <1>14, FailKeepsInv, CloseNowKeepsInv DEF WriteError, CInv, TypeOK, TcpStates, HttpStates
<1>15. ASSUME NEW s \in Ids, Push(s) PROVE CInv'
  <2>1. CASE tcp # "CONNECTED"
    BY <1>15, <2>1, AbortKeepsInv DEF Push, SendData
  <2>2. CASE tcp = "CONNECTED"
    BY <1>15, <2>2, QuietKeepsInv
       DEF Push, SendData, WriteSome, CInv, TypeOK, TcpStates, HttpStates, OutputAnnounced, httpVars, handler, Events
  <2> QED
    BY <2>1, <2>2
<1> QED
  BY <1>1, <1>2, <1>3, <1>5, <1>6, <1>7, <1>8, <1>9, <1>10, <1>11, <1>12, <1>13,
     <1>14, <1>15 DEF Next, Handle, Write

LEMMA CInvAlways == Spec => []CInv
  BY InitInv, NextKeepsInv, PTL DEF Spec

(* The variables of a connection have their types (Http2Conn.hpp,          *)
(* TcpConn.hpp).                                                           *)
THEOREM ConnectionTypeOK == Spec => []TypeOK
  BY CInvAlways, PTL DEF CInv

(* Whatever waits in the output is watched for, so a connection that is    *)
(* flushed has an event to come (TcpConn.cpp:127-139, :165-185).           *)
THEOREM OutputIsAnnounced == Spec => []OutputAnnounced
  BY CInvAlways, PTL DEF CInv

(* No stream that is served is in a state in which sendData refuses data   *)
(* (Http2Conn.cpp:113-119).                                                *)
THEOREM ServedIsWritable == Spec => []ServedWritable
  BY CInvAlways, PTL DEF CInv

-----------------------------------------------------------------------------
(***************************************************************************)
(* Connection implements Session.                                          *)
(***************************************************************************)
AbstractStep == [Abstract!Next]_(Abstract!vars)

(* What a step that changes neither the socket's state nor whose it is     *)
(* does to the phase.                                                      *)
LEMMA SamePhase ==
    ASSUME UNCHANGED <<tcp, exists>>
    PROVE  absPhase' = absPhase
  BY DEF absPhase

LEMMA Stutters ==
    ASSUME UNCHANGED <<tcp, exists, dlgt>>
    PROVE  AbstractStep
<1>1. absLive' = absLive
  BY DEF absLive
<1> QED
  BY <1>1, SamePhase DEF AbstractStep, Abstract!vars

(* A step that gives one stream a delegate, or takes it away.              *)
LEMMA OneStreamRefines ==
    ASSUME CInv, NEW s \in Ids, NEW d, dlgt' = [dlgt EXCEPT ![s] = d],
           UNCHANGED <<tcp, exists>>,
           d = "service" => tcp = "CONNECTED"
    PROVE  AbstractStep
<1>1. absLive' = IF d = "service" THEN absLive \cup {s} ELSE absLive \ {s}
  BY DEF CInv, TypeOK, TcpStates, HttpStates, absLive
<1>2. tcp = "CONNECTED" => absPhase = "open"
  BY DEF CInv, OwnedWhileOpen, absPhase
<1>3. Abstract!Begin(s) \/ Abstract!End(s)
  BY <1>1, <1>2, SamePhase DEF Abstract!Begin, Abstract!End
<1> QED
  BY <1>3 DEF AbstractStep, Abstract!Next

(* A connection that closes: all services end.                             *)
LEMMA CloseRefines ==
    ASSUME CInv, exists, dlgt' = Ended,
           \/ ~exists'
           \/ tcp = "CONNECTED" /\ tcp' = "FLUSHING" /\ exists'
    PROVE  AbstractStep
<1>1. absLive' = {}
  BY EndedServesNothing DEF CInv, absLive
<1>2. CASE tcp = "FLUSHING"
  <2>1. absLive = {} /\ absPhase = "closing" /\ absPhase' = "gone"
    BY <1>2 DEF CInv, ServedWhileConnected, absLive, absPhase
  <2> QED
    BY <1>1, <2>1 DEF AbstractStep, Abstract!Next, Abstract!Flushed
<1>3. CASE tcp = "CONNECTED"
  <2>1. absPhase = "open" /\ absPhase' \in {"closing", "gone"}
    BY <1>3 DEF absPhase
  <2> QED
    BY <1>1, <2>1 DEF AbstractStep, Abstract!Next, Abstract!Close
<1> QED
  BY <1>2, <1>3 DEF CInv, TypeOK, TcpStates, HttpStates, OwnedWhileOpen

LEMMA AbortRefines == Abort => AbstractStep
  BY Stutters DEF Abort, tcpVars, httpVars

LEMMA CloseNowRefines == CInv /\ exists /\ CloseNow => AbstractStep
  BY CloseRefines DEF CloseNow, Gone

LEMMA FailRefines == CInv /\ exists /\ Fail => AbstractStep
  BY CloseRefines DEF Fail, Gone

LEMMA HandleErrorRefines ==
    ASSUME CInv, NEW st, HandleError(st)
    PROVE  AbstractStep
<1>1. CASE tcp # "CONNECTED"
  BY <1>1, AbortRefines DEF HandleError
<1>2. CASE tcp = "CONNECTED"
  BY <1>2, FailedIsEnded, CloseRefines DEF HandleError, CloseSoon, Gone, CInv, OwnedWhileOpen
<1> QED
  BY <1>1, <1>2

LEMMA HeaderBlockRefines ==
    ASSUME CInv, NEW st, NEW s \in Ids, NEW h \in HeaderFields,
           st[s] = stream[s] \/ st[s] = "IDLE",
           HeaderBlock(st, s, h)
    PROVE  AbstractStep
<1> DEFINE isNew == h.complete /\ dlgt[s] = "none"
           owner == IF isNew THEN h.path ELSE OnTrailer(dlgt[s])
           newDlgt == IF h.end THEN OnClosed(owner) ELSE owner
<1>1. CASE \/ http # "CONNECTED"
           \/ st[s] \notin {"IDLE", "OPEN", "HALF_CLOSED_LOCAL"}
           \/ h.complete /\ ~h.valid
  BY <1>1, HandleErrorRefines DEF HeaderBlock
<1>2. CASE /\ http = "CONNECTED"
           /\ st[s] \in {"IDLE", "OPEN", "HALF_CLOSED_LOCAL"}
           /\ ~(h.complete /\ ~h.valid)
  <2>1. CASE isNew /\ tcp # "CONNECTED"
    BY <1>2, <2>1, AbortRefines, NewMaySend DEF HeaderBlock
  <2>2. CASE ~(isNew /\ tcp # "CONNECTED")
    <3>1. /\ dlgt' = [dlgt EXCEPT ![s] = newDlgt]
          /\ UNCHANGED <<tcp, exists>>
      BY <1>2, <2>2, NewMaySend DEF HeaderBlock
    <3>2. newDlgt = "service" => tcp = "CONNECTED"
      BY <2>2 DEF CInv, ServedWhileConnected, OnClosed, RemoveService, OnTrailer
    <3> HIDE DEF newDlgt
    <3> QED
      BY <3>1, <3>2, OneStreamRefines
  <2> QED
    BY <2>1, <2>2
<1> QED
  BY <1>1, <1>2

LEMMA GoAwayRefines == CInv /\ GoAway => AbstractStep
<1> SUFFICES ASSUME CInv, GoAway PROVE AbstractStep
  OBVIOUS
<1>1. CASE http # "CLOSED" /\ tcp # "CONNECTED"
  BY <1>1, AbortRefines DEF GoAway, HandleClose
<1>2. CASE http # "CLOSED" /\ tcp = "CONNECTED"
  BY <1>2, CloseRefines DEF GoAway, HandleClose, CloseSoon, Gone, CInv, OwnedWhileOpen
<1>3. CASE http = "CLOSED"
  <2>1. dlgt' = Ended /\ UNCHANGED <<tcp, exists>>
    BY <1>3 DEF GoAway, HandleClose, tcpVars
  <2>2. absLive = {} /\ absLive' = {}
    BY <1>3, <2>1, EndedServesNothing
       DEF CInv, ClosedNotConnected, ServedWhileConnected, absLive
  <2> QED
    BY <2>1, <2>2, SamePhase DEF AbstractStep, Abstract!vars
<1> QED
  BY <1>1, <1>2, <1>3

LEMMA FrameRefines == CInv /\ Frame => AbstractStep
<1> SUFFICES ASSUME CInv, Frame PROVE AbstractStep
  OBVIOUS
<1>0. CASE Priority \/ WindowUpdate
  BY <1>0, Stutters DEF Priority, WindowUpdate, vars, tcpVars, httpVars
<1>1. CASE Invalid
  BY <1>1, HandleErrorRefines DEF Invalid
<1>push. ASSUME NEW s \in Ids, PushPromise(s) PROVE AbstractStep
  BY <1>push, HandleErrorRefines DEF PushPromise
<1>2. CASE SettingsAck
  BY <1>2, Stutters DEF SettingsAck, tcpVars
<1>3. CASE Answered
  BY <1>3, Stutters, AbortRefines DEF Answered, httpVars
<1>4. CASE GoAway
  BY <1>4, GoAwayRefines
<1>5. ASSUME NEW s \in Ids, RstStream(s) PROVE AbstractStep
  <2>1. OnClosed(dlgt[s]) # "service"
    BY DEF OnClosed, RemoveService
  <2> QED
    BY <1>5, <2>1, HandleErrorRefines, OneStreamRefines DEF RstStream, tcpVars
<1>6. ASSUME NEW s \in Ids, NEW end \in BOOLEAN, Data(s, end) PROVE AbstractStep
  <2>1. OnClosed(dlgt[s]) # "service"
    BY DEF OnClosed, RemoveService
  <2> QED
    BY <1>6, <2>1, HandleErrorRefines, OneStreamRefines, Stutters DEF Data
<1>7. ASSUME NEW s \in Ids, NEW h \in HeaderFields,
             Headers(s, h) \/ Continuation(s, h)
      PROVE  AbstractStep
  <2> DEFINE st == WithStream(s)
  <2>2. stream \in [Ids -> StreamStates \cup {"none"}]
    BY DEF CInv, TypeOK
  <2>3. st[s] = stream[s] \/ st[s] = "IDLE"
    BY <2>2 DEF WithStream, NewStream
  <2>4. CASE Headers(s, h)
    BY <2>3, <2>4, HeaderBlockRefines DEF Headers
  <2>5. CASE Continuation(s, h)
    BY <2>5, HeaderBlockRefines, HandleErrorRefines DEF Continuation
  <2> QED
    BY <1>7, <2>4, <2>5
<1> QED
  BY <1>0, <1>1, <1>push, <1>2, <1>3, <1>4, <1>5, <1>6, <1>7 DEF Frame

LEMMA StepRefines == CInv /\ [Next]_vars => AbstractStep
<1> SUFFICES ASSUME CInv, [Next]_vars PROVE AbstractStep
  OBVIOUS
<1>1. CASE UNCHANGED vars
  BY <1>1, Stutters DEF vars, tcpVars, httpVars
<1>2. ASSUME NEW t \in Threads, Report(t) PROVE AbstractStep
  BY <1>2, Stutters DEF Report, tcpVars, httpVars
<1>3. ASSUME NEW t \in Threads, Handle(t) PROVE AbstractStep
  <2>1. CASE Drop(t) \/ StartRead(t) \/ StartWrite(t)
    BY <2>1, Stutters DEF Drop, StartRead, StartWrite, tcpVars, httpVars
  <2>2. CASE PeerClosed(t)
    BY <2>2, CloseNowRefines DEF PeerClosed, Take
  <2>3. CASE ReadError(t)
    BY <2>3, FailRefines DEF ReadError, Take
  <2>4. CASE ReadWhileFlushing(t)
    BY <2>4, AbortRefines DEF ReadWhileFlushing
  <2> QED
    BY <1>3, <2>1, <2>2, <2>3, <2>4 DEF Handle
<1>4. CASE Frame
  BY <1>4, FrameRefines
<1>5. CASE EndRead \/ WriteDeleted \/ WriteSomeOf
  BY <1>5, Stutters DEF EndRead, WriteDeleted, WriteSomeOf, tcpVars, httpVars
<1>6. CASE WriteAll
  BY <1>6, CloseNowRefines, FailRefines, Stutters DEF WriteAll, httpVars
<1>7. CASE WriteError
  BY <1>7, CloseNowRefines, FailRefines DEF WriteError
<1>8. ASSUME NEW s \in Ids, Push(s) PROVE AbstractStep
  BY <1>8, Stutters, AbortRefines DEF Push, SendData, httpVars
<1> QED
  BY <1>1, <1>2, <1>3, <1>4, <1>5, <1>6, <1>7, <1>8 DEF Next, Write

(* Every service ends with the step in which its connection starts to      *)
(* close, for whatever reason, and none begins later.                      *)
THEOREM ConnectionImplementsSession == Spec => ImplementsSession
<1>1. Init => Abstract!Init
  BY DEF Init, absPhase, absLive, Abstract!Init
<1>2. CInv /\ [Next]_vars => [Abstract!Next]_(Abstract!vars)
  BY StepRefines DEF AbstractStep
<1> QED
  BY <1>1, <1>2, CInvAlways, PTL DEF Spec, ImplementsSession, Abstract!Spec
=============================================================================
