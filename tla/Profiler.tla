-------------------------------- MODULE Profiler --------------------------------
(***************************************************************************)
(* The threads of the Tracy client that is built into the program: the     *)
(* program's own thread, which emits events and, in the destructor, ends   *)
(* the others; the Worker, which serves one connection; and the            *)
(* SymbolWorker, which answers the slow queries (TracyProfiler.cpp, built  *)
(* with TRACY_ENABLE and without TRACY_ON_DEMAND).  The server at the      *)
(* other end is external.                                                  *)
(*                                                                         *)
(* A step is what one thread does between two looks at what the others     *)
(* share; stores become visible in the order in which they are made.       *)
(***************************************************************************)
EXTENDS Integers, SequencesExt

CONSTANTS
  Events,     \* how many events the program emits at most
  Visits,     \* how many times a server connects at most
  Slow,       \* queries that SymbolWorker answers
  Fast,       \* queries that Worker answers itself
  Questions,  \* bound: how many queries the server asks
  Earlier,    \* bound: pairs of queries of which it asks the first one first
  Capacity,   \* of the symbol queue
  Credit,     \* how many of its queries a server leaves unanswered
  FrameItems  \* how many items a frame of the protocol holds

(* A server that leaves more queries open than the symbol queue holds can  *)
(* stop Worker for ever once SymbolWorker is gone.                         *)
ASSUME ProfilerAssumption ==
  /\ {Events, Visits, Questions, Credit} \subseteq Nat
  /\ {Capacity, FrameItems} \subseteq Nat \ {0}
  /\ Credit <= Capacity
  /\ Slow \cap Fast = {}
  /\ (Slow \union Fast) \cap {"Terminate", "Disconnect"} = {}

VARIABLES
  app,            \* the program's thread: "running", then in the destructor
  shutdown,       \* m_shutdown
  noExit,         \* m_noExit: the environment has TRACY_NO_EXIT=1
  emitted,        \* how many events it emitted in each queue
  symbolWorker,   \* where SymbolWorker is
  shouldExit,     \* its local variable
  symbolQueue,    \* m_symbolQueue
  lfq,            \* the lock-free queue of each producing thread
  serialQueue,    \* m_serialQueue
  serialDequeue,  \* m_serialDequeue
  worker,         \* where Worker is
  loop,           \* and in which of its loops
  disconnecting,  \* whether it is in HandleDisconnect
  status,         \* what Dequeue and DequeueSerial returned
  buffer,         \* the frame that is being filled
  sock,           \* m_sock: "null", "live" or "freed"
  peer,           \* the server at the other end
  visits,
  inbox,          \* what it sent
  received,       \* what it received
  asked, finished

programVars == <<app, shutdown, noExit, emitted>>
symbolVars == <<symbolWorker, shouldExit>>
serialVars == <<serialQueue, serialDequeue>>
queues == <<symbolQueue, lfq, serialVars>>
control == <<worker, loop, disconnecting, status>>
wire == <<buffer, received>>
server == <<visits, asked, finished>>
connection == <<sock, peer, inbox>>
vars == <<programVars, symbolVars, queues, control, wire, connection, server>>

Queries == Slow \union Fast
Sources == {"app", "serial"}
Producers == {"app", "symbol", "worker"}

Event(source, n) == <<source, n>>
Answer(query) == <<"answer", query>>
Terminate == <<"Terminate">>

Items == {Event(s, n) : s \in Sources, n \in 1..Events} \union {Answer(q) : q \in Queries}

Init ==
  /\ app = "running" /\ shutdown = FALSE /\ emitted = [s \in Sources |-> 0]
  /\ noExit \in BOOLEAN
  /\ symbolWorker = "test" /\ shouldExit = FALSE /\ symbolQueue = <<>>
  /\ lfq = [p \in Producers |-> <<>>] /\ serialQueue = <<>> /\ serialDequeue = <<>>
  /\ worker \in {"accept", "deaf"}   \* whether a port could be opened
  /\ loop = "comm" /\ disconnecting = FALSE /\ status = "empty"
  /\ buffer = <<>> /\ sock = "null" /\ peer = "away" /\ visits = 0
  /\ inbox = <<>> /\ received = <<>> /\ asked = {} /\ finished = FALSE

Disconnected == "Disconnect" \in asked

-------------------------------------------------------------------------------
(* The program's thread. *)
Emit(source) ==
  /\ app = "running" /\ emitted["app"] + emitted["serial"] < Events
  /\ emitted' = [emitted EXCEPT ![source] = @ + 1]
  /\ LET event == Event(source, emitted[source] + 1)
     IN IF source = "serial"
        THEN serialQueue' = Append(serialQueue, event) /\ UNCHANGED lfq
        ELSE lfq' = [lfq EXCEPT ![source] = Append(@, event)] /\ UNCHANGED serialQueue
  /\ UNCHANGED <<app, shutdown, noExit, symbolVars, symbolQueue, serialDequeue, control, wire,
                 connection, server>>

(* ~Profiler asks the threads to end and joins them, first SymbolWorker. *)
BeginShutdown ==
  /\ app = "running"
  /\ app' = "joining symbols" /\ shutdown' = TRUE
  /\ UNCHANGED <<noExit, emitted, symbolVars, queues, control, wire, connection, server>>

JoinSymbolWorker ==
  /\ app = "joining symbols" /\ symbolWorker = "gone"
  /\ app' = "joining worker"
  /\ UNCHANGED <<shutdown, noExit, emitted, symbolVars, queues, control, wire, connection,
                 server>>

JoinWorker ==
  /\ app = "joining worker" /\ worker = "returned"
  /\ app' = "done"
  /\ sock' = IF sock = "null" THEN "null" ELSE "freed"
  /\ peer' = IF sock = "live" THEN "away" ELSE peer
  /\ UNCHANGED <<shutdown, noExit, emitted, symbolVars, queues, control, wire, inbox, server>>

-------------------------------------------------------------------------------
(* SymbolWorker. *)
SymbolTest ==
  /\ symbolWorker = "test"
  /\ shouldExit' = shutdown
  /\ symbolWorker' = "front"
  /\ UNCHANGED <<programVars, queues, control, wire, connection, server>>

SymbolFront ==
  /\ symbolWorker = "front"
  /\ IF symbolQueue = <<>>
     THEN symbolWorker' = (IF shouldExit THEN "gone" ELSE "test") /\ UNCHANGED lfq
     ELSE /\ symbolWorker' = "pop"
          /\ lfq' = [lfq EXCEPT !["symbol"] = Append(@, Answer(Head(symbolQueue)))]
  /\ UNCHANGED <<programVars, shouldExit, symbolQueue, serialVars, control, wire, connection,
                 server>>

(* Fault, for the mutation runs: it ends without popping what it answered. *)
FaultGoesBeforePop ==
  /\ symbolWorker = "pop"
  /\ symbolWorker' = IF shutdown THEN "gone" ELSE "test"
  /\ symbolQueue' = IF shutdown THEN symbolQueue ELSE Tail(symbolQueue)
  /\ UNCHANGED <<programVars, shouldExit, lfq, serialVars, control, wire, connection, server>>

SymbolPop ==
  /\ symbolWorker = "pop"
  /\ symbolWorker' = "test"
  /\ symbolQueue' = Tail(symbolQueue)
  /\ UNCHANGED <<programVars, shouldExit, lfq, serialVars, control, wire, connection, server>>

-------------------------------------------------------------------------------
(* Worker: what its steps share. *)
ClearQueues ==
  /\ lfq' = [p \in Producers |-> <<>>]
  /\ serialQueue' = <<>> /\ serialDequeue' = <<>>

(* What Send may return: a send to a server that is gone may fail. *)
Sends == IF peer = "open" THEN {TRUE} ELSE BOOLEAN

Deliver(items) == received' = IF peer = "open" THEN received \o items ELSE received

(* AppendData: a frame that is full is sent first. *)
AppendData(frame, item, sends) ==
  IF Len(frame.buffer) < FrameItems
  THEN [frame EXCEPT !.buffer = Append(@, item)]
  ELSE [buffer |-> <<item>>, out |-> frame.out \o frame.buffer, lost |-> ~sends]

(* ... for one item after the other, until the connection is lost. *)
AppendAll(items, sends) ==
  LET frames[i \in 0..Len(items)] ==
        CASE i = 0                      -> [buffer |-> buffer, out |-> <<>>, lost |-> FALSE]
          [] i > 0 /\ frames[i - 1].lost -> frames[i - 1]
          [] OTHER                      -> AppendData(frames[i - 1], items[i], sends)
  IN frames[Len(items)]

(* CommitData *)
CommitData ==
  /\ Deliver(buffer)
  /\ buffer' = <<>>

CloseSocket ==
  /\ peer' = "away"
  /\ inbox' = <<>>

Return == worker' = "returned" /\ UNCHANGED <<loop, disconnecting, status>>

Goto(place) == worker' = place /\ UNCHANGED <<loop, disconnecting, status>>

-------------------------------------------------------------------------------
(* Worker without a connection. *)

(* No port could be opened. *)
Deaf ==
  /\ worker = "deaf"
  /\ IF shutdown THEN Return /\ UNCHANGED queues
     ELSE UNCHANGED control /\ ClearQueues /\ UNCHANGED symbolQueue
  /\ UNCHANGED <<programVars, symbolVars, wire, connection, server>>

AcceptTest ==
  /\ worker = "accept"
  /\ IF shutdown /\ ~noExit THEN Return ELSE Goto("accepting")
  /\ UNCHANGED <<programVars, symbolVars, queues, wire, connection, server>>

Accept ==
  /\ worker = "accepting"
  /\ IF peer = "away" THEN sock' = "null" /\ Goto("accept")
     ELSE sock' = "live" /\ Goto("handshake")
  /\ UNCHANGED <<programVars, symbolVars, queues, wire, peer, inbox, server>>

Handshake ==
  /\ worker = "handshake"
  /\ IF peer = "good"
     THEN peer' = "open" /\ Goto("dequeue") /\ UNCHANGED <<sock, inbox>>
     ELSE CloseSocket /\ sock' = "null" /\ Goto("accept")
  /\ UNCHANGED <<programVars, symbolVars, queues, wire, server>>

(* After its one connection the client turns servers away. *)

(* Fault: the loop is left the way the one above is. *)
FaultBreaks ==
  /\ worker = "reject"
  /\ IF shutdown THEN Goto("waiting") /\ UNCHANGED queues
     ELSE Goto("rejecting") /\ ClearQueues /\ UNCHANGED symbolQueue
  /\ UNCHANGED <<programVars, symbolVars, wire, connection, server>>

RejectTest ==
  /\ worker = "reject"
  /\ IF shutdown THEN Return /\ UNCHANGED queues
     ELSE Goto("rejecting") /\ ClearQueues /\ UNCHANGED symbolQueue
  /\ UNCHANGED <<programVars, symbolVars, wire, connection, server>>

RejectAccept ==
  /\ worker = "rejecting"
  /\ IF peer = "away" THEN sock' = "null" /\ Goto("reject")
     ELSE sock' = "live" /\ Goto("turning away")
  /\ UNCHANGED <<programVars, symbolVars, queues, wire, peer, inbox, server>>

(* m_sock is left as it is when the handshake was answered. *)
TurnAway ==
  /\ worker = "turning away"
  /\ sock' = IF peer = "bad" THEN "null" ELSE "freed"
  /\ CloseSocket
  /\ Goto("reject")
  /\ UNCHANGED <<programVars, symbolVars, queues, wire, server>>

-------------------------------------------------------------------------------
(* Worker in a connection: Dequeue, DequeueSerial, what it makes of their  *)
(* results, the server's queries, and, once SymbolWorker is gone, the      *)
(* symbol queue.                                                           *)
Dequeue ==
  /\ worker = "dequeue"
  /\ worker' = "serial"
  /\ IF \A p \in Producers : lfq[p] = <<>>
     THEN status' = "empty" /\ UNCHANGED <<lfq, wire>>
     ELSE \E p \in Producers, sends \in Sends :
            LET frame == AppendAll(lfq[p], sends) IN
            /\ lfq[p] # <<>>
            /\ lfq' = [lfq EXCEPT ![p] = <<>>]
            /\ buffer' = frame.buffer
            /\ Deliver(frame.out)
            /\ status' = IF frame.lost THEN "lost" ELSE "data"
  /\ UNCHANGED <<programVars, symbolVars, symbolQueue, serialVars, loop, disconnecting,
                 connection, server>>

(* The queues are swapped; what is in the one behind is sent, and cleared  *)
(* unless the connection was lost.                                         *)
DequeueSerial ==
  /\ worker = "serial"
  /\ worker' = "settle"
  /\ \E sends \in Sends :
       LET full == IF serialQueue # <<>> THEN serialQueue ELSE serialDequeue
           frame == AppendAll(full, sends)
       IN /\ buffer' = frame.buffer
          /\ Deliver(frame.out)
          /\ serialQueue' = IF serialQueue # <<>> THEN serialDequeue ELSE serialQueue
          /\ serialDequeue' = IF frame.lost THEN full ELSE <<>>
          /\ status' = CASE frame.lost -> "lost"
                         [] ~frame.lost /\ full # <<>> /\ status = "empty" -> "data"
                         [] OTHER -> status
  /\ UNCHANGED <<programVars, symbolVars, symbolQueue, lfq, loop, disconnecting, connection,
                 server>>

(* The main loop.  Every so many idle rounds a KeepAlive is sent as well,  *)
(* which is how a server that is gone may be noticed.                      *)
SettleMain ==
  /\ worker = "settle" /\ loop = "comm" /\ ~disconnecting
  /\ IF status = "lost" \/ (status = "empty" /\ shutdown)
     THEN Goto("left") /\ UNCHANGED wire
     ELSE IF status = "empty"
     THEN \E sends \in Sends : CommitData /\ Goto(IF sends THEN "query" ELSE "left")
     ELSE Goto("query") /\ UNCHANGED wire
  /\ UNCHANGED <<programVars, symbolVars, queues, connection, server>>

LeaveMain ==
  /\ worker = "left"
  /\ worker' = IF shutdown THEN "waiting" ELSE "reject"
  /\ disconnecting' = FALSE
  /\ IF shutdown THEN UNCHANGED connection ELSE CloseSocket /\ sock' = "null"
  /\ UNCHANGED <<programVars, symbolVars, queues, loop, status, wire, server>>

(* Fault: the symbol thread is not waited for. *)
FaultNoWait ==
  /\ worker = "waiting"
  /\ worker' = "dequeue" /\ loop' = "drain"
  /\ UNCHANGED <<programVars, symbolVars, queues, disconnecting, status, wire, connection,
                 server>>

WaitForSymbolWorker ==
  /\ worker = "waiting" /\ symbolWorker = "gone"
  /\ worker' = "dequeue" /\ loop' = "drain"
  /\ UNCHANGED <<programVars, symbolVars, queues, disconnecting, status, wire, connection,
                 server>>

(* Fault: the last frame is not sent. *)
FaultNoLastCommit ==
  /\ worker = "settle" /\ loop = "drain" /\ ~disconnecting
  /\ Goto(CASE status = "lost" -> "returned" [] status = "empty" -> "terminate"
            [] OTHER -> "query")
  /\ UNCHANGED <<programVars, symbolVars, queues, wire, connection, server>>

(* What remains in the queues is sent, then Terminate. *)
SettleDrain ==
  /\ worker = "settle" /\ loop = "drain" /\ ~disconnecting
  /\ CASE status = "lost" -> Return /\ UNCHANGED wire
       [] status = "empty" -> CommitData /\ Goto("terminate")
       [] OTHER -> Goto("query") /\ UNCHANGED wire
  /\ UNCHANGED <<programVars, symbolVars, queues, connection, server>>

SendTerminate ==
  /\ worker = "terminate"
  /\ Deliver(<<Terminate>>)
  /\ loop' = "final"
  /\ \E sends \in Sends : worker' = IF sends THEN "query" ELSE "returned"
  /\ UNCHANGED <<programVars, symbolVars, queues, disconnecting, status, buffer, connection,
                 server>>

(* The server may ask on until it ends the connection. *)
SettleFinal ==
  /\ worker = "settle" /\ loop = "final" /\ ~disconnecting
  /\ IF status = "lost" THEN Return /\ UNCHANGED wire
     ELSE \E sends \in (IF buffer = <<>> THEN {TRUE} ELSE Sends) :
            CommitData /\ Goto(IF sends THEN "query" ELSE "returned")
  /\ UNCHANGED <<programVars, symbolVars, queues, connection, server>>

-------------------------------------------------------------------------------
(* HandleServerQuery, and HandleDisconnect, which it calls.  When it       *)
(* returns false the loop that called it ends.                             *)
Refused == IF loop = "comm" THEN "left" ELSE "returned"

NoQuery ==
  /\ worker = "query" /\ inbox = <<>> /\ peer = "open"
  /\ Goto(CASE disconnecting -> "settle"
            [] ~disconnecting /\ loop = "comm" -> "dequeue"
            [] OTHER -> "symbols")
  /\ UNCHANGED <<programVars, symbolVars, queues, wire, connection, server>>

(* The server is gone, perhaps before all it sent was read. *)
ReadFails ==
  /\ worker = "query" /\ peer = "closed"
  /\ Goto(Refused)
  /\ UNCHANGED <<programVars, symbolVars, queues, wire, connection, server>>

Reads(message) ==
  /\ worker = "query" /\ inbox # <<>> /\ Head(inbox) = message
  /\ inbox' = Tail(inbox)
  /\ UNCHANGED <<programVars, symbolVars, lfq, serialVars, sock, peer, server>>

(* Whether the answer could be sent is not looked at. *)
FastQuery(query) ==
  /\ Reads(query)
  /\ LET frame == AppendAll(<<Answer(query)>>, TRUE)
     IN buffer' = frame.buffer /\ Deliver(frame.out)
  /\ UNCHANGED <<control, symbolQueue>>

(* emplace waits while the queue is full. *)
SlowQuery(query) ==
  /\ Reads(query)
  /\ Len(symbolQueue) < Capacity
  /\ symbolQueue' = Append(symbolQueue, query)
  /\ UNCHANGED <<control, wire>>

TerminateQuery ==
  /\ Reads("Terminate")
  /\ Goto(Refused)
  /\ UNCHANGED <<symbolQueue, wire>>

(* HandleDisconnect sends Terminate past the frame that is being filled. *)
DisconnectQuery ==
  /\ Reads("Disconnect")
  /\ Deliver(<<Terminate>>)
  /\ \E sends \in Sends : worker' = IF sends THEN "clear" ELSE Refused
  /\ disconnecting' = TRUE
  /\ UNCHANGED <<loop, status, symbolQueue, buffer>>

Discard ==
  /\ worker = "clear"
  /\ ClearQueues
  /\ Goto("query")
  /\ UNCHANGED <<programVars, symbolVars, symbolQueue, wire, connection, server>>

SettleDisconnect ==
  /\ worker = "settle" /\ disconnecting
  /\ \E sends \in (IF buffer = <<>> THEN {TRUE} ELSE Sends) :
       CommitData /\ Goto(IF sends THEN "clear" ELSE Refused)
  /\ UNCHANGED <<programVars, symbolVars, queues, connection, server>>

-------------------------------------------------------------------------------
(* Worker in the place of SymbolWorker. *)

(* Fault: what is left in the symbol queue is not looked at. *)
FaultSkipsSymbols ==
  /\ worker = "symbols"
  /\ Goto("dequeue")
  /\ UNCHANGED <<programVars, symbolVars, queues, wire, connection, server>>

WorkerFront ==
  /\ worker = "symbols"
  /\ IF symbolQueue = <<>>
     THEN Goto("dequeue") /\ UNCHANGED lfq
     ELSE /\ Goto("pop")
          /\ lfq' = [lfq EXCEPT !["worker"] = Append(@, Answer(Head(symbolQueue)))]
  /\ UNCHANGED <<programVars, symbolVars, symbolQueue, serialVars, wire, connection, server>>

WorkerPop ==
  /\ worker = "pop"
  /\ symbolQueue' = Tail(symbolQueue)
  /\ Goto("symbols")
  /\ UNCHANGED <<programVars, symbolVars, lfq, serialVars, wire, connection, server>>

-------------------------------------------------------------------------------
(* The server (external).  It is "good", of an "old" protocol, or "bad"    *)
(* when it connects; a good one asks, goes away at any time, asks the      *)
(* client to disconnect, and ends the connection after Terminate when      *)
(* nothing it asked is open.                                               *)
Connect ==
  /\ peer = "away" /\ visits < Visits
  /\ visits' = visits + 1
  /\ peer' \in {"good", "old", "bad"}
  /\ UNCHANGED <<programVars, symbolVars, queues, control, wire, sock, inbox, asked, finished>>

Leave ==
  /\ peer = "open"
  /\ peer' = "closed"
  /\ UNCHANGED <<programVars, symbolVars, queues, control, wire, sock, inbox, server>>

Received(item) == \E i \in 1..Len(received) : received[i] = item

Open == {q \in asked \ {"Disconnect"} : ~Received(Answer(q))}

Ask(query) ==
  /\ peer = "open" /\ ~finished
  /\ query \notin asked /\ Cardinality(asked) < Questions
  /\ \A other \in Queries : <<other, query>> \in Earlier => other \in asked
  /\ query = "Disconnect" \/ Cardinality(Open) < Credit
  /\ asked' = asked \union {query}
  /\ inbox' = Append(inbox, query)
  /\ UNCHANGED <<programVars, symbolVars, queues, control, wire, sock, peer, visits, finished>>

Finish ==
  /\ peer = "open" /\ ~finished
  /\ Received(Terminate)
  /\ Open = {} \/ Disconnected
  /\ finished' = TRUE
  /\ inbox' = Append(inbox, "Terminate")
  /\ UNCHANGED <<programVars, symbolVars, queues, control, wire, sock, peer, visits, asked>>

-------------------------------------------------------------------------------
Program ==
  \/ \E source \in Sources : Emit(source)
  \/ BeginShutdown

Destructor == JoinSymbolWorker \/ JoinWorker

SymbolWorker == SymbolTest \/ SymbolFront \/ SymbolPop

Worker ==
  \/ Deaf \/ AcceptTest \/ Accept \/ Handshake
  \/ RejectTest \/ RejectAccept \/ TurnAway
  \/ Dequeue \/ DequeueSerial
  \/ SettleMain \/ LeaveMain \/ WaitForSymbolWorker
  \/ SettleDrain \/ SendTerminate \/ SettleFinal
  \/ NoQuery \/ ReadFails
  \/ \E query \in Fast : FastQuery(query)
  \/ \E query \in Slow : SlowQuery(query)
  \/ TerminateQuery \/ DisconnectQuery \/ Discard \/ SettleDisconnect
  \/ WorkerFront \/ WorkerPop

Server ==
  \/ Connect \/ Leave \/ Finish
  \/ \E query \in Queries \union {"Disconnect"} : Ask(query)

Next == Program \/ Destructor \/ SymbolWorker \/ Worker \/ Server

Spec == Init /\ [][Next]_vars

(* The threads run, and a server that got Terminate ends the connection    *)
(* when it has its answers, and closes its socket after that.  Nobody has  *)
(* to end the program, and no server has to come or to ask.                *)
Fairness ==
  /\ WF_vars(Destructor) /\ WF_vars(SymbolWorker) /\ WF_vars(Worker)
  /\ WF_vars(Finish) /\ WF_vars(finished /\ Leave)

FairSpec == Spec /\ Fairness

-------------------------------------------------------------------------------
(* Properties. *)

(* front and pop of the symbol queue are called by one thread at a time,   *)
(* as its algorithm demands: Worker takes over only from a SymbolWorker    *)
(* that is gone.                                                           *)
OneSymbolConsumer == worker \in {"symbols", "pop"} => symbolWorker = "gone"

(* Worker never uses m_sock when there is no socket behind it, whichever   *)
(* way its loops are left and however often servers come and go.           *)
SocketInUseIsLive ==
  worker \in {"handshake", "turning away", "dequeue", "serial", "settle", "query", "clear",
              "symbols", "pop", "left", "waiting", "terminate"} => sock = "live"

FromSource(source) == {i \in 1..Len(received) : received[i][1] = source}

(* When a client that ends tells the server that it does, the server has   *)
(* every event the program ever emitted, in the order of its queue, though *)
(* the program's thread only waits and the frame and both queues may have  *)
(* been full when it ended.                                                *)
AllSentBeforeEnd ==
  (loop = "final" /\ peer = "open" /\ ~Disconnected) =>
    \A source \in Sources :
      /\ {received[i][2] : i \in FromSource(source)} = 1..emitted[source]
      /\ \A i, j \in FromSource(source) : i < j => received[i][2] < received[j][2]

(* A server receives no event and no answer twice, though two threads      *)
(* answer from one queue, one after the other, and queues are swapped and  *)
(* left uncleared when a connection is lost.                               *)
ReceivedOnce ==
  \A i, j \in 1..Len(received) :
    (received[i] = received[j] /\ received[i] # Terminate) => i = j

(* With TRACY_NO_EXIT=1, a program asked to end before any server had what *)
(* it sent waits in the accept loop for one that shakes hands.             *)
WaitsForServer == noExit /\ worker \in {"accept", "accepting", "handshake"}

(* The program ends when it is asked to, at whatever point of a connection *)
(* it is, unless it was told to wait for a server and none comes: no wait, *)
(* neither for a full frame or queue, for the server's questions, nor of   *)
(* one thread for another, holds up its exit (the shutdown tests in Worker *)
(* and SymbolWorker).                                                      *)
ExitCompletes == (shutdown /\ ~WaitsForServer) ~> app = "done"
===============================================================================
