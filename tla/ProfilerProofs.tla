----------------------------- MODULE ProfilerProofs -----------------------------
(***************************************************************************)
(* For every number of events, servers and queries and every size of the   *)
(* frames and the symbol queue: the symbol queue has one consumer at a     *)
(* time, Worker uses no socket that is closed, a server receives nothing   *)
(* twice, and it has every event when the client tells it the end.         *)
(***************************************************************************)
EXTENDS Profiler, SequenceTheorems, WellFoundedInduction, TLAPS

-------------------------------------------------------------------------------
(* What flows through the client, by the place it is in: what was sent,    *)
(* with the frame that is being filled, the queues of the threads, and the *)
(* answers to come.                                                        *)

(* A query that is being answered is still in the symbol queue. *)
InPop == symbolWorker = "pop" \/ worker = "pop"
Unanswered == IF InPop THEN Tail(symbolQueue) ELSE symbolQueue

Sent == received \o buffer

Queues == {"app", "serial", "symbol", "worker", "unanswered", "inbox"}
Places == Queues \union {"sent"}

Answers(queries) == [i \in 1..Len(queries) |-> Answer(queries[i])]

Flow ==
  [p \in Places |->
     CASE p = "sent"       -> Sent
       [] p \in Producers  -> lfq[p]
       [] p = "serial"     -> serialQueue
       [] p = "unanswered" -> Answers(Unanswered)
       [] p = "inbox"      -> Answers(inbox)]

Messages == Queries \union {"Disconnect", "Terminate"}
EventsOf(source) == {Event(source, n) : n \in Nat \ {0}}
Things == EventsOf("app") \union EventsOf("serial") \union {Answer(m) : m \in Messages}
            \union {Terminate}

FlowTyped(P) ==
  /\ \A p \in Places : P[p] \in Seq(Things)
  /\ \A s \in Sources : P[s] \in Seq(EventsOf(s))
  /\ \A p \in Queues \ Sources : P[p] \in Seq({Answer(m) : m \in Messages})

(* Nothing but Terminate is there twice. *)
NothingTwice(P) ==
  \A p, q \in Places : \A i \in 1..Len(P[p]), j \in 1..Len(P[q]) :
    P[p][i] = P[q][j] /\ P[p][i] # Terminate => p = q /\ i = j

(* An event comes before another of its source if it is sent before it, or *)
(* stands before it in one place. *)
Precedes(p, i, q, j) == (p = q /\ i < j) \/ (p = "sent" /\ q # "sent")

InOrder(P) ==
  \A p, q \in Places : \A i \in 1..Len(P[p]), j \in 1..Len(P[q]) :
    Precedes(p, i, q, j) /\ P[p][i][1] = P[q][j][1] /\ P[p][i][1] \in Sources =>
      P[p][i][2] < P[q][j][2]

(* Nothing is there but the events emitted and the answers asked for, *)
NothingForeign(P, events, queries) ==
  \A p \in Places : \A i \in 1..Len(P[p]) :
    /\ P[p][i][1] \in Sources => P[p][i][2] <= events[P[p][i][1]]
    /\ P[p][i][1] = "answer" => P[p][i][2] \in queries

FlowSound(P, events, queries) ==
  FlowTyped(P) /\ NothingTwice(P) /\ InOrder(P) /\ NothingForeign(P, events, queries)

(* and no event is missing. *)
NothingLost(P, events) ==
  \A s \in Sources : \A n \in 1..events[s] :
    \E p \in Places : \E i \in 1..Len(P[p]) : P[p][i] = Event(s, n)

Known == asked \union (IF finished THEN {"Terminate"} ELSE {})

Before == {"accept", "accepting", "handshake"}
Live == peer = "open" \/ worker \in Before

FlowInv ==
  Live =>
    /\ FlowSound(Flow, emitted, Known)
    /\ Disconnected \/ NothingLost(Flow, emitted)
    /\ buffer \in Seq(Things) /\ received \in Seq(Things)
    /\ serialDequeue = <<>>

TypeInv ==
  /\ emitted \in [Sources -> Nat] /\ asked \subseteq Queries \union {"Disconnect"}
  /\ symbolQueue \in Seq(Queries) /\ inbox \in Seq(Messages)
  /\ lfq \in [Producers -> Seq(Things)]

(* Where the threads are tells what has happened. *)
PlaceInv ==
  /\ shutdown = (app # "running")
  /\ (worker = "waiting" \/ loop # "comm") => shutdown
  /\ peer = "open" => worker \notin {"deaf", "reject", "rejecting", "turning away"}
  /\ (worker = "clear" \/ disconnecting) => Disconnected
  /\ InPop => symbolQueue # <<>>
  /\ \A i \in 1..Len(inbox) : inbox[i] \in asked \union {"Terminate"}

(* In the last loops the queues are empty once nothing was dequeued, and   *)
(* the server has it all before it is told the end.                        *)
DrainInv ==
  /\ (loop # "comm" /\ worker = "serial" /\ status = "empty") => lfq["app"] = <<>>
  /\ (loop # "comm" /\ worker = "settle" /\ ~disconnecting /\ status = "empty") =>
       lfq["app"] = <<>> /\ (peer = "open" => serialQueue = <<>>)
  /\ worker = "terminate" =>
       buffer = <<>> /\ lfq["app"] = <<>> /\ (peer = "open" => serialQueue = <<>>)
  /\ (loop = "final" /\ peer = "open" /\ ~Disconnected) =>
       \A s \in Sources : \A n \in 1..emitted[s] : Received(Event(s, n))

-------------------------------------------------------------------------------
(* One consumer, and a socket that is there. *)

(* Where Worker is tells in which of its loops it is, and it has left the  *)
(* main loop for good only once SymbolWorker is gone.                      *)
LoopInv ==
  /\ loop \in {"comm", "drain", "final"}
  /\ loop # "comm" => symbolWorker = "gone"
  /\ worker \in {"symbols", "pop"} => loop # "comm"
  /\ worker = "terminate" => loop = "drain"
  /\ worker \in Before => loop = "comm"

LEMMA LoopInit == Init => LoopInv
BY DEF Init, LoopInv

(* A step of Worker's that only moves it keeps the loop. *)
LEMMA LoopStep == LoopInv /\ [Next]_vars => LoopInv'
<1> SUFFICES ASSUME LoopInv, [Next]_vars PROVE LoopInv'
  OBVIOUS
<1> USE DEF LoopInv, Before, control, symbolVars
<1>1. CASE Program \/ Destructor
  BY <1>1 DEF Program, Destructor, Emit, BeginShutdown, JoinSymbolWorker, JoinWorker
<1>2. CASE SymbolWorker
  BY <1>2 DEF SymbolWorker, SymbolTest, SymbolFront, SymbolPop
<1>3. CASE Deaf \/ AcceptTest \/ Accept \/ Handshake \/ RejectTest \/ RejectAccept \/ TurnAway
  BY <1>3 DEF Deaf, AcceptTest, Accept, Handshake, RejectTest, RejectAccept, TurnAway,
              Return, Goto
<1>4. CASE Dequeue \/ DequeueSerial
  BY <1>4 DEF Dequeue, DequeueSerial
<1>5. CASE SettleMain \/ SettleDrain \/ SettleFinal \/ SettleDisconnect
  BY <1>5 DEF SettleMain, SettleDrain, SettleFinal, SettleDisconnect, Refused, Return, Goto
<1>6. CASE LeaveMain \/ WaitForSymbolWorker \/ SendTerminate
  BY <1>6 DEF LeaveMain, WaitForSymbolWorker, SendTerminate
<1>7. CASE NoQuery \/ ReadFails \/ TerminateQuery \/ DisconnectQuery \/ Discard
  BY <1>7 DEF NoQuery, ReadFails, TerminateQuery, DisconnectQuery, Discard, Reads, Refused,
              Goto
<1>8. CASE (\E query \in Fast : FastQuery(query)) \/ (\E query \in Slow : SlowQuery(query))
  BY <1>8 DEF FastQuery, SlowQuery, Reads
<1>9. CASE WorkerFront \/ WorkerPop
  BY <1>9 DEF WorkerFront, WorkerPop, Goto
<1>10. CASE Server
  BY <1>10 DEF Server, Connect, Leave, Finish, Ask
<1>11. CASE UNCHANGED vars
  BY <1>11 DEF vars
<1> QED
  BY <1>1, <1>2, <1>3, <1>4, <1>5, <1>6, <1>7, <1>8, <1>9, <1>10, <1>11 DEF Next, Worker

(* front and pop of the symbol queue are never called by two threads at a  *)
(* time (SymbolWorker, Worker).                                            *)
THEOREM AlwaysOneSymbolConsumer == Spec => []OneSymbolConsumer
<1>1. Spec => []LoopInv
  BY LoopInit, LoopStep, PTL DEF Spec
<1>2. LoopInv => OneSymbolConsumer
  BY DEF LoopInv, OneSymbolConsumer
<1> QED
  BY <1>1, <1>2, PTL

LEMMA SocketStep == SocketInUseIsLive /\ [Next]_vars => SocketInUseIsLive'
<1> SUFFICES ASSUME SocketInUseIsLive, [Next]_vars PROVE SocketInUseIsLive'
  OBVIOUS
<1> USE DEF SocketInUseIsLive, control, connection
<1>1. CASE Program \/ Destructor
  BY <1>1 DEF Program, Destructor, Emit, BeginShutdown, JoinSymbolWorker, JoinWorker
<1>2. CASE SymbolWorker
  BY <1>2 DEF SymbolWorker, SymbolTest, SymbolFront, SymbolPop
<1>3. CASE Deaf \/ AcceptTest \/ Accept \/ Handshake \/ RejectTest \/ RejectAccept \/ TurnAway
  BY <1>3 DEF Deaf, AcceptTest, Accept, Handshake, RejectTest, RejectAccept, TurnAway,
              Return, Goto
<1>4. CASE Dequeue \/ DequeueSerial
  BY <1>4 DEF Dequeue, DequeueSerial
<1>5. CASE SettleMain \/ SettleDrain \/ SettleFinal \/ SettleDisconnect
  BY <1>5 DEF SettleMain, SettleDrain, SettleFinal, SettleDisconnect, Refused, Return, Goto
<1>6. CASE LeaveMain \/ WaitForSymbolWorker \/ SendTerminate
  BY <1>6 DEF LeaveMain, WaitForSymbolWorker, SendTerminate
<1>7. CASE NoQuery \/ ReadFails \/ TerminateQuery \/ DisconnectQuery \/ Discard
  BY <1>7 DEF NoQuery, ReadFails, TerminateQuery, DisconnectQuery, Discard, Reads, Refused,
              Goto
<1>8. CASE (\E query \in Fast : FastQuery(query)) \/ (\E query \in Slow : SlowQuery(query))
  BY <1>8 DEF FastQuery, SlowQuery, Reads
<1>9. CASE WorkerFront \/ WorkerPop
  BY <1>9 DEF WorkerFront, WorkerPop, Goto
<1>10. CASE Server
  BY <1>10 DEF Server, Connect, Leave, Finish, Ask
<1>11. CASE UNCHANGED vars
  BY <1>11 DEF vars
<1> QED
  BY <1>1, <1>2, <1>3, <1>4, <1>5, <1>6, <1>7, <1>8, <1>9, <1>10, <1>11 DEF Next, Worker

(* Whatever order servers come and go in and whenever the program ends,    *)
(* Worker calls into a socket only while there is one (Profiler::Worker).  *)
THEOREM SocketAlwaysLive == Spec => []SocketInUseIsLive
<1>1. Init => SocketInUseIsLive
  BY DEF Init, SocketInUseIsLive
<1> QED
  BY <1>1, SocketStep, PTL DEF Spec

-------------------------------------------------------------------------------
(* Frames: what AppendAll puts into them is what it is given, in order. *)

Frames == [buffer : Seq(Things), out : Seq(Things), lost : {FALSE}]

LEMMA AppendDataSound ==
  ASSUME NEW frame \in Frames, NEW item \in Things
  PROVE  LET next == AppendData(frame, item, TRUE)
         IN  next \in Frames /\ next.out \o next.buffer = Append(frame.out \o frame.buffer, item)
<1> DEFINE next == AppendData(frame, item, TRUE)
<1>1. frame.buffer \in Seq(Things) /\ frame.out \in Seq(Things) /\ frame.lost = FALSE
  BY DEF Frames
<1>2. <<item>> \in Seq(Things)
  OBVIOUS
<1>3. CASE Len(frame.buffer) < FrameItems
  <2>1. next = [frame EXCEPT !.buffer = Append(@, item)]  BY <1>3 DEF AppendData
  <2>2. next.buffer = Append(frame.buffer, item) /\ next.out = frame.out /\ next.lost = FALSE
    BY <1>1, <2>1 DEF Frames
  <2>3. next \in Frames
    <3>1. Append(frame.buffer, item) \in Seq(Things)  BY <1>1
    <3> QED  BY <1>1, <2>1, <3>1 DEF Frames
  <2>4. Append(frame.buffer, item) = frame.buffer \o <<item>>
    BY <1>1, AppendIsConcat
  <2>5. frame.out \o (frame.buffer \o <<item>>) = (frame.out \o frame.buffer) \o <<item>>
    <3> DEFINE o == frame.out  b == frame.buffer  t == <<item>>
    <3>1. o \in Seq(Things) /\ b \in Seq(Things) /\ t \in Seq(Things)
      BY <1>1, <1>2
    <3> HIDE DEF o, b, t
    <3>2. (o \o b) \o t = o \o (b \o t)
      BY <3>1, ConcatAssociative
    <3> QED  BY <3>2 DEF o, b, t
  <2>6. frame.out \o frame.buffer \in Seq(Things)
    BY <1>1, ConcatProperties
  <2>7. Append(frame.out \o frame.buffer, item) = (frame.out \o frame.buffer) \o <<item>>
    BY <2>6, AppendIsConcat
  <2> QED  BY <2>2, <2>3, <2>4, <2>5, <2>7
<1>4. CASE ~(Len(frame.buffer) < FrameItems)
  <2>1. next = [buffer |-> <<item>>, out |-> frame.out \o frame.buffer, lost |-> FALSE]
    BY <1>4 DEF AppendData
  <2>2. frame.out \o frame.buffer \in Seq(Things)
    BY <1>1, ConcatProperties
  <2>3. Append(frame.out \o frame.buffer, item) = (frame.out \o frame.buffer) \o <<item>>
    BY <2>2, AppendIsConcat
  <2> HIDE DEF next
  <2>4. next.out = frame.out \o frame.buffer /\ next.buffer = <<item>>
    BY <2>1
  <2>5. next \in Frames
    BY <1>2, <2>1, <2>2 DEF Frames
  <2> QED  BY <2>3, <2>4, <2>5 DEF next
<1> QED  BY <1>3, <1>4

(* Induction up to n, for a set in place of a predicate. *)
LEMMA UpTo ==
  ASSUME NEW n \in Nat, NEW S, 0 \in S, \A i \in 1..n : i - 1 \in S => i \in S
  PROVE  0..n \subseteq S
<1> SUFFICES ASSUME (0..n) \ S # {} PROVE FALSE
  OBVIOUS
<1> DEFINE T == (0..n) \ S
<1>1. T \subseteq Nat
  OBVIOUS
<1>2. PICK i \in T : \A j \in T : <<j, i>> \notin OpToRel(<, Nat)
  BY <1>1, NatLessThanWellFounded, WFMin
<1>3. \A j \in T : ~(j < i)
  <2> HIDE DEF T
  <2> QED  BY <1>1, <1>2 DEF OpToRel
<1>4. i \in 0..n /\ i \notin S
  OBVIOUS
<1>5. i \in 1..n /\ i - 1 \in 0..n /\ i - 1 < i
  BY <1>4
<1>6. i - 1 \in S
  BY <1>3, <1>5
<1> QED  BY <1>4, <1>5, <1>6

LEMMA AppendAllSound ==
  ASSUME buffer \in Seq(Things), NEW items \in Seq(Things)
  PROVE  LET frame == AppendAll(items, TRUE)
         IN  frame \in Frames /\ frame.out \o frame.buffer = buffer \o items
<1> DEFINE start == [buffer |-> buffer, out |-> <<>>, lost |-> FALSE]
           Next1(g, i) == CASE i = 0 -> start
                            [] i > 0 /\ g[i - 1].lost -> g[i - 1]
                            [] OTHER -> AppendData(g[i - 1], items[i], TRUE)
           Exists(n) == \E g : g = [i \in 0..n |-> Next1(g, i)]
           frames == CHOOSE g : g = [i \in 0..Len(items) |-> Next1(g, i)]
           Upto(i) == /\ frames[i] \in Frames
                      /\ frames[i].out \o frames[i].buffer = buffer \o SubSeq(items, 1, i)
<1>1. Len(items) \in Nat /\ start \in Frames
  BY DEF Frames
<1>2. \A n \in 0..Len(items) : Exists(n)
  <2> DEFINE S == {n \in 0..Len(items) : Exists(n)}
  <2>1. 0 \in S
    <3> DEFINE g == [i \in 0..0 |-> start]
    <3>1. g = [i \in 0..0 |-> Next1(g, i)]
      OBVIOUS
    <3>2. Exists(0)
      <4> HIDE DEF g, Next1
      <4> QED  BY <3>1
    <3> HIDE DEF Exists
    <3> QED  BY <1>1, <3>2
  <2>2. ASSUME NEW n \in 1..Len(items), n - 1 \in S PROVE n \in S
    <3>1. n \in Nat /\ n > 0
      BY <1>1
    <3>2. PICK g : g = [i \in 0..(n - 1) |-> Next1(g, i)]
      BY <2>2
    <3> DEFINE h == [i \in 0..n |-> IF i = n THEN Next1(g, n) ELSE g[i]]
    <3>3. \A i \in 0..n : h[i] = Next1(h, i)
      <4> SUFFICES ASSUME NEW i \in 0..n PROVE h[i] = Next1(h, i)
        OBVIOUS
      <4>1. i > 0 => h[i - 1] = g[i - 1]
        <5> HIDE DEF Next1
        <5> SUFFICES ASSUME i > 0 PROVE h[i - 1] = g[i - 1]
          OBVIOUS
        <5>1. i - 1 \in 0..n /\ i - 1 # n
          BY <3>1
        <5> QED  BY <5>1
      <4>2. h[i] = Next1(g, i)
        <5> HIDE DEF Next1
        <5>1. CASE i = n
          BY <5>1
        <5>2. CASE i # n
          <6>1. i \in 0..(n - 1)  BY <3>1, <5>2
          <6> QED  BY <3>2, <5>2, <6>1
        <5> QED BY <5>1, <5>2
      <4>3. i = 0 \/ i > 0
        BY <3>1
      <4> HIDE DEF h
      <4> QED  BY <4>1, <4>2, <4>3
    <3>4. h = [i \in 0..n |-> Next1(h, i)]
      <4> HIDE DEF Next1
      <4> QED  BY <3>3
    <3>5. Exists(n)
      <4> HIDE DEF h, Next1
      <4> QED  BY <3>4
    <3>6. n \in 0..Len(items)
      BY <1>1
    <3> HIDE DEF Exists, h
    <3> QED  BY <3>5, <3>6
  <2> HIDE DEF S
  <2>3. 0..Len(items) \subseteq S
    BY <1>1, <2>1, <2>2, UpTo
  <2> QED  BY <2>3 DEF S
<1>3. frames = [i \in 0..Len(items) |-> Next1(frames, i)]
  <2>1. Exists(Len(items))
    <3>1. Len(items) \in 0..Len(items)
      BY <1>1
    <3> HIDE DEF Exists
    <3> QED  BY <1>2, <3>1
  <2> HIDE DEF Next1
  <2> QED  BY <2>1
<1>4. \A i \in 0..Len(items) : frames[i] = Next1(frames, i)
  <2> HIDE DEF Next1, frames
  <2> QED BY <1>3
<1>5. AppendAll(items, TRUE) = frames[Len(items)]
  BY DEF AppendAll
<1> HIDE DEF frames
<1>6. \A i \in 0..Len(items) : Upto(i)
  <2> DEFINE S == {n \in 0..Len(items) : Upto(n)}
  <2>1. 0 \in S
    <3>1. 0 \in 0..Len(items)
      BY <1>1
    <3>2. frames[0] = start
      <4>1. frames[0] = Next1(frames, 0)
        <5> HIDE DEF Next1
        <5> QED  BY <1>4, <3>1
      <4> QED  BY <4>1
    <3>3. SubSeq(items, 1, 0) = <<>>
      BY <1>1
    <3>4. <<>> \o buffer = buffer /\ buffer \o <<>> = buffer
      BY ConcatEmptySeq
    <3>5. start.out \o start.buffer = buffer \o SubSeq(items, 1, 0)
      BY <3>3, <3>4
    <3>6. Upto(0)
      <4> HIDE DEF start
      <4> QED  BY <1>1, <3>2, <3>5
    <3> HIDE DEF Upto
    <3> QED  BY <3>1, <3>6
  <2>2. ASSUME NEW n \in 1..Len(items), n - 1 \in S PROVE n \in S
    <3> DEFINE last == frames[n - 1]
    <3>1. n \in 0..Len(items) /\ n # 0 /\ n > 0
      BY <1>1
    <3>2. last \in Frames /\ last.out \o last.buffer = buffer \o SubSeq(items, 1, n - 1)
      BY <2>2
    <3>3. items[n] \in Things
      BY ElementOfSeq
    <3>4. frames[n] = AppendData(last, items[n], TRUE)
      <4>1. last.lost = FALSE
        BY <3>2 DEF Frames
      <4>2. frames[n] = Next1(frames, n)
        BY <1>4, <3>1
      <4> HIDE DEF last
      <4> QED  BY <3>1, <4>1, <4>2 DEF last
    <3>5. /\ frames[n] \in Frames
          /\ frames[n].out \o frames[n].buffer = Append(last.out \o last.buffer, items[n])
      BY <3>2, <3>3, <3>4, AppendDataSound
    <3>6. SubSeq(items, 1, n - 1) \in Seq(Things) /\ SubSeq(items, 1, n) \in Seq(Things)
      BY SubSeqProperties, <1>1
    <3>7. SubSeq(items, 1, n) = SubSeq(items, 1, n - 1) \o <<items[n]>>
      <4>1. 1 \in 1..Len(items) /\ n \in 1..Len(items)
        BY <1>1
      <4> QED  BY <4>1, SubSeqRecursiveSecond
    <3>8. <<items[n]>> \in Seq(Things)
      BY <3>3
    <3>9. buffer \o SubSeq(items, 1, n) = (buffer \o SubSeq(items, 1, n - 1)) \o <<items[n]>>
      <4> DEFINE s == SubSeq(items, 1, n - 1)
                 t == <<items[n]>>
      <4>1. s \in Seq(Things) /\ t \in Seq(Things)
        BY <3>6, <3>8
      <4> HIDE DEF s, t
      <4>2. (buffer \o s) \o t = buffer \o (s \o t)
        <5>1. PICK r \in Seq(Things) : r = buffer
          BY <1>1
        <5>2. (r \o s) \o t = r \o (s \o t)
          BY <4>1, <5>1, ConcatAssociative, SMTT(40)
        <5> QED  BY <5>1, <5>2
      <4> QED  BY <3>7, <4>2 DEF s, t
    <3>10. buffer \o SubSeq(items, 1, n - 1) \in Seq(Things)
      BY <3>6, ConcatProperties
    <3>11. Append(buffer \o SubSeq(items, 1, n - 1), items[n])
             = (buffer \o SubSeq(items, 1, n - 1)) \o <<items[n]>>
      BY <3>3, <3>10, AppendIsConcat
    <3>12. Upto(n)
      BY <3>2, <3>5, <3>9, <3>11
    <3> QED  BY <3>1, <3>12
  <2> HIDE DEF S
  <2>3. 0..Len(items) \subseteq S
    BY <1>1, <2>1, <2>2, UpTo
  <2> QED  BY <2>3 DEF S
<1>7. SubSeq(items, 1, Len(items)) = items
  BY SubSeqFull
<1>8. Upto(Len(items))
  <2>1. Len(items) \in 0..Len(items)
    BY <1>1
  <2> HIDE DEF Upto
  <2> QED  BY <1>6, <2>1
<1> QED  BY <1>5, <1>7, <1>8

-------------------------------------------------------------------------------
(* What may happen to what flows. *)

LEMMA ThingIs ==
  ASSUME NEW t \in Things
  PROVE  \/ t = Terminate /\ t[1] = "Terminate"
         \/ t[1] = "answer" /\ t[2] \in Messages /\ t = Answer(t[2])
         \/ t[1] \in Sources /\ t[2] \in Nat \ {0} /\ t = Event(t[1], t[2])
BY DEF Things, EventsOf, Event, Answer, Terminate, Sources

LEMMA Homes ==
  ASSUME NEW P, FlowTyped(P), NEW p \in Queues, NEW i \in 1..Len(P[p])
  PROVE  /\ P[p][i][1] \in Sources => P[p][i][1] = p
         /\ P[p][i] # Terminate
<1>1. CASE p \in Sources
  <2>1. P[p][i] \in EventsOf(p)
    BY <1>1, ElementOfSeq DEF FlowTyped
  <2> QED  BY <1>1, <2>1 DEF EventsOf, Event, Terminate, Sources
<1>2. CASE p \notin Sources
  <2>1. P[p][i] \in {Answer(m) : m \in Messages}
    BY <1>2, ElementOfSeq DEF FlowTyped
  <2> QED  BY <2>1 DEF Answer, Terminate, Sources
<1> QED  BY <1>1, <1>2

LEMMA Joined ==
  ASSUME NEW s \in Seq(Things), NEW t \in Seq(Things), NEW u, u = s \o t
  PROVE  /\ u \in Seq(Things) /\ Len(s) \in Nat /\ Len(t) \in Nat /\ Len(u) = Len(s) + Len(t)
         /\ \A i \in 1..Len(s) : i \in 1..Len(u) /\ u[i] = s[i]
         /\ \A i \in 1..Len(t) : i + Len(s) \in 1..Len(u) /\ u[i + Len(s)] = t[i]
         /\ \A i \in 1..Len(u) : i > Len(s) => i - Len(s) \in 1..Len(t) /\ u[i] = t[i - Len(s)]
<1>1. /\ Len(s) \in Nat /\ Len(t) \in Nat /\ s \o t \in Seq(Things)
      /\ Len(s \o t) = Len(s) + Len(t)
      /\ \A i \in 1..Len(s) + Len(t) : (s \o t)[i] = IF i <= Len(s) THEN s[i] ELSE t[i - Len(s)]
  BY ConcatProperties, LenProperties
<1>2. \A i \in 1..Len(s) + Len(t) : u[i] = IF i <= Len(s) THEN s[i] ELSE t[i - Len(s)]
  BY <1>1
<1>3. Len(u) = Len(s) + Len(t) /\ u \in Seq(Things)
  BY <1>1
<1>4. \A i \in 1..Len(s) : i \in 1..Len(u) /\ u[i] = s[i]
  BY <1>1, <1>2, <1>3
<1>5. \A i \in 1..Len(t) : i + Len(s) \in 1..Len(u) /\ u[i + Len(s)] = t[i]
  <2> SUFFICES ASSUME NEW i \in 1..Len(t)
               PROVE  i + Len(s) \in 1..Len(u) /\ u[i + Len(s)] = t[i]
    OBVIOUS
  <2>1. i + Len(s) \in 1..Len(s) + Len(t) /\ ~(i + Len(s) <= Len(s)) /\ i + Len(s) - Len(s) = i
    BY <1>1
  <2>2. u[i + Len(s)] = t[i + Len(s) - Len(s)]
    BY <1>2, <2>1
  <2> QED  BY <1>3, <2>1, <2>2
<1>6. \A i \in 1..Len(u) : i > Len(s) => i - Len(s) \in 1..Len(t) /\ u[i] = t[i - Len(s)]
  BY <1>1, <1>2, <1>3
<1> QED  BY <1>1, <1>3, <1>4, <1>5, <1>6

(* Each item of Q comes from a place and an index of P of its own, and     *)
(* events of one source keep their order.                                  *)
Origins(P, Q, place, index) ==
  /\ \A q \in Places : \A j \in 1..Len(Q[q]) : Q[q][j] # Terminate =>
       /\ place[q][j] \in Places /\ index[q][j] \in 1..Len(P[place[q][j]])
       /\ Q[q][j] = P[place[q][j]][index[q][j]]
  /\ \A q, r \in Places : \A j \in 1..Len(Q[q]), k \in 1..Len(Q[r]) :
       Q[q][j] # Terminate /\ Q[r][k] # Terminate =>
         /\ place[q][j] = place[r][k] /\ index[q][j] = index[r][k] => q = r /\ j = k
         /\ Precedes(q, j, r, k) /\ Q[q][j][1] = Q[r][k][1] /\ Q[q][j][1] \in Sources =>
              Precedes(place[q][j], index[q][j], place[r][k], index[r][k])

LEMMA Rearranged ==
  ASSUME NEW P, NEW Q, NEW events, NEW queries, FlowSound(P, events, queries), FlowTyped(Q),
         NEW place, NEW index, Origins(P, Q, place, index)
  PROVE  FlowSound(Q, events, queries)
<1> USE DEF Origins
<1>1. Terminate[1] = "Terminate" /\ "Terminate" \notin Sources
  BY DEF Terminate, Sources
<1>2. NothingTwice(Q)
  <2> SUFFICES ASSUME NEW q \in Places, NEW r \in Places,
                      NEW j \in 1..Len(Q[q]), NEW k \in 1..Len(Q[r]),
                      Q[q][j] = Q[r][k], Q[q][j] # Terminate
               PROVE  q = r /\ j = k
    BY DEF NothingTwice
  <2> DEFINE p == place[q][j]  i == index[q][j]  o == place[r][k]  h == index[r][k]
  <2>1. /\ p \in Places /\ i \in 1..Len(P[p]) /\ Q[q][j] = P[p][i]
        /\ o \in Places /\ h \in 1..Len(P[o]) /\ Q[r][k] = P[o][h]
    OBVIOUS
  <2>2. p = o /\ i = h => q = r /\ j = k
    OBVIOUS
  <2> HIDE DEF p, i, o, h
  <2>3. NothingTwice(P) /\ P[p][i] = P[o][h] /\ P[p][i] # Terminate
    BY <2>1 DEF FlowSound
  <2>4. p = o /\ i = h
    BY <2>1, <2>3 DEF NothingTwice
  <2> QED  BY <2>2, <2>4
<1>3. InOrder(Q)
  <2> SUFFICES ASSUME NEW q \in Places, NEW r \in Places,
                      NEW j \in 1..Len(Q[q]), NEW k \in 1..Len(Q[r]),
                      Precedes(q, j, r, k), Q[q][j][1] = Q[r][k][1], Q[q][j][1] \in Sources
               PROVE  Q[q][j][2] < Q[r][k][2]
    BY DEF InOrder
  <2>1. Q[q][j] # Terminate /\ Q[r][k] # Terminate
    BY <1>1
  <2> DEFINE p == place[q][j]  i == index[q][j]  o == place[r][k]  h == index[r][k]
  <2>2. Precedes(p, i, o, h)
    BY <2>1
  <2>3. /\ p \in Places /\ i \in 1..Len(P[p]) /\ Q[q][j] = P[p][i]
        /\ o \in Places /\ h \in 1..Len(P[o]) /\ Q[r][k] = P[o][h]
    BY <2>1
  <2> HIDE DEF p, i, o, h
  <2> QED  BY <2>2, <2>3 DEF InOrder, FlowSound
<1>4. NothingForeign(Q, events, queries)
  <2> SUFFICES ASSUME NEW q \in Places, NEW j \in 1..Len(Q[q])
               PROVE  /\ Q[q][j][1] \in Sources => Q[q][j][2] <= events[Q[q][j][1]]
                      /\ Q[q][j][1] = "answer" => Q[q][j][2] \in queries
    BY DEF NothingForeign
  <2>1. CASE Q[q][j] = Terminate
    BY <1>1, <2>1
  <2>2. CASE Q[q][j] # Terminate
    <3> DEFINE p == place[q][j]  i == index[q][j]
    <3>1. p \in Places /\ i \in 1..Len(P[p]) /\ Q[q][j] = P[p][i]
      BY <2>2
    <3> HIDE DEF p, i
    <3> QED  BY <3>1 DEF NothingForeign, FlowSound
  <2> QED  BY <2>1, <2>2
<1> QED  BY <1>2, <1>3, <1>4 DEF FlowSound

AllKept(P, Q) ==
  \A p \in Places : \A i \in 1..Len(P[p]) :
    \E q \in Places : \E j \in 1..Len(Q[q]) : Q[q][j] = P[p][i]

LEMMA StillThere ==
  ASSUME NEW P, NEW Q, NEW events, NothingLost(P, events), AllKept(P, Q)
  PROVE  NothingLost(Q, events)
<1> SUFFICES ASSUME NEW s \in Sources, NEW n \in 1..events[s]
             PROVE  \E q \in Places : \E j \in 1..Len(Q[q]) : Q[q][j] = Event(s, n)
  BY DEF NothingLost
<1>1. PICK p \in Places : \E i \in 1..Len(P[p]) : P[p][i] = Event(s, n)
  BY DEF NothingLost
<1>2. PICK i \in 1..Len(P[p]) : P[p][i] = Event(s, n)
  BY <1>1
<1>3. \E q \in Places : \E j \in 1..Len(Q[q]) : Q[q][j] = P[p][i]
  BY DEF AllKept
<1> QED  BY <1>2, <1>3

(* Everything in one of the threads' queues is sent. *)
Flushes(P, Q, a) ==
  /\ Q["sent"] = P["sent"] \o P[a] /\ Q[a] = <<>>
  /\ \A p \in Places \ {"sent", a} : Q[p] = P[p]

LEMMA QueueSent ==
  ASSUME NEW P, NEW Q, NEW events, NEW queries, NEW a,
         a \in Queues, FlowSound(P, events, queries), Flushes(P, Q, a)
  PROVE  FlowSound(Q, events, queries) /\ (NothingLost(P, events) => NothingLost(Q, events))
<1> USE DEF Flushes
<1> DEFINE n == Len(P["sent"])
           place == [q \in Places |-> [j \in Nat |-> IF q = "sent" /\ j > n THEN a ELSE q]]
           index == [q \in Places |-> [j \in Nat |-> IF q = "sent" /\ j > n THEN j - n ELSE j]]
<1>1. /\ a \in Places /\ a # "sent" /\ "sent" \in Places
      /\ P["sent"] \in Seq(Things) /\ P[a] \in Seq(Things) /\ n \in Nat
  BY DEF FlowSound, FlowTyped, Places, Queues
<1>2. /\ Q["sent"] \in Seq(Things) /\ Len(Q["sent"]) \in Nat /\ Len(Q[a]) = 0
      /\ \A i \in 1..n : i \in 1..Len(Q["sent"]) /\ Q["sent"][i] = P["sent"][i]
      /\ \A i \in 1..Len(P[a]) : i + n \in 1..Len(Q["sent"]) /\ Q["sent"][i + n] = P[a][i]
      /\ \A i \in 1..Len(Q["sent"]) :
           i > n => i - n \in 1..Len(P[a]) /\ Q["sent"][i] = P[a][i - n]
  <2> DEFINE s == P["sent"]  t == P[a]  u == Q["sent"]
  <2>1. s \in Seq(Things) /\ t \in Seq(Things) /\ u = s \o t
    BY <1>1
  <2> HIDE DEF s, t, u
  <2>2. /\ u \in Seq(Things) /\ Len(s) \in Nat /\ Len(t) \in Nat /\ Len(u) = Len(s) + Len(t)
        /\ \A i \in 1..Len(s) : i \in 1..Len(u) /\ u[i] = s[i]
        /\ \A i \in 1..Len(t) : i + Len(s) \in 1..Len(u) /\ u[i + Len(s)] = t[i]
        /\ \A i \in 1..Len(u) : i > Len(s) => i - Len(s) \in 1..Len(t) /\ u[i] = t[i - Len(s)]
    BY <2>1, Joined
  <2>3. Len(u) \in Nat
    BY <2>2
  <2>4. Len(Q[a]) = 0
    OBVIOUS
  <2> QED  BY <2>2, <2>3, <2>4 DEF s, t, u
<1>3. FlowTyped(Q)
  <2>1. \A p \in Places \ {"sent", a} : P[p] \in Seq(Things)
    BY DEF FlowSound, FlowTyped
  <2>2. \A p \in Places : Q[p] \in Seq(Things)
    <3>1. <<>> \in Seq(Things)
      OBVIOUS
    <3> SUFFICES ASSUME NEW p \in Places PROVE Q[p] \in Seq(Things)
      OBVIOUS
    <3> QED  BY <1>1, <1>2, <2>1, <3>1
  <2>3. \A p \in Queues : Q[p] = <<>> \/ Q[p] = P[p]
    BY <1>1 DEF Places, Queues
  <2>4. \A p \in Sources : p \in Queues
    BY DEF Sources, Queues
  <2>5. \A s \in Sources : Q[s] \in Seq(EventsOf(s))
    <3> SUFFICES ASSUME NEW s \in Sources PROVE Q[s] \in Seq(EventsOf(s))
      OBVIOUS
    <3>1. P[s] \in Seq(EventsOf(s)) /\ <<>> \in Seq(EventsOf(s))
      BY DEF FlowSound, FlowTyped
    <3> QED  BY <2>3, <2>4, <3>1
  <2>6. \A p \in Queues \ Sources : Q[p] \in Seq({Answer(m) : m \in Messages})
    <3> SUFFICES ASSUME NEW p \in Queues \ Sources
                 PROVE  Q[p] \in Seq({Answer(m) : m \in Messages})
      OBVIOUS
    <3>1. /\ P[p] \in Seq({Answer(m) : m \in Messages})
          /\ <<>> \in Seq({Answer(m) : m \in Messages})
      BY DEF FlowSound, FlowTyped
    <3> QED  BY <2>3, <3>1
  <2> QED  BY <2>2, <2>5, <2>6 DEF FlowTyped
<1>4. \A q \in Places, j \in Nat :
        /\ place[q][j] = IF q = "sent" /\ j > n THEN a ELSE q
        /\ index[q][j] = IF q = "sent" /\ j > n THEN j - n ELSE j
  OBVIOUS
<1> HIDE DEF place, index
<1>5. \A q \in Places : Len(Q[q]) \in Nat /\ \A j \in 1..Len(Q[q]) :
        /\ place[q][j] \in Places /\ index[q][j] \in 1..Len(P[place[q][j]])
        /\ Q[q][j] = P[place[q][j]][index[q][j]]
  <2> SUFFICES ASSUME NEW q \in Places
               PROVE  Len(Q[q]) \in Nat /\ \A j \in 1..Len(Q[q]) :
                        /\ place[q][j] \in Places /\ index[q][j] \in 1..Len(P[place[q][j]])
                        /\ Q[q][j] = P[place[q][j]][index[q][j]]
    OBVIOUS
  <2>1. CASE q = "sent"
    <3> SUFFICES ASSUME NEW j \in 1..Len(Q["sent"])
                 PROVE  /\ place[q][j] \in Places /\ index[q][j] \in 1..Len(P[place[q][j]])
                        /\ Q[q][j] = P[place[q][j]][index[q][j]]
      BY <1>2, <2>1
    <3>1. j \in Nat /\ j >= 1
      BY <1>2
    <3>2. CASE j <= n
      <4>1. place[q][j] = q /\ index[q][j] = j
        BY <1>1, <1>4, <3>1, <3>2
      <4>2. j \in 1..n
        BY <1>1, <3>1, <3>2
      <4> QED  BY <1>1, <1>2, <2>1, <4>1, <4>2
    <3>3. CASE j > n
      <4>1. place[q][j] = a /\ index[q][j] = j - n
        BY <1>1, <1>4, <2>1, <3>1, <3>3
      <4> QED  BY <1>1, <1>2, <2>1, <3>3, <4>1
    <3> QED  BY <1>1, <3>1, <3>2, <3>3
  <2>2. CASE q = a
    BY <1>1, <1>2, <2>2
  <2>3. CASE q \notin {"sent", a}
    <3>1. Q[q] = P[q] /\ Len(P[q]) \in Nat
      BY <2>3 DEF FlowSound, FlowTyped
    <3> QED  BY <1>4, <2>3, <3>1
  <2> QED  BY <2>1, <2>2, <2>3
<1>6. ASSUME NEW q \in Places, NEW r \in Places, NEW j \in 1..Len(Q[q]), NEW k \in 1..Len(Q[r])
      PROVE  /\ place[q][j] = place[r][k] /\ index[q][j] = index[r][k] => q = r /\ j = k
             /\ Precedes(q, j, r, k) /\ Q[q][j][1] = Q[r][k][1] /\ Q[q][j][1] \in Sources =>
                  Precedes(place[q][j], index[q][j], place[r][k], index[r][k])
  <2>1. j \in Nat /\ k \in Nat
    BY <1>5
  <2>2. q # a /\ r # a
    BY <1>2, <1>5
  <2>3. place[q][j] = place[r][k] /\ index[q][j] = index[r][k] => q = r /\ j = k
    BY <1>1, <1>4, <2>1, <2>2
  <2>4. ASSUME Precedes(q, j, r, k), Q[q][j][1] = Q[r][k][1], Q[q][j][1] \in Sources
        PROVE  Precedes(place[q][j], index[q][j], place[r][k], index[r][k])
    <3>1. CASE q = r /\ j < k
      BY <1>1, <1>4, <2>1, <3>1 DEF Precedes
    <3>2. CASE q = "sent" /\ r # "sent" /\ j <= n
      BY <1>1, <1>4, <2>1, <3>2 DEF Precedes
    <3>3. CASE q = "sent" /\ r # "sent" /\ j > n
      <4>1. place[q][j] = a /\ place[r][k] = r /\ r \in Queues
        BY <1>4, <2>1, <3>3 DEF Places
      <4>2. Q[q][j][1] = a /\ Q[r][k][1] = r
        <5>1. Q[q][j] = P[a][index[q][j]] /\ index[q][j] \in 1..Len(P[a])
          BY <1>5, <4>1
        <5>2. Q[r][k] = P[r][index[r][k]] /\ index[r][k] \in 1..Len(P[r])
          BY <1>5, <4>1
        <5>3. FlowTyped(P)
          BY DEF FlowSound
        <5>4. P[a][index[q][j]][1] \in Sources /\ P[r][index[r][k]][1] \in Sources
          BY <2>4, <5>1, <5>2
        <5>5. P[a][index[q][j]][1] = a
          BY <5>1, <5>3, <5>4, Homes
        <5>6. P[r][index[r][k]][1] = r
          BY <4>1, <5>2, <5>3, <5>4, Homes
        <5> QED  BY <5>1, <5>2, <5>5, <5>6
      <4> QED  BY <2>2, <2>4, <4>2
    <3> QED  BY <1>1, <2>1, <2>4, <3>1, <3>2, <3>3 DEF Precedes
  <2> QED  BY <2>3, <2>4
<1>7. FlowSound(Q, events, queries)
  <2>1. \A q \in Places : \A j \in 1..Len(Q[q]) :
          /\ place[q][j] \in Places /\ index[q][j] \in 1..Len(P[place[q][j]])
          /\ Q[q][j] = P[place[q][j]][index[q][j]]
    BY <1>5
  <2>2. \A q, r \in Places : \A j \in 1..Len(Q[q]), k \in 1..Len(Q[r]) :
          /\ place[q][j] = place[r][k] /\ index[q][j] = index[r][k] => q = r /\ j = k
          /\ Precedes(q, j, r, k) /\ Q[q][j][1] = Q[r][k][1] /\ Q[q][j][1] \in Sources =>
               Precedes(place[q][j], index[q][j], place[r][k], index[r][k])
    BY <1>6
  <2>3. Origins(P, Q, place, index)
    BY <2>1, <2>2, ZenonT(40) DEF Origins
  <2> QED  BY <1>3, <2>3, Rearranged
<1>8. ASSUME NEW p \in Places, NEW i \in 1..Len(P[p])
      PROVE  \E q \in Places : \E j \in 1..Len(Q[q]) : Q[q][j] = P[p][i]
  <2>1. CASE p = "sent"
    BY <1>1, <1>2, <2>1
  <2>2. CASE p = a
    <3>1. i + n \in 1..Len(Q["sent"]) /\ Q["sent"][i + n] = P[p][i]
      BY <1>1, <1>2, <2>2
    <3> QED  BY <1>1, <3>1
  <2>3. CASE p \notin {"sent", a}
    BY <2>3
  <2> QED  BY <2>1, <2>2, <2>3
<1>9. AllKept(P, Q)
  BY <1>8 DEF AllKept
<1> QED  BY <1>7, <1>9, StillThere

LEMMA Lengthened ==
  ASSUME NEW s \in Seq(Things), NEW x \in Things, NEW u, u = Append(s, x)
  PROVE  /\ u \in Seq(Things) /\ Len(s) \in Nat /\ Len(u) = Len(s) + 1 /\ u[Len(u)] = x
         /\ \A i \in 1..Len(s) : i \in 1..Len(u) /\ u[i] = s[i]
         /\ \A i \in 1..Len(u) : i # Len(u) => i \in 1..Len(s)
BY AppendProperties, LenProperties

LEMMA Shortened ==
  ASSUME NEW s \in Seq(Things), s # <<>>, NEW t, t = Tail(s)
  PROVE  /\ t \in Seq(Things) /\ Len(t) \in Nat /\ Len(s) = Len(t) + 1
         /\ Head(s) = s[1] /\ Head(s) \in Things
         /\ \A i \in 1..Len(t) : i + 1 \in 1..Len(s) /\ t[i] = s[i + 1]
         /\ \A i \in 1..Len(s) : i # 1 => i - 1 \in 1..Len(t) /\ t[i - 1] = s[i]
<1>1. /\ t \in Seq(Things) /\ Len(t) = Len(s) - 1 /\ Len(t) \in Nat /\ Len(s) \in Nat
      /\ \A i \in 1..Len(t) : t[i] = s[i + 1]
      /\ Head(s) \in Things
  BY HeadTailProperties, LenProperties
<1>2. Head(s) = s[1]
  OBVIOUS
<1>3. \A i \in 1..Len(t) : i + 1 \in 1..Len(s) /\ t[i] = s[i + 1]
  BY <1>1
<1>4. ASSUME NEW i \in 1..Len(s), i # 1 PROVE i - 1 \in 1..Len(t) /\ t[i - 1] = s[i]
  <2>1. i - 1 \in 1..Len(t) /\ i - 1 + 1 = i
    BY <1>1, <1>4
  <2> QED  BY <1>3, <2>1
<1> QED  BY <1>1, <1>2, <1>3, <1>4

(* The type of what flows, when a queue was emptied, lost its first item,  *)
(* or got an answer.                                                       *)
LEMMA TypedAfter ==
  ASSUME NEW P, FlowTyped(P), NEW Q,
         \A p \in Places :
           \/ Q[p] \in {P[p], <<>>}
           \/ P[p] # <<>> /\ Q[p] = Tail(P[p])
           \/ p \in Queues \ Sources /\ \E m \in Messages : Q[p] = Append(P[p], Answer(m))
           \/ p = "sent" /\ Q[p] \in Seq(Things)
  PROVE  FlowTyped(Q)
<1> DEFINE A == {Answer(m) : m \in Messages}
<1>1. A \subseteq Things
  BY DEF Things
<1>2. ASSUME NEW p \in Places PROVE Q[p] \in Seq(Things)
  <2>1. P[p] \in Seq(Things) /\ <<>> \in Seq(Things)
    BY DEF FlowTyped
  <2>2. CASE P[p] # <<>> /\ Q[p] = Tail(P[p])
    BY <2>1, <2>2
  <2>3. CASE \E m \in Messages : Q[p] = Append(P[p], Answer(m))
    <3>1. PICK m \in Messages : Q[p] = Append(P[p], Answer(m))
      BY <2>3
    <3>2. Answer(m) \in Things
      BY <1>1
    <3> QED  BY <2>1, <3>1, <3>2
  <2> QED  BY <2>1, <2>2, <2>3
<1>3. ASSUME NEW s \in Sources PROVE Q[s] \in Seq(EventsOf(s))
  <2>1. P[s] \in Seq(EventsOf(s)) /\ <<>> \in Seq(EventsOf(s))
    BY DEF FlowTyped
  <2>2. s \in Places /\ s # "sent"
    BY DEF Sources, Places, Queues
  <2>3. CASE P[s] # <<>> /\ Q[s] = Tail(P[s])
    BY <2>1, <2>3
  <2> QED  BY <2>1, <2>2, <2>3
<1>4. ASSUME NEW p \in Queues \ Sources PROVE Q[p] \in Seq(A)
  <2>1. P[p] \in Seq(A) /\ <<>> \in Seq(A)
    BY DEF FlowTyped
  <2>2. p \in Places /\ p # "sent"
    BY DEF Places, Queues
  <2>3. CASE P[p] # <<>> /\ Q[p] = Tail(P[p])
    <3> HIDE DEF A
    <3> QED  BY <2>1, <2>3
  <2>4. CASE \E m \in Messages : Q[p] = Append(P[p], Answer(m))
    <3>1. PICK m \in Messages : Q[p] = Append(P[p], Answer(m))
      BY <2>4
    <3>2. Answer(m) \in A
      OBVIOUS
    <3> HIDE DEF A
    <3> QED  BY <2>1, <3>1, <3>2
  <2> QED  BY <2>1, <2>2, <2>3, <2>4
<1> QED  BY <1>2, <1>3, <1>4 DEF FlowTyped

(* A query is answered, or an answer goes on: from the head of a queue to  *)
(* the end of another place.                                               *)
Passes(P, Q, a, b) ==
  /\ P[a] # <<>> /\ Q[a] = Tail(P[a]) /\ Q[b] = Append(P[b], Head(P[a]))
  /\ \A p \in Places \ {a, b} : Q[p] = P[p]

LEMMA AnswerMoved ==
  ASSUME NEW P, NEW Q, NEW events, NEW queries, NEW a, NEW b,
         a \in {"inbox", "unanswered"}, b \in Places \ Sources, a # b,
         FlowSound(P, events, queries), Passes(P, Q, a, b)
  PROVE  FlowSound(Q, events, queries) /\ (NothingLost(P, events) => NothingLost(Q, events))
<1> USE DEF Passes
<1> DEFINE n == Len(P[b])
           place == [q \in Places |-> [j \in Nat |-> IF q = b /\ j = n + 1 THEN a ELSE q]]
           index == [q \in Places |-> [j \in Nat |->
                       IF q = a THEN j + 1 ELSE IF q = b /\ j = n + 1 THEN 1 ELSE j]]
<1>1. /\ a \in Places /\ b \in Places /\ a \in Queues /\ a \notin Sources
      /\ P[a] \in Seq(Things) /\ P[b] \in Seq(Things) /\ FlowTyped(P)
  BY DEF FlowSound, FlowTyped, Places, Queues, Sources
<1>2. /\ Len(Q[a]) \in Nat /\ Len(P[a]) = Len(Q[a]) + 1
      /\ Head(P[a]) = P[a][1] /\ Head(P[a]) \in Things
      /\ \A i \in 1..Len(Q[a]) : i + 1 \in 1..Len(P[a]) /\ Q[a][i] = P[a][i + 1]
      /\ \A i \in 1..Len(P[a]) : i # 1 => i - 1 \in 1..Len(Q[a]) /\ Q[a][i - 1] = P[a][i]
  <2> DEFINE s == P[a]  t == Q[a]
  <2>1. s \in Seq(Things) /\ s # <<>> /\ t = Tail(s)
    BY <1>1
  <2> HIDE DEF s, t
  <2>2. /\ Len(t) \in Nat /\ Len(s) = Len(t) + 1
        /\ Head(s) = s[1] /\ Head(s) \in Things
        /\ \A i \in 1..Len(t) : i + 1 \in 1..Len(s) /\ t[i] = s[i + 1]
        /\ \A i \in 1..Len(s) : i # 1 => i - 1 \in 1..Len(t) /\ t[i - 1] = s[i]
    BY <2>1, Shortened
  <2> QED  BY <2>2 DEF s, t
<1>3. /\ n \in Nat /\ Len(Q[b]) = n + 1 /\ Q[b][n + 1] = P[a][1] /\ Q[b] \in Seq(Things)
      /\ \A i \in 1..n : i \in 1..Len(Q[b]) /\ Q[b][i] = P[b][i]
      /\ \A i \in 1..Len(Q[b]) : i # n + 1 => i \in 1..n
  <2> DEFINE s == P[b]  u == Q[b]  x == Head(P[a])
  <2>1. s \in Seq(Things) /\ x \in Things /\ u = Append(s, x)
    BY <1>1, <1>2
  <2> HIDE DEF s, u, x
  <2>2. /\ u \in Seq(Things) /\ Len(s) \in Nat /\ Len(u) = Len(s) + 1 /\ u[Len(u)] = x
        /\ \A i \in 1..Len(s) : i \in 1..Len(u) /\ u[i] = s[i]
        /\ \A i \in 1..Len(u) : i # Len(u) => i \in 1..Len(s)
    BY <2>1, Lengthened
  <2>3. x = P[a][1]
    BY <1>2 DEF x
  <2> QED  BY <2>2, <2>3 DEF s, u
<1>4. 1 \in 1..Len(P[a]) /\ P[a][1][1] \notin Sources /\ P[a][1] # Terminate
  <2>1. 1 \in 1..Len(P[a])
    BY <1>2
  <2>2. (P[a][1][1] \in Sources => P[a][1][1] = a) /\ P[a][1] # Terminate
    BY <1>1, <2>1, Homes
  <2> QED  BY <1>1, <2>1, <2>2
<1>5. \E m \in Messages : Head(P[a]) = Answer(m)
  <2>1. P[a] \in Seq({Answer(m) : m \in Messages})
    BY <1>1 DEF FlowTyped
  <2>2. P[a][1] \in {Answer(m) : m \in Messages}
    BY <1>4, <2>1, ElementOfSeq
  <2> QED  BY <1>2, <2>2
<1>6. FlowTyped(Q)
  <2>1. b = "sent" \/ b \in Queues \ Sources
    BY DEF Places
  <2>2. \A p \in Places :
           \/ Q[p] \in {P[p], <<>>}
           \/ P[p] # <<>> /\ Q[p] = Tail(P[p])
           \/ p \in Queues \ Sources /\ \E m \in Messages : Q[p] = Append(P[p], Answer(m))
           \/ p = "sent" /\ Q[p] \in Seq(Things)
    <3> SUFFICES ASSUME NEW p \in Places
                 PROVE  \/ Q[p] \in {P[p], <<>>}
                        \/ P[p] # <<>> /\ Q[p] = Tail(P[p])
                        \/ /\ p \in Queues \ Sources
                           /\ \E m \in Messages : Q[p] = Append(P[p], Answer(m))
                        \/ p = "sent" /\ Q[p] \in Seq(Things)
      OBVIOUS
    <3>1. CASE p = b /\ b = "sent"
      BY <1>3, <3>1
    <3>2. CASE p = b /\ b \in Queues \ Sources
      <4>1. PICK m \in Messages : Head(P[a]) = Answer(m)
        BY <1>5
      <4>2. Q[p] = Append(P[p], Answer(m))
        BY <3>2, <4>1
      <4> QED  BY <3>2, <4>2
    <3>3. CASE p = a
      BY <3>3
    <3>4. CASE p # a /\ p # b
      <4>1. Q[p] = P[p]
        BY <3>4
      <4> QED  BY <4>1
    <3> QED  BY <2>1, <3>1, <3>2, <3>3, <3>4
  <2> QED  BY <1>1, <2>2, TypedAfter
<1>7. \A q \in Places, j \in Nat :
        /\ place[q][j] = IF q = b /\ j = n + 1 THEN a ELSE q
        /\ index[q][j] = IF q = a THEN j + 1 ELSE IF q = b /\ j = n + 1 THEN 1 ELSE j
  OBVIOUS
<1> HIDE DEF place, index, n
<1>8. \A q \in Places : Len(Q[q]) \in Nat
  <2>1. \A q \in Places : Q[q] \in Seq(Things)
    BY <1>6 DEF FlowTyped
  <2> QED  BY <2>1, LenProperties
<1>9. ASSUME NEW q \in Places, NEW j \in 1..Len(Q[q])
      PROVE  /\ place[q][j] \in Places /\ index[q][j] \in 1..Len(P[place[q][j]])
             /\ Q[q][j] = P[place[q][j]][index[q][j]]
  <2>1. j \in Nat
    BY <1>8
  <2>2. CASE q = a
    <3>1. place[q][j] = a /\ index[q][j] = j + 1
      BY <1>7, <2>1, <2>2
    <3> QED  BY <1>1, <1>2, <2>2, <3>1
  <2>3. CASE q = b /\ j = n + 1
    <3>1. place[q][j] = a /\ index[q][j] = 1
      BY <1>7, <2>1, <2>3
    <3> QED  BY <1>1, <1>3, <1>4, <2>3, <3>1
  <2>4. CASE q = b /\ j # n + 1
    <3>1. place[q][j] = b /\ index[q][j] = j
      BY <1>7, <2>1, <2>4
    <3> QED  BY <1>1, <1>3, <2>4, <3>1 DEF n
  <2>5. CASE q # a /\ q # b
    <3>1. place[q][j] = q /\ index[q][j] = j
      BY <1>7, <2>1, <2>5
    <3>2. Q[q] = P[q]
      BY <2>5
    <3> QED  BY <3>1, <3>2
  <2> QED  BY <2>2, <2>3, <2>4, <2>5
<1>10. ASSUME NEW q \in Places, NEW r \in Places, NEW j \in 1..Len(Q[q]), NEW k \in 1..Len(Q[r])
       PROVE  /\ place[q][j] = place[r][k] /\ index[q][j] = index[r][k] => q = r /\ j = k
              /\ Precedes(q, j, r, k) /\ Q[q][j][1] = Q[r][k][1] /\ Q[q][j][1] \in Sources =>
                   Precedes(place[q][j], index[q][j], place[r][k], index[r][k])
  <2>1. j \in Nat /\ k \in Nat /\ j >= 1 /\ k >= 1
    BY <1>8
  <2>2. place[q][j] = place[r][k] /\ index[q][j] = index[r][k] => q = r /\ j = k
    <3> SUFFICES ASSUME place[q][j] = place[r][k], index[q][j] = index[r][k]
                 PROVE  q = r /\ j = k
      OBVIOUS
    <3>1. /\ q = b /\ j = n + 1 => place[q][j] = a /\ index[q][j] = 1
          /\ ~(q = b /\ j = n + 1) => place[q][j] = q
          /\ ~(q = b /\ j = n + 1) /\ q # a => index[q][j] = j
          /\ q = a => index[q][j] = j + 1 /\ index[q][j] # 1
      <4>1. place[q][j] = IF q = b /\ j = n + 1 THEN a ELSE q
        BY <1>7, <2>1
      <4>2. index[q][j] = IF q = a THEN j + 1 ELSE IF q = b /\ j = n + 1 THEN 1 ELSE j
        BY <1>7, <2>1
      <4>3. j + 1 # 1
        BY <2>1
      <4> QED  BY <4>1, <4>2, <4>3
    <3>2. /\ r = b /\ k = n + 1 => place[r][k] = a /\ index[r][k] = 1
          /\ ~(r = b /\ k = n + 1) => place[r][k] = r
          /\ ~(r = b /\ k = n + 1) /\ r # a => index[r][k] = k
          /\ r = a => index[r][k] = k + 1 /\ index[r][k] # 1
      <4>1. place[r][k] = IF r = b /\ k = n + 1 THEN a ELSE r
        BY <1>7, <2>1
      <4>2. index[r][k] = IF r = a THEN k + 1 ELSE IF r = b /\ k = n + 1 THEN 1 ELSE k
        BY <1>7, <2>1
      <4>3. k + 1 # 1
        BY <2>1
      <4> QED  BY <4>1, <4>2, <4>3
    <3>3. CASE q = b /\ j = n + 1
      <4>1. r # a /\ place[r][k] = a
        BY <3>1, <3>2, <3>3
      <4> QED  BY <3>2, <3>3, <4>1
    <3>4. CASE r = b /\ k = n + 1
      <4>1. q # a /\ place[q][j] = a
        BY <3>1, <3>2, <3>4
      <4> QED  BY <3>1, <3>4, <4>1
    <3>5. CASE ~(q = b /\ j = n + 1) /\ ~(r = b /\ k = n + 1)
      <4>1. q = r
        BY <3>1, <3>2, <3>5
      <4>2. CASE q = a
        BY <2>1, <3>1, <3>2, <4>1, <4>2
      <4>3. CASE q # a
        BY <3>1, <3>2, <3>5, <4>1, <4>3
      <4> QED  BY <4>1, <4>2, <4>3
    <3> QED  BY <3>3, <3>4, <3>5
  <2>3. ASSUME Precedes(q, j, r, k), Q[q][j][1] = Q[r][k][1], Q[q][j][1] \in Sources
        PROVE  Precedes(place[q][j], index[q][j], place[r][k], index[r][k])
    <3>1. ~(q = b /\ j = n + 1) /\ ~(r = b /\ k = n + 1)
      BY <1>3, <1>4, <2>3
    <3>2. /\ place[q][j] = q /\ index[q][j] = IF q = a THEN j + 1 ELSE j
          /\ place[r][k] = r /\ index[r][k] = IF r = a THEN k + 1 ELSE k
      BY <1>7, <2>1, <3>1
    <3> QED  BY <2>1, <2>3, <3>2 DEF Precedes
  <2> QED  BY <2>2, <2>3
<1>11. Origins(P, Q, place, index)
  BY <1>9, <1>10 DEF Origins
<1>12. FlowSound(Q, events, queries)
  BY <1>6, <1>11, Rearranged
<1>13. ASSUME NEW p \in Places, NEW i \in 1..Len(P[p])
       PROVE  \E q \in Places : \E j \in 1..Len(Q[q]) : Q[q][j] = P[p][i]
  <2>1. CASE p = a /\ i = 1
    <3>1. n + 1 \in 1..Len(Q[b])
      BY <1>3
    <3> QED  BY <1>1, <1>3, <2>1, <3>1
  <2>2. CASE p = a /\ i # 1
    BY <1>1, <1>2, <2>2
  <2>3. CASE p = b
    BY <1>1, <1>3, <2>3 DEF n
  <2>4. CASE p # a /\ p # b
    BY <2>4
  <2> QED  BY <2>1, <2>2, <2>3, <2>4
<1>14. AllKept(P, Q)
  BY <1>13 DEF AllKept
<1> QED  BY <1>12, <1>14, StillThere

(* Queues are cleared, and a message is read that asks for nothing. *)
Drops(P, Q) ==
  \A p \in Places : Q[p] \in {P[p], <<>>} \/ (P[p] # <<>> /\ Q[p] = Tail(P[p]))

LEMMA QueuesDropped ==
  ASSUME NEW P, NEW Q, NEW events, NEW queries,
         FlowSound(P, events, queries), Drops(P, Q)
  PROVE  FlowSound(Q, events, queries)
<1> USE DEF Drops
<1> DEFINE Cut(p) == P[p] # <<>> /\ Q[p] = Tail(P[p])
           place == [q \in Places |-> [j \in Nat |-> q]]
           index == [q \in Places |-> [j \in Nat |-> IF Cut(q) THEN j + 1 ELSE j]]
<1>1. FlowTyped(P) /\ \A p \in Places : P[p] \in Seq(Things)
  BY DEF FlowSound, FlowTyped
<1>2. FlowTyped(Q)
  BY <1>1, TypedAfter
<1>3. \A q \in Places : Len(Q[q]) \in Nat
  <2>1. \A q \in Places : Q[q] \in Seq(Things)
    BY <1>2 DEF FlowTyped
  <2> QED  BY <2>1, LenProperties
<1>4. \A q \in Places, j \in Nat :
        place[q][j] = q /\ index[q][j] = IF Cut(q) THEN j + 1 ELSE j
  OBVIOUS
<1> HIDE DEF place, index
<1>5. ASSUME NEW q \in Places, NEW j \in 1..Len(Q[q])
      PROVE  /\ place[q][j] \in Places /\ index[q][j] \in 1..Len(P[place[q][j]])
             /\ Q[q][j] = P[place[q][j]][index[q][j]]
  <2>1. j \in Nat
    BY <1>3
  <2>2. CASE Cut(q)
    <3>1. place[q][j] = q /\ index[q][j] = j + 1
      BY <1>4, <2>1, <2>2
    <3> DEFINE s == P[q]  t == Q[q]
    <3>2. s \in Seq(Things) /\ s # <<>> /\ t = Tail(s)
      BY <1>1, <2>2
    <3> HIDE DEF s, t
    <3>3. \A i \in 1..Len(t) : i + 1 \in 1..Len(s) /\ t[i] = s[i + 1]
      BY <3>2, Shortened
    <3> QED  BY <3>1, <3>3 DEF s, t
  <2>3. CASE ~Cut(q)
    <3>1. Q[q] = P[q]
      <4>1. Q[q] # <<>>
        OBVIOUS
      <4> QED  BY <2>3, <4>1
    <3>2. place[q][j] = q /\ index[q][j] = j
      BY <1>4, <2>1, <2>3
    <3> QED  BY <3>1, <3>2
  <2> QED  BY <2>2, <2>3
<1>6. ASSUME NEW q \in Places, NEW r \in Places, NEW j \in 1..Len(Q[q]), NEW k \in 1..Len(Q[r])
      PROVE  /\ place[q][j] = place[r][k] /\ index[q][j] = index[r][k] => q = r /\ j = k
             /\ Precedes(q, j, r, k) => Precedes(place[q][j], index[q][j], place[r][k], index[r][k])
  <2>1. j \in Nat /\ k \in Nat
    BY <1>3
  <2>2. /\ place[q][j] = q /\ index[q][j] = IF Cut(q) THEN j + 1 ELSE j
        /\ place[r][k] = r /\ index[r][k] = IF Cut(r) THEN k + 1 ELSE k
    BY <1>4, <2>1
  <2> HIDE DEF Cut
  <2> QED  BY <2>1, <2>2 DEF Precedes
<1>7. Origins(P, Q, place, index)
  <2>1. \A q, r \in Places : \A j \in 1..Len(Q[q]), k \in 1..Len(Q[r]) :
          /\ place[q][j] = place[r][k] /\ index[q][j] = index[r][k] => q = r /\ j = k
          /\ Precedes(q, j, r, k) /\ Q[q][j][1] = Q[r][k][1] /\ Q[q][j][1] \in Sources =>
               Precedes(place[q][j], index[q][j], place[r][k], index[r][k])
    BY <1>6
  <2> QED  BY <1>5, <2>1, ZenonT(40) DEF Origins
<1> QED  BY <1>2, <1>7, Rearranged

(* Terminate overtakes the frame that is being filled. *)
Overtakes(P, Q, s, t) ==
  /\ P["sent"] = s \o t /\ Q["sent"] = (s \o <<Terminate>>) \o t
  /\ \A p \in Queues : Q[p] = P[p]

LEMMA TerminateSent ==
  ASSUME NEW P, NEW Q, NEW events, NEW queries, NEW s, NEW t,
         s \in Seq(Things), t \in Seq(Things),
         FlowSound(P, events, queries), Overtakes(P, Q, s, t)
  PROVE  FlowSound(Q, events, queries) /\ (NothingLost(P, events) => NothingLost(Q, events))
<1> USE DEF Overtakes
<1> DEFINE n == Len(s)
           x == <<Terminate>>
           r == s \o x
           u == P["sent"]
           v == Q["sent"]
           place == [q \in Places |-> [j \in Nat |-> q]]
           index == [q \in Places |-> [j \in Nat |-> IF q = "sent" /\ j > n THEN j - 1 ELSE j]]
<1>1. x \in Seq(Things) /\ Len(x) = 1 /\ x[1] = Terminate
  BY DEF Things
<1>2. \A q \in Places, j \in Nat :
        place[q][j] = q /\ index[q][j] = IF q = "sent" /\ j > n THEN j - 1 ELSE j
  OBVIOUS
<1>3. /\ FlowTyped(P) /\ "sent" \in Places /\ "sent" \notin Queues
      /\ \A p \in Places : p = "sent" \/ p \in Queues
  BY DEF FlowSound, Places, Queues
<1>4. r = s \o x /\ u = s \o t /\ v = r \o t
  OBVIOUS
<1> HIDE DEF place, index, x, r, u, v, n
<1>5. /\ r \in Seq(Things) /\ n \in Nat /\ Len(t) \in Nat /\ Len(r) = n + 1
      /\ \A i \in 1..n : i \in 1..Len(r) /\ r[i] = s[i]
      /\ r[n + 1] = Terminate
  <2>1. /\ r \in Seq(Things) /\ Len(s) \in Nat /\ Len(r) = Len(s) + Len(x)
        /\ \A i \in 1..Len(s) : i \in 1..Len(r) /\ r[i] = s[i]
        /\ \A i \in 1..Len(x) : i + Len(s) \in 1..Len(r) /\ r[i + Len(s)] = x[i]
    <3>1. s \in Seq(Things) /\ x \in Seq(Things) /\ r = s \o x
      BY <1>1, <1>4
    <3> QED  BY <3>1, Joined
  <2>2. 1 \in 1..Len(x) /\ r[1 + Len(s)] = Terminate
    BY <1>1, <2>1
  <2> QED  BY <1>1, <2>1, <2>2, LenProperties DEF n
<1>6. /\ Len(u) = n + Len(t)
      /\ \A i \in 1..n : i \in 1..Len(u) /\ u[i] = s[i]
      /\ \A i \in 1..Len(t) : i + n \in 1..Len(u) /\ u[i + n] = t[i]
      /\ \A i \in 1..Len(u) : i > n => i - n \in 1..Len(t) /\ u[i] = t[i - n]
  BY <1>4, Joined DEF n
<1>7. /\ v \in Seq(Things) /\ Len(v) = n + 1 + Len(t)
      /\ \A i \in 1..n + 1 : i \in 1..Len(v) /\ v[i] = r[i]
      /\ \A i \in 1..Len(t) : i + (n + 1) \in 1..Len(v) /\ v[i + (n + 1)] = t[i]
      /\ \A i \in 1..Len(v) : i > n + 1 => i - (n + 1) \in 1..Len(t) /\ v[i] = t[i - (n + 1)]
  <2>1. /\ v \in Seq(Things) /\ Len(v) = Len(r) + Len(t)
        /\ \A i \in 1..Len(r) : i \in 1..Len(v) /\ v[i] = r[i]
        /\ \A i \in 1..Len(t) : i + Len(r) \in 1..Len(v) /\ v[i + Len(r)] = t[i]
        /\ \A i \in 1..Len(v) : i > Len(r) => i - Len(r) \in 1..Len(t) /\ v[i] = t[i - Len(r)]
    <3>1. r \in Seq(Things) /\ t \in Seq(Things) /\ v = r \o t
      BY <1>4, <1>5
    <3> QED  BY <3>1, Joined
  <2>2. Len(r) = n + 1
    BY <1>5
  <2> QED  BY <2>1, <2>2
<1>8. FlowTyped(Q)
  <2>1. \A p \in Places : Q[p] \in {P[p], <<>>} \/ (p = "sent" /\ Q[p] \in Seq(Things))
    BY <1>3, <1>7 DEF v
  <2> QED  BY <1>3, <2>1, TypedAfter
<1>9. ASSUME NEW i \in 1..Len(v), v[i] # Terminate
      PROVE  /\ i \in Nat /\ i # n + 1
             /\ i <= n => i \in 1..Len(u) /\ v[i] = u[i]
             /\ i > n => i - 1 \in 1..Len(u) /\ v[i] = u[i - 1] /\ i - 1 > n
  <2>1. i \in Nat /\ i >= 1
    BY <1>5, <1>7
  <2>2. i # n + 1
    <3>1. n + 1 \in 1..n + 1
      BY <1>5
    <3>2. v[n + 1] = Terminate
      BY <1>5, <1>7, <3>1
    <3> QED  BY <1>9, <3>2
  <2>3. ASSUME i <= n PROVE i \in 1..Len(u) /\ v[i] = u[i]
    <3>1. i \in 1..n /\ i \in 1..n + 1
      BY <1>5, <2>1, <2>3
    <3> QED  BY <1>5, <1>6, <1>7, <3>1
  <2>4. ASSUME i > n PROVE i - 1 \in 1..Len(u) /\ v[i] = u[i - 1] /\ i - 1 > n
    <3>1. i > n + 1 /\ i - 1 > n
      BY <1>5, <2>1, <2>2, <2>4
    <3>2. i - (n + 1) \in 1..Len(t) /\ v[i] = t[i - (n + 1)]
      BY <1>7, <3>1
    <3>3. i - (n + 1) + n = i - 1
      BY <1>5, <2>1
    <3>4. i - (n + 1) + n \in 1..Len(u) /\ u[i - (n + 1) + n] = t[i - (n + 1)]
      BY <1>6, <3>2
    <3> QED  BY <3>1, <3>2, <3>3, <3>4
  <2> QED  BY <2>1, <2>2, <2>3, <2>4
<1>10. \A q \in Places : Len(Q[q]) \in Nat
  <2>1. \A q \in Places : Q[q] \in Seq(Things)
    BY <1>8 DEF FlowTyped
  <2> QED  BY <2>1, LenProperties
<1>11. ASSUME NEW q \in Places, NEW j \in 1..Len(Q[q]), Q[q][j] # Terminate
       PROVE  /\ place[q][j] = q /\ index[q][j] \in 1..Len(P[q]) /\ Q[q][j] = P[q][index[q][j]]
              /\ index[q][j] = IF q = "sent" /\ j > n THEN j - 1 ELSE j
              /\ q = "sent" /\ j > n => j - 1 > n
  <2>1. j \in Nat
    BY <1>10
  <2>2. place[q][j] = q /\ index[q][j] = IF q = "sent" /\ j > n THEN j - 1 ELSE j
    BY <1>2, <2>1
  <2>3. CASE q = "sent"
    <3>1. Q[q] = v /\ P[q] = u
      BY <2>3 DEF u, v
    <3>2. CASE j <= n
      <4>1. index[q][j] = j
        BY <1>5, <2>1, <2>2, <3>2
      <4>2. ~(j > n)
        BY <1>5, <2>1, <3>2
      <4> QED  BY <1>9, <1>11, <2>2, <3>1, <3>2, <4>1, <4>2
    <3>3. CASE j > n
      <4>1. index[q][j] = j - 1
        BY <2>2, <2>3, <3>3
      <4> QED  BY <1>9, <1>11, <2>2, <2>3, <3>1, <3>3, <4>1
    <3> QED  BY <1>5, <2>1, <3>2, <3>3
  <2>4. CASE q # "sent"
    <3>1. Q[q] = P[q] /\ index[q][j] = j
      BY <1>3, <2>2, <2>4
    <3> QED  BY <2>2, <2>4, <3>1
  <2> QED  BY <2>3, <2>4
<1>12. ASSUME NEW q \in Places, NEW j \in 1..Len(Q[q]), Q[q][j] # Terminate,
              NEW o \in Places, NEW k \in 1..Len(Q[o]), Q[o][k] # Terminate
       PROVE  /\ place[q][j] = place[o][k] /\ index[q][j] = index[o][k] => q = o /\ j = k
              /\ Precedes(q, j, o, k) => Precedes(place[q][j], index[q][j], place[o][k], index[o][k])
  <2>1. j \in Nat /\ k \in Nat
    BY <1>10
  <2>2. /\ place[q][j] = q /\ index[q][j] = IF q = "sent" /\ j > n THEN j - 1 ELSE j
        /\ q = "sent" /\ j > n => j - 1 > n
    BY <1>11, <1>12
  <2>3. /\ place[o][k] = o /\ index[o][k] = IF o = "sent" /\ k > n THEN k - 1 ELSE k
        /\ o = "sent" /\ k > n => k - 1 > n
    BY <1>11, <1>12
  <2> QED  BY <1>5, <2>1, <2>2, <2>3 DEF Precedes
<1> HIDE DEF Overtakes
<1>13. Origins(P, Q, place, index)
  BY <1>11, <1>12 DEF Origins
<1> USE DEF Overtakes
<1>14. FlowSound(Q, events, queries)
  BY <1>8, <1>13, Rearranged
<1>15. ASSUME NEW p \in Places, NEW i \in 1..Len(P[p])
       PROVE  \E q \in Places : \E j \in 1..Len(Q[q]) : Q[q][j] = P[p][i]
  <2>1. CASE p = "sent"
    <3>1. P[p] = u /\ Q["sent"] = v
      BY <2>1 DEF u, v
    <3>2. CASE i \in 1..n
      <4>1. i \in 1..n + 1
        BY <1>5, <3>2
      <4> QED  BY <1>3, <1>5, <1>6, <1>7, <3>1, <3>2, <4>1, SMTT(40)
    <3>3. CASE i \notin 1..n
      <4>1. i > n
        BY <1>5, <1>6, <3>1, <3>3
      <4> DEFINE j == i - n
      <4>2. j \in 1..Len(t) /\ u[i] = t[j]
        BY <1>6, <3>1, <4>1
      <4> HIDE DEF j
      <4>3. j + (n + 1) \in 1..Len(v) /\ v[j + (n + 1)] = t[j]
        BY <1>7, <4>2
      <4> QED  BY <1>3, <3>1, <4>2, <4>3
    <3> QED  BY <3>2, <3>3
  <2>2. CASE p # "sent"
    <3>1. Q[p] = P[p]
      BY <1>3, <2>2
    <3> QED  BY <3>1
  <2> QED  BY <2>1, <2>2
<1>16. AllKept(P, Q)
  BY <1>15 DEF AllKept
<1> QED  BY <1>14, <1>16, StillThere

(* Something new comes into a queue. *)
Comes(P, Q, a, x) ==
  /\ FlowTyped(Q)
  /\ Q[a] = Append(P[a], x)
  /\ \A p \in Places \ {a} : Q[p] = P[p]

IsNew(x, a, events, queries, events1, queries1) ==
  /\ queries \subseteq queries1
  /\ events \in [Sources -> Nat] /\ events1 \in [Sources -> Nat]
  /\ \A s \in Sources : events[s] <= events1[s]
  /\ x # Terminate
  /\ x[1] \in Sources => x[2] = events[x[1]] + 1 /\ x[2] <= events1[x[1]] /\ x[1] = a
  /\ x[1] = "answer" => x[2] \in queries1 \ queries

LEMMA Added ==
  ASSUME NEW P, NEW Q, NEW events, NEW queries, NEW events1, NEW queries1, NEW a, NEW x,
         a \in Queues, x \in Things,
         FlowSound(P, events, queries), Comes(P, Q, a, x),
         IsNew(x, a, events, queries, events1, queries1)
  PROVE  /\ FlowSound(Q, events1, queries1)
         /\ AllKept(P, Q)
         /\ \E i \in 1..Len(Q[a]) : Q[a][i] = x
<1> DEFINE n == Len(P[a])  s == P[a]  u == Q[a]
<1> USE DEF Comes, IsNew
<1>1. FlowTyped(P) /\ NothingTwice(P) /\ InOrder(P) /\ NothingForeign(P, events, queries)
  BY DEF FlowSound
<1>2. a \in Places /\ a # "sent" /\ s \in Seq(Things) /\ u = Append(s, x)
  BY <1>1 DEF FlowTyped, Places, Queues
<1>3. /\ n \in Nat /\ Len(Q[a]) = n + 1 /\ Q[a][n + 1] = x
      /\ \A i \in 1..n : i \in 1..Len(Q[a]) /\ Q[a][i] = P[a][i]
      /\ \A i \in 1..Len(Q[a]) : i # n + 1 => i \in 1..n
  <2> HIDE DEF s, u
  <2>1. /\ Len(s) \in Nat /\ Len(u) = Len(s) + 1 /\ u[Len(u)] = x
        /\ \A i \in 1..Len(s) : i \in 1..Len(u) /\ u[i] = s[i]
        /\ \A i \in 1..Len(u) : i # Len(u) => i \in 1..Len(s)
    BY <1>2, Lengthened
  <2> QED  BY <2>1 DEF s, u
<1> HIDE DEF n, s, u
<1>4. ASSUME NEW q \in Places, NEW j \in 1..Len(Q[q]), ~(q = a /\ j = n + 1)
      PROVE  j \in 1..Len(P[q]) /\ Q[q][j] = P[q][j]
  <2>1. CASE q = a
    BY <1>3, <1>4, <2>1 DEF n
  <2>2. CASE q # a
    <3>1. Q[q] = P[q]
      BY <2>2
    <3> QED  BY <3>1
  <2> QED  BY <2>1, <2>2
<1>5. ASSUME NEW p \in Places, NEW i \in 1..Len(P[p])
      PROVE  P[p][i] # x
  <2>1. /\ P[p][i][1] \in Sources => P[p][i][2] <= events[P[p][i][1]]
        /\ P[p][i][1] = "answer" => P[p][i][2] \in queries
    BY <1>1 DEF NothingForeign
  <2>2. x = Terminate \/ x[1] = "answer" \/ x[1] \in Sources
    BY ThingIs
  <2>3. CASE x[1] = "answer"
    BY <2>1, <2>3
  <2>4. CASE x[1] \in Sources
    <3>1. x[2] = events[x[1]] + 1 /\ events[x[1]] \in Nat
      BY <2>4
    <3>2. ~(x[2] <= events[x[1]])
      BY <3>1
    <3> QED  BY <2>1, <2>4, <3>2
  <2> QED  BY <2>2, <2>3, <2>4
<1>6. NothingTwice(Q)
  <2> SUFFICES ASSUME NEW q \in Places, NEW r \in Places,
                      NEW j \in 1..Len(Q[q]), NEW k \in 1..Len(Q[r]),
                      Q[q][j] = Q[r][k], Q[q][j] # Terminate
               PROVE  q = r /\ j = k
    BY DEF NothingTwice
  <2>1. CASE q = a /\ j = n + 1
    BY <1>3, <1>4, <1>5, <2>1, SMTT(40)
  <2>2. CASE r = a /\ k = n + 1
    BY <1>3, <1>4, <1>5, <2>2, SMTT(40)
  <2>3. CASE ~(q = a /\ j = n + 1) /\ ~(r = a /\ k = n + 1)
    <3>1. /\ j \in 1..Len(P[q]) /\ Q[q][j] = P[q][j]
          /\ k \in 1..Len(P[r]) /\ Q[r][k] = P[r][k]
      BY <1>4, <2>3
    <3>2. P[q][j] = P[r][k] /\ P[q][j] # Terminate
      BY <3>1
    <3> QED  BY <1>1, <3>1, <3>2 DEF NothingTwice
  <2> QED  BY <2>1, <2>2, <2>3
<1>7. InOrder(Q)
  <2> SUFFICES ASSUME NEW q \in Places, NEW r \in Places,
                      NEW j \in 1..Len(Q[q]), NEW k \in 1..Len(Q[r]),
                      Precedes(q, j, r, k), Q[q][j][1] = Q[r][k][1], Q[q][j][1] \in Sources
               PROVE  Q[q][j][2] < Q[r][k][2]
    BY DEF InOrder
  <2>1. CASE q = a /\ j = n + 1
    <3>1. r = a /\ k > n + 1
      BY <1>2, <2>1 DEF Precedes
    <3>2. k \in 1..(n + 1) /\ n \in Nat
      BY <1>3, <3>1
    <3> QED  BY <3>1, <3>2
  <2>2. CASE ~(q = a /\ j = n + 1) /\ r = a /\ k = n + 1
    <3>1. j \in 1..Len(P[q]) /\ Q[q][j] = P[q][j]
      BY <1>4, <2>2
    <3>2. Q[r][k] = x
      BY <1>3, <2>2
    <3>3. x[1] \in Sources /\ P[q][j][1] = x[1]
      BY <3>1, <3>2
    <3>4. P[q][j][2] <= events[x[1]]
      BY <1>1, <3>1, <3>3 DEF NothingForeign
    <3>5. P[q] \in Seq(Things)
      BY <1>1 DEF FlowTyped
    <3>6. P[q][j] \in Things
      BY <3>1, <3>5, ElementOfSeq
    <3>7. P[q][j][2] \in Nat
      <4>1. P[q][j] # Terminate /\ P[q][j][1] # "answer"
        BY <3>3 DEF Terminate, Sources
      <4> QED  BY <3>6, <4>1, ThingIs
    <3>8. x[2] = events[x[1]] + 1 /\ events[x[1]] \in Nat
      BY <3>3
    <3> QED  BY <3>1, <3>2, <3>4, <3>7, <3>8
  <2>3. CASE ~(q = a /\ j = n + 1) /\ ~(r = a /\ k = n + 1)
    <3>1. /\ j \in 1..Len(P[q]) /\ Q[q][j] = P[q][j]
          /\ k \in 1..Len(P[r]) /\ Q[r][k] = P[r][k]
      BY <1>4, <2>3
    <3>2. P[q][j][1] = P[r][k][1] /\ P[q][j][1] \in Sources
      BY <3>1
    <3>3. P[q][j][2] < P[r][k][2]
      BY <1>1, <3>1, <3>2 DEF InOrder
    <3> QED  BY <3>1, <3>3
  <2> QED  BY <2>1, <2>2, <2>3
<1>8. NothingForeign(Q, events1, queries1)
  <2> SUFFICES ASSUME NEW q \in Places, NEW j \in 1..Len(Q[q])
               PROVE  /\ Q[q][j][1] \in Sources => Q[q][j][2] <= events1[Q[q][j][1]]
                      /\ Q[q][j][1] = "answer" => Q[q][j][2] \in queries1
    BY DEF NothingForeign
  <2>1. CASE q = a /\ j = n + 1
    BY <1>3, <2>1
  <2>2. CASE ~(q = a /\ j = n + 1)
    <3>1. j \in 1..Len(P[q]) /\ Q[q][j] = P[q][j]
      BY <1>4, <2>2
    <3>2. /\ P[q][j][1] \in Sources => P[q][j][2] <= events[P[q][j][1]]
          /\ P[q][j][1] = "answer" => P[q][j][2] \in queries
      BY <1>1, <3>1 DEF NothingForeign
    <3>3. ASSUME P[q][j][1] \in Sources PROVE P[q][j][2] <= events1[P[q][j][1]]
      <4>1. P[q] \in Seq(Things)
        BY <1>1 DEF FlowTyped
      <4>2. P[q][j] \in Things
        BY <3>1, <4>1, ElementOfSeq
      <4>3. P[q][j] # Terminate /\ P[q][j][1] # "answer"
        BY <3>3 DEF Terminate, Sources
      <4>4. P[q][j][2] \in Nat
        BY <4>2, <4>3, ThingIs
      <4>5. /\ events[P[q][j][1]] <= events1[P[q][j][1]]
            /\ events[P[q][j][1]] \in Nat /\ events1[P[q][j][1]] \in Nat
        BY <3>3
      <4> QED  BY <3>2, <3>3, <4>4, <4>5
    <3> QED  BY <3>1, <3>2, <3>3
  <2> QED  BY <2>1, <2>2
<1>9. AllKept(P, Q)
  <2> SUFFICES ASSUME NEW p \in Places, NEW i \in 1..Len(P[p])
               PROVE  \E q \in Places : \E j \in 1..Len(Q[q]) : Q[q][j] = P[p][i]
    BY DEF AllKept
  <2>1. CASE p = a
    BY <1>3, <2>1 DEF n
  <2>2. CASE p # a
    <3>1. Q[p] = P[p]
      BY <2>2
    <3> QED  BY <3>1
  <2> QED  BY <2>1, <2>2
<1>10. \E i \in 1..Len(Q[a]) : Q[a][i] = x
  <2>1. n + 1 \in 1..Len(Q[a])
    BY <1>3
  <2> QED  BY <1>3, <2>1
<1> QED  BY <1>6, <1>7, <1>8, <1>9, <1>10 DEF FlowSound

-------------------------------------------------------------------------------
(* The types, and where the threads are. *)

LEMMA TypeInit == Init => TypeInv
BY DEF Init, TypeInv, Producers, Sources

LEMMA TypeStep == TypeInv /\ PlaceInv /\ [Next]_vars => TypeInv'
<1> SUFFICES ASSUME TypeInv, PlaceInv, [Next]_vars PROVE TypeInv'
  OBVIOUS
<1> USE DEF TypeInv
<1> DEFINE Typed == UNCHANGED <<emitted, asked, symbolQueue, inbox, lfq>>
<1>1. ASSUME NEW source \in Sources, Emit(source) PROVE TypeInv'
  <2>1. emitted[source] \in Nat /\ emitted' \in [Sources -> Nat]
    BY <1>1 DEF Emit
  <2>2. lfq' \in [Producers -> Seq(Things)]
    <3>1. CASE source = "serial"
      BY <1>1, <3>1 DEF Emit
    <3>2. CASE source = "app"
      <4> DEFINE event == Event(source, emitted[source] + 1)
      <4>1. event \in Things
        <5>1. emitted[source] + 1 \in Nat \ {0}
          BY <2>1
        <5> QED  BY <3>2, <5>1 DEF Things, EventsOf
      <4>2. lfq' = [lfq EXCEPT ![source] = Append(@, event)]
        BY <1>1, <3>2 DEF Emit
      <4> HIDE DEF event
      <4>3. source \in Producers /\ Append(lfq[source], event) \in Seq(Things)
        BY <3>2, <4>1 DEF Producers
      <4> QED  BY <4>2, <4>3
    <3> QED  BY <3>1, <3>2 DEF Sources
  <2> QED  BY <1>1, <2>1, <2>2 DEF Emit, server, connection
<1>2. CASE BeginShutdown \/ Destructor
  <2>1. Typed
    BY <1>2 DEF BeginShutdown, Destructor, JoinSymbolWorker, JoinWorker, queues, server, connection
  <2> QED  BY <2>1
<1>3. CASE SymbolTest
  <2>1. Typed
    BY <1>3 DEF SymbolTest, programVars, queues, server, connection
  <2> QED  BY <2>1
<1>4. ASSUME NEW p \in Producers, symbolQueue # <<>>,
             lfq' = [lfq EXCEPT ![p] = Append(@, Answer(Head(symbolQueue)))]
      PROVE  lfq' \in [Producers -> Seq(Things)]
  <2> DEFINE answer == Answer(Head(symbolQueue))
  <2>1. answer \in Things
    <3>1. Head(symbolQueue) \in Messages
      BY <1>4 DEF Messages
    <3> QED  BY <3>1 DEF Things
  <2> HIDE DEF answer
  <2>2. Append(lfq[p], answer) \in Seq(Things)
    BY <2>1
  <2> QED  BY <1>4, <2>2 DEF answer
<1>5. CASE SymbolFront
  <2>1. UNCHANGED <<emitted, asked, symbolQueue, inbox>>
    BY <1>5 DEF SymbolFront, programVars, server, connection
  <2>2. lfq' \in [Producers -> Seq(Things)]
    <3>1. CASE symbolQueue = <<>>
      BY <1>5, <3>1 DEF SymbolFront
    <3>2. CASE symbolQueue # <<>>
      <4>1. lfq' = [lfq EXCEPT !["symbol"] = Append(@, Answer(Head(symbolQueue)))]
        BY <1>5, <3>2 DEF SymbolFront
      <4>2. "symbol" \in Producers
        BY DEF Producers
      <4> QED  BY <1>4, <3>2, <4>1, <4>2
    <3> QED  BY <3>1, <3>2
  <2> QED  BY <2>1, <2>2
<1>6. CASE SymbolPop
  <2>1. UNCHANGED <<emitted, asked, inbox, lfq>> /\ symbolQueue' = Tail(symbolQueue)
    BY <1>6 DEF SymbolPop, programVars, server, connection
  <2>2. symbolQueue # <<>>
    BY <1>6 DEF SymbolPop, PlaceInv, InPop
  <2>3. Tail(symbolQueue) \in Seq(Queries)
    BY <2>2
  <2> QED  BY <2>1, <2>3
<1>7. CASE Deaf \/ RejectTest \/ Discard
  <2>1. UNCHANGED <<emitted, asked, symbolQueue, inbox>> /\ lfq' \in {lfq, [p \in Producers |-> <<>>]}
    BY <1>7 DEF Deaf, RejectTest, Discard, ClearQueues, queues, programVars, server, connection
  <2>2. <<>> \in Seq(Things)
    OBVIOUS
  <2> QED  BY <2>1, <2>2
<1>8. CASE AcceptTest \/ Accept \/ RejectAccept
  <2>1. Typed
    BY <1>8 DEF AcceptTest, Accept, RejectAccept, queues, programVars, server, connection
  <2> QED  BY <2>1
<1>9. CASE Handshake \/ TurnAway \/ LeaveMain
  <2>1. UNCHANGED <<emitted, asked, symbolQueue, lfq>> /\ inbox' \in {inbox, <<>>}
    BY <1>9 DEF Handshake, TurnAway, LeaveMain, CloseSocket, queues, programVars, server,
                connection
  <2>2. <<>> \in Seq(Messages)
    OBVIOUS
  <2> QED  BY <2>1, <2>2
<1>10. CASE Dequeue
  <2>1. UNCHANGED <<emitted, asked, symbolQueue, inbox>>
    BY <1>10 DEF Dequeue, programVars, server, connection
  <2>2. \/ UNCHANGED lfq
        \/ \E p \in Producers : lfq' = [lfq EXCEPT ![p] = <<>>]
    BY <1>10 DEF Dequeue
  <2>3. <<>> \in Seq(Things)
    OBVIOUS
  <2>4. lfq' \in [Producers -> Seq(Things)]
    BY <2>2, <2>3
  <2> QED  BY <2>1, <2>4
<1>11. CASE DequeueSerial
  <2>1. Typed
    BY <1>11 DEF DequeueSerial, programVars, server, connection
  <2> QED  BY <2>1
<1>12. CASE SettleMain \/ SettleDrain \/ SettleFinal \/ SettleDisconnect \/ SendTerminate
            \/ WaitForSymbolWorker \/ NoQuery \/ ReadFails
  <2>1. Typed
    BY <1>12 DEF SettleMain, SettleDrain, SettleFinal, SettleDisconnect, SendTerminate,
                 WaitForSymbolWorker, NoQuery, ReadFails, queues, programVars, server, connection
  <2> QED  BY <2>1
<1>13. ASSUME NEW m, Reads(m)
       PROVE  /\ UNCHANGED <<emitted, asked, lfq>> /\ inbox' \in Seq(Messages)
              /\ inbox # <<>> /\ m = Head(inbox)
  <2>1. UNCHANGED <<emitted, asked, lfq>> /\ inbox' = Tail(inbox) /\ inbox # <<>> /\ m = Head(inbox)
    BY <1>13 DEF Reads, programVars, server
  <2>2. Tail(inbox) \in Seq(Messages)
    BY <2>1
  <2> QED  BY <2>1, <2>2
<1>14. ASSUME NEW query \in Fast, FastQuery(query) PROVE TypeInv'
  BY <1>13, <1>14 DEF FastQuery
<1>15. ASSUME NEW query \in Slow, SlowQuery(query) PROVE TypeInv'
  <2>1. symbolQueue' = Append(symbolQueue, query) /\ query \in Queries
    BY <1>15 DEF SlowQuery, Queries
  <2>2. symbolQueue' \in Seq(Queries)
    BY <2>1
  <2> QED  BY <1>13, <1>15, <2>2 DEF SlowQuery
<1>16. CASE TerminateQuery \/ DisconnectQuery
  BY <1>13, <1>16 DEF TerminateQuery, DisconnectQuery
<1>17. CASE WorkerFront
  <2>1. UNCHANGED <<emitted, asked, symbolQueue, inbox>>
    BY <1>17 DEF WorkerFront, programVars, server, connection
  <2>2. lfq' \in [Producers -> Seq(Things)]
    <3>1. CASE symbolQueue = <<>>
      BY <1>17, <3>1 DEF WorkerFront
    <3>2. CASE symbolQueue # <<>>
      <4>1. lfq' = [lfq EXCEPT !["worker"] = Append(@, Answer(Head(symbolQueue)))]
        BY <1>17, <3>2 DEF WorkerFront
      <4>2. "worker" \in Producers
        BY DEF Producers
      <4> QED  BY <1>4, <3>2, <4>1, <4>2
    <3> QED  BY <3>1, <3>2
  <2> QED  BY <2>1, <2>2
<1>18. CASE WorkerPop
  <2>1. UNCHANGED <<emitted, asked, inbox, lfq>> /\ symbolQueue' = Tail(symbolQueue)
    BY <1>18 DEF WorkerPop, programVars, server, connection
  <2>2. symbolQueue # <<>>
    BY <1>18 DEF WorkerPop, PlaceInv, InPop
  <2>3. Tail(symbolQueue) \in Seq(Queries)
    BY <2>2
  <2> QED  BY <2>1, <2>3
<1>19. CASE Connect \/ Leave
  <2>1. Typed
    BY <1>19 DEF Connect, Leave, queues, programVars, server
  <2> QED  BY <2>1
<1>20. ASSUME NEW query \in Queries \union {"Disconnect"}, Ask(query) PROVE TypeInv'
  <2>1. /\ UNCHANGED <<emitted, symbolQueue, lfq>> /\ asked' = asked \union {query}
        /\ inbox' = Append(inbox, query) /\ query \in Messages
    BY <1>20 DEF Ask, queues, programVars, Messages
  <2>2. inbox' \in Seq(Messages)
    BY <2>1
  <2> QED  BY <2>1, <2>2
<1>21. CASE Finish
  <2>1. /\ UNCHANGED <<emitted, symbolQueue, lfq, asked>>
        /\ inbox' = Append(inbox, "Terminate") /\ "Terminate" \in Messages
    BY <1>21 DEF Finish, queues, programVars, Messages
  <2>2. inbox' \in Seq(Messages)
    BY <2>1
  <2> QED  BY <2>1, <2>2
<1>22. CASE UNCHANGED vars
  BY <1>22 DEF vars, queues, programVars, server, connection
<1> QED
  BY <1>1, <1>2, <1>3, <1>5, <1>6, <1>7, <1>8, <1>9, <1>10, <1>11, <1>12, <1>14, <1>15, <1>16,
     <1>17, <1>18, <1>19, <1>20, <1>21, <1>22 DEF Next, Program, SymbolWorker, Worker, Server

LEMMA PlaceInit == Init => PlaceInv
<1> SUFFICES ASSUME Init PROVE PlaceInv
  OBVIOUS
<1>1. shutdown = (app # "running")
  BY DEF Init
<1>2. \A i \in 1..Len(inbox) : inbox[i] \in asked \union {"Terminate"}
  BY DEF Init
<1>3. ~disconnecting /\ worker \in {"accept", "deaf"} /\ loop = "comm" /\ symbolWorker = "test"
  BY DEF Init
<1>4. peer # "open"
  BY DEF Init
<1> QED  BY <1>1, <1>2, <1>3, <1>4 DEF PlaceInv, InPop

LEMMA PlaceStep == LoopInv /\ TypeInv /\ PlaceInv /\ [Next]_vars => PlaceInv'
<1> SUFFICES ASSUME LoopInv, TypeInv, PlaceInv, [Next]_vars PROVE PlaceInv'
  OBVIOUS
<1> DEFINE Asked == \A i \in 1..Len(inbox) : inbox[i] \in asked \union {"Terminate"}
           Rest == /\ shutdown = (app # "running")
                   /\ (worker = "waiting" \/ loop # "comm") => shutdown
                   /\ peer = "open" => worker \notin {"deaf", "reject", "rejecting", "turning away"}
                   /\ (worker = "clear" \/ disconnecting) => Disconnected
                   /\ InPop => symbolQueue # <<>>
<1>1. Asked /\ Rest /\ (Asked' /\ Rest' => PlaceInv')
  BY DEF PlaceInv
<1>2. UNCHANGED <<inbox, asked>> => Asked'
  BY <1>1
<1>3. inbox' = <<>> => Asked'
  OBVIOUS
<1>4. UNCHANGED <<inbox, asked>> => Disconnected' = Disconnected
  BY DEF Disconnected
<1> HIDE DEF Asked
<1> USE DEF LoopInv, InPop
<1>5. CASE Program \/ Destructor
  <2>1. UNCHANGED <<inbox, asked, symbolQueue>>
    BY <1>5 DEF Program, Destructor, Emit, BeginShutdown, JoinSymbolWorker, JoinWorker,
                connection, server, queues
  <2> QED
    BY <1>1, <1>2, <1>4, <1>5, <2>1 DEF Program, Destructor, Emit, BeginShutdown,
       JoinSymbolWorker, JoinWorker, control, symbolVars, connection
<1>6. CASE SymbolWorker
  <2>1. UNCHANGED <<inbox, asked>>
    BY <1>6 DEF SymbolWorker, SymbolTest, SymbolFront, SymbolPop, connection, server
  <2> QED
    BY <1>1, <1>2, <1>4, <1>6, <2>1 DEF SymbolWorker, SymbolTest, SymbolFront, SymbolPop,
       control, programVars, connection, queues
<1>7. CASE Deaf \/ AcceptTest \/ Accept \/ RejectTest \/ RejectAccept
  <2>1. UNCHANGED <<inbox, asked, symbolQueue>>
    BY <1>7 DEF Deaf, AcceptTest, Accept, RejectTest, RejectAccept, connection, server, queues
  <2> QED
    BY <1>1, <1>2, <1>4, <1>7, <2>1 DEF Deaf, AcceptTest, Accept, RejectTest, RejectAccept,
       Return, Goto, control, programVars, symbolVars, connection
<1>8. CASE Handshake \/ TurnAway \/ LeaveMain
  <2>1. UNCHANGED <<asked, symbolQueue>> /\ (inbox' = inbox \/ inbox' = <<>>)
    BY <1>8 DEF Handshake, TurnAway, LeaveMain, CloseSocket, connection, server, queues
  <2>2. Disconnected' = Disconnected
    BY <2>1 DEF Disconnected
  <2> QED
    BY <1>1, <1>2, <1>3, <1>8, <2>1, <2>2 DEF Handshake, TurnAway, LeaveMain, CloseSocket, Goto,
       programVars, symbolVars, connection
<1>9. CASE Dequeue \/ DequeueSerial
  <2>1. UNCHANGED <<inbox, asked, symbolQueue>>
    BY <1>9 DEF Dequeue, DequeueSerial, connection, server
  <2> QED
    BY <1>1, <1>2, <1>4, <1>9, <2>1 DEF Dequeue, DequeueSerial, programVars, symbolVars,
       connection
<1>10. CASE SettleMain \/ SettleDrain \/ SettleFinal \/ SettleDisconnect
  <2>1. UNCHANGED <<inbox, asked, symbolQueue>>
    BY <1>10 DEF SettleMain, SettleDrain, SettleFinal, SettleDisconnect, connection, server, queues
  <2> QED
    BY <1>1, <1>2, <1>4, <1>10, <2>1 DEF SettleMain, SettleDrain, SettleFinal, SettleDisconnect,
       Refused, Return, Goto, programVars, symbolVars, connection
<1>11. CASE WaitForSymbolWorker \/ SendTerminate \/ NoQuery \/ ReadFails \/ Discard
  <2>1. UNCHANGED <<inbox, asked, symbolQueue>>
    BY <1>11 DEF WaitForSymbolWorker, SendTerminate, NoQuery, ReadFails, Discard, connection,
                 server, queues
  <2> QED
    BY <1>1, <1>2, <1>4, <1>11, <2>1 DEF WaitForSymbolWorker, SendTerminate, NoQuery, ReadFails,
       Discard, Refused, Goto, programVars, symbolVars, connection
<1>12. ASSUME NEW m, Reads(m)
       PROVE  /\ Asked' /\ UNCHANGED <<asked, programVars, symbolVars, peer>>
              /\ worker = "query" /\ m \in asked \union {"Terminate"}
  <2>1. /\ inbox' = Tail(inbox) /\ inbox # <<>> /\ m = Head(inbox) /\ worker = "query"
        /\ UNCHANGED <<asked, programVars, symbolVars, peer>>
    BY <1>12 DEF Reads, server
  <2>2. \A i \in 1..Len(inbox) : inbox[i] \in asked \union {"Terminate"}
    BY <1>1 DEF Asked
  <2>3. inbox \in Seq(Messages)
    BY DEF TypeInv
  <2>4. /\ Len(Tail(inbox)) = Len(inbox) - 1 /\ Len(inbox) \in Nat
        /\ \A i \in 1..Len(Tail(inbox)) : Tail(inbox)[i] = inbox[i + 1]
    BY <2>1, <2>3, HeadTailProperties, LenProperties
  <2>5. \A i \in 1..Len(Tail(inbox)) : Tail(inbox)[i] \in asked \union {"Terminate"}
    BY <2>2, <2>4
  <2>6. Len(inbox) > 0 /\ Head(inbox) = inbox[1]
    BY <2>1, <2>3
  <2>7. m \in asked \union {"Terminate"}
    BY <2>1, <2>2, <2>4, <2>6
  <2> QED  BY <2>1, <2>5, <2>7 DEF Asked
<1>13. ASSUME NEW query \in Fast, FastQuery(query) PROVE PlaceInv'
  BY <1>1, <1>12, <1>13 DEF FastQuery, control, programVars, symbolVars, Disconnected
<1>14. ASSUME NEW query \in Slow, SlowQuery(query) PROVE PlaceInv'
  <2>1. symbolQueue' = Append(symbolQueue, query)
    BY <1>14 DEF SlowQuery
  <2>2. symbolQueue \in Seq(Queries) /\ query \in Queries
    BY DEF TypeInv, Queries
  <2>3. symbolQueue' # <<>>
    BY <2>1, <2>2, AppendProperties
  <2> QED  BY <1>1, <1>12, <1>14, <2>3 DEF SlowQuery, control, programVars, symbolVars, Disconnected
<1>15. CASE TerminateQuery
  BY <1>1, <1>12, <1>15 DEF TerminateQuery, Refused, Goto, programVars, symbolVars, Disconnected
<1>16. CASE DisconnectQuery
  <2>1. Disconnected'
    BY <1>12, <1>16 DEF DisconnectQuery, Disconnected
  <2> QED  BY <1>1, <1>12, <1>16, <2>1 DEF DisconnectQuery, Refused, programVars, symbolVars
<1>17. CASE WorkerFront \/ WorkerPop
  <2>1. UNCHANGED <<inbox, asked>>
    BY <1>17 DEF WorkerFront, WorkerPop, connection, server
  <2> QED
    BY <1>1, <1>2, <1>4, <1>17, <2>1 DEF WorkerFront, WorkerPop, Goto, programVars, symbolVars,
       connection
<1>18. CASE Connect \/ Leave
  <2>1. UNCHANGED <<inbox, asked, symbolQueue>>
    BY <1>18 DEF Connect, Leave, server, queues
  <2> QED
    BY <1>1, <1>2, <1>4, <1>18, <2>1 DEF Connect, Leave, control, programVars, symbolVars
<1>19. ASSUME NEW query \in Queries \union {"Disconnect", "Terminate"},
              inbox' = Append(inbox, query), asked \subseteq asked',
              query \in asked' \union {"Terminate"}
       PROVE  Asked'
  <2>1. inbox \in Seq(Messages) /\ query \in Messages
    BY DEF TypeInv, Messages
  <2>2. \A i \in 1..Len(inbox') : (i \in 1..Len(inbox) /\ inbox'[i] = inbox[i]) \/ inbox'[i] = query
    <3>1. /\ Len(inbox) \in Nat /\ Len(inbox') = Len(inbox) + 1
          /\ \A i \in 1..Len(inbox) : inbox'[i] = inbox[i]
          /\ inbox'[Len(inbox) + 1] = query
      BY <1>19, <2>1, AppendProperties, LenProperties
    <3> QED  BY <3>1
  <2>3. \A i \in 1..Len(inbox) : inbox[i] \in asked \union {"Terminate"}
    BY <1>1 DEF Asked
  <2>4. \A i \in 1..Len(inbox') : inbox'[i] \in asked' \union {"Terminate"}
    BY <1>19, <2>2, <2>3
  <2> QED  BY <2>4 DEF Asked
<1>20. ASSUME NEW query \in Queries \union {"Disconnect"}, Ask(query) PROVE PlaceInv'
  <2>1. /\ inbox' = Append(inbox, query) /\ asked' = asked \union {query}
        /\ UNCHANGED <<programVars, symbolVars, queues, control, peer>>
    BY <1>20 DEF Ask
  <2>2. Asked'
    BY <1>19, <2>1
  <2>3. Disconnected => Disconnected'
    BY <2>1 DEF Disconnected
  <2> QED  BY <1>1, <2>1, <2>2, <2>3 DEF programVars, symbolVars, queues, control
<1>21. CASE Finish
  <2>1. /\ inbox' = Append(inbox, "Terminate") /\ asked' = asked
        /\ UNCHANGED <<programVars, symbolVars, queues, control, peer>>
    BY <1>21 DEF Finish
  <2>2. Asked'
    BY <1>19, <2>1
  <2>3. Disconnected => Disconnected'
    BY <2>1 DEF Disconnected
  <2> QED  BY <1>1, <2>1, <2>2, <2>3 DEF programVars, symbolVars, queues, control
<1>22. CASE UNCHANGED vars
  BY <1>1, <1>2, <1>4, <1>22 DEF vars, programVars, symbolVars, queues, control, server, connection
<1> QED
  BY <1>5, <1>6, <1>7, <1>8, <1>9, <1>10, <1>11, <1>13, <1>14, <1>15, <1>16, <1>17, <1>18, <1>20,
     <1>21, <1>22 DEF Next, Worker, Server

-------------------------------------------------------------------------------
(* The steps, as they change what flows. *)

LEMMA FlowIs ==
  /\ Flow["sent"] = Sent /\ Flow["serial"] = serialQueue
  /\ \A p \in Producers : Flow[p] = lfq[p] /\ p \in Queues /\ p # "serial"
  /\ Flow["unanswered"] = Answers(Unanswered) /\ Flow["inbox"] = Answers(inbox)
BY DEF Flow, Places, Queues, Producers

LEMMA FlowIsNext ==
  /\ Flow'["sent"] = Sent' /\ Flow'["serial"] = serialQueue'
  /\ \A p \in Producers : Flow'[p] = lfq'[p]
  /\ Flow'["unanswered"] = Answers(Unanswered') /\ Flow'["inbox"] = Answers(inbox')
BY DEF Flow, Places, Queues, Producers, Answers, Answer

LEMMA PlacesAre ==
  /\ Places = {"sent", "app", "serial", "symbol", "worker", "unanswered", "inbox"}
  /\ Producers = {"app", "symbol", "worker"} /\ Sources = {"app", "serial"}
BY DEF Places, Queues, Producers, Sources

LEMMA AnswersAre ==
  ASSUME NEW s \in Seq(Messages)
  PROVE  /\ Answers(s) \in Seq(Things) /\ Len(Answers(s)) = Len(s)
         /\ Answers(s) = <<>> <=> s = <<>>
         /\ \A i \in 1..Len(s) : Answers(s)[i] = Answer(s[i])
<1>1. Len(s) \in Nat /\ \A i \in 1..Len(s) : s[i] \in Messages
  OBVIOUS
<1>2. \A i \in 1..Len(s) : Answer(s[i]) \in Things
  BY <1>1 DEF Things
<1>3. Answers(s) \in [1..Len(s) -> Things]
  BY <1>2 DEF Answers
<1>4. Answers(s) \in Seq(Things) /\ Len(Answers(s)) = Len(s)
  BY <1>1, <1>3
<1>5. Answers(s) = <<>> <=> s = <<>>
  BY <1>4, EmptySeq
<1>6. \A i \in 1..Len(s) : Answers(s)[i] = Answer(s[i])
  BY DEF Answers
<1> QED  BY <1>4, <1>5, <1>6

LEMMA AnswersTail ==
  ASSUME NEW s \in Seq(Messages), s # <<>>
  PROVE  Answers(Tail(s)) = Tail(Answers(s)) /\ Head(Answers(s)) = Answer(Head(s))
<1> DEFINE t == Tail(s)  a == Answers(s)  b == Answers(t)  c == Tail(a)
<1>1. /\ t \in Seq(Messages) /\ Len(t) = Len(s) - 1 /\ Len(s) \in Nat /\ Len(s) >= 1
      /\ \A i \in 1..Len(t) : t[i] = s[i + 1]
  BY HeadTailProperties, LenProperties
<1>2. /\ a \in Seq(Things) /\ Len(a) = Len(s) /\ a # <<>>
      /\ \A i \in 1..Len(s) : a[i] = Answer(s[i])
  BY AnswersAre
<1> HIDE DEF a, t
<1>3. /\ b \in Seq(Things) /\ Len(b) = Len(t) /\ \A i \in 1..Len(t) : b[i] = Answer(t[i])
  BY <1>1, AnswersAre
<1> HIDE DEF b
<1>4. /\ c \in Seq(Things) /\ Len(c) = Len(a) - 1 /\ \A i \in 1..Len(c) : c[i] = a[i + 1]
  BY <1>2, HeadTailProperties
<1> HIDE DEF c
<1>5. Len(c) = Len(b)
  BY <1>1, <1>2, <1>3, <1>4
<1>6. \A i \in 1..Len(b) : b[i] = c[i]
  <2> SUFFICES ASSUME NEW i \in 1..Len(b) PROVE b[i] = c[i]
    OBVIOUS
  <2>1. i \in 1..Len(t) /\ i \in 1..Len(c) /\ i + 1 \in 1..Len(s)
    BY <1>1, <1>3, <1>5
  <2>2. b[i] = Answer(s[i + 1]) /\ c[i] = Answer(s[i + 1])
    BY <1>1, <1>2, <1>3, <1>4, <2>1
  <2> QED  BY <2>2
<1>7. b = c
  BY <1>3, <1>4, <1>5, <1>6, SeqEqual
<1>8. Head(a) = Answer(Head(s))
  <2>1. Head(a) = a[1] /\ Head(s) = s[1] /\ 1 \in 1..Len(s)
    BY <1>1, <1>2
  <2> QED  BY <1>2, <2>1
<1> QED  BY <1>7, <1>8 DEF a, b, c, t

LEMMA AnswersAppend ==
  ASSUME NEW s \in Seq(Messages), NEW m \in Messages
  PROVE  Answers(Append(s, m)) = Append(Answers(s), Answer(m))
<1> DEFINE t == Append(s, m)  a == Answers(s)  b == Answers(t)  x == Answer(m)  c == Append(a, x)
<1>1. /\ t \in Seq(Messages) /\ Len(t) = Len(s) + 1 /\ Len(s) \in Nat
      /\ \A i \in 1..Len(s) : t[i] = s[i]
      /\ t[Len(s) + 1] = m
  BY AppendProperties, LenProperties
<1>2. x \in Things
  BY DEF Things
<1>3. /\ a \in Seq(Things) /\ Len(a) = Len(s) /\ \A i \in 1..Len(s) : a[i] = Answer(s[i])
  BY AnswersAre
<1> HIDE DEF a, t, x
<1>4. /\ b \in Seq(Things) /\ Len(b) = Len(t) /\ \A i \in 1..Len(t) : b[i] = Answer(t[i])
  BY <1>1, AnswersAre
<1> HIDE DEF b
<1>5. /\ c \in Seq(Things) /\ Len(c) = Len(a) + 1 /\ \A i \in 1..Len(a) : c[i] = a[i]
      /\ c[Len(a) + 1] = x
  BY <1>2, <1>3, AppendProperties
<1> HIDE DEF c
<1>6. Len(c) = Len(b)
  BY <1>1, <1>3, <1>4, <1>5
<1>7. \A i \in 1..Len(b) : b[i] = c[i]
  <2> SUFFICES ASSUME NEW i \in 1..Len(b) PROVE b[i] = c[i]
    OBVIOUS
  <2>1. CASE i = Len(s) + 1
    <3>1. b[i] = Answer(m)
      BY <1>1, <1>4, <2>1
    <3>2. c[i] = x
      BY <1>3, <1>5, <2>1
    <3> QED  BY <3>1, <3>2 DEF x
  <2>2. CASE i # Len(s) + 1
    <3>1. i \in 1..Len(s) /\ i \in 1..Len(t)
      BY <1>1, <1>4, <2>2
    <3> QED  BY <1>1, <1>3, <1>4, <1>5, <3>1
  <2> QED  BY <2>1, <2>2
<1>8. b = c
  BY <1>4, <1>5, <1>6, <1>7, SeqEqual
<1> QED  BY <1>8 DEF a, b, c, t, x

(* A message that asks for nothing is read, or what was asked is given up. *)
Forgets(P, Q) ==
  /\ \/ Q["inbox"] \in {P["inbox"], <<>>}
     \/ P["inbox"] # <<>> /\ Q["inbox"] = Tail(P["inbox"])
  /\ \A p \in Places \ {"inbox"} : Q[p] = P[p]

LEMMA InboxDropped ==
  ASSUME NEW P, NEW Q, NEW events, NEW queries,
         FlowSound(P, events, queries), Forgets(P, Q)
  PROVE  FlowSound(Q, events, queries) /\ (NothingLost(P, events) => NothingLost(Q, events))
<1> USE DEF Forgets
<1>1. Drops(P, Q)
  BY DEF Drops
<1>2. FlowSound(Q, events, queries)
  BY <1>1, QueuesDropped
<1>3. ASSUME NothingLost(P, events) PROVE NothingLost(Q, events)
  <2> SUFFICES ASSUME NEW s \in Sources, NEW n \in 1..events[s]
               PROVE  \E q \in Places : \E j \in 1..Len(Q[q]) : Q[q][j] = Event(s, n)
    BY DEF NothingLost
  <2>1. PICK p \in Places : \E i \in 1..Len(P[p]) : P[p][i] = Event(s, n)
    BY <1>3 DEF NothingLost
  <2>2. PICK i \in 1..Len(P[p]) : P[p][i] = Event(s, n)
    BY <2>1
  <2>3. p # "inbox"
    <3> SUFFICES ASSUME p = "inbox" PROVE FALSE
      OBVIOUS
    <3>1. p \in Queues /\ p \notin Sources
      BY DEF Queues, Sources
    <3>2. P[p][i][1] = s
      BY <2>2 DEF Event
    <3> QED  BY <3>1, <3>2, Homes DEF FlowSound
  <2>4. Q[p] = P[p]
    BY <2>3
  <2> QED  BY <2>2, <2>4
<1> QED  BY <1>2, <1>3

LEMMA LiveStep == PlaceInv /\ Live' /\ [Next]_vars => Live
<1> SUFFICES ASSUME PlaceInv, Live', [Next]_vars PROVE Live
  OBVIOUS
<1> USE DEF Live, Before
<1>1. CASE Program \/ Destructor \/ SymbolWorker
  BY <1>1 DEF Program, Destructor, SymbolWorker, Emit, BeginShutdown, JoinSymbolWorker,
              JoinWorker, SymbolTest, SymbolFront, SymbolPop, control, connection
<1>2. CASE Deaf \/ AcceptTest \/ Accept \/ Handshake \/ RejectTest \/ RejectAccept \/ TurnAway
  BY <1>2 DEF Deaf, AcceptTest, Accept, Handshake, RejectTest, RejectAccept, TurnAway,
              CloseSocket, Return, Goto, control, connection
<1>3. CASE Dequeue \/ DequeueSerial
  BY <1>3 DEF Dequeue, DequeueSerial, connection
<1>4. CASE SettleMain \/ SettleDrain \/ SettleFinal \/ SettleDisconnect
  BY <1>4 DEF SettleMain, SettleDrain, SettleFinal, SettleDisconnect, Refused, Return, Goto,
              connection
<1>5. CASE LeaveMain \/ WaitForSymbolWorker \/ SendTerminate \/ Discard
  BY <1>5 DEF LeaveMain, WaitForSymbolWorker, SendTerminate, Discard, CloseSocket, Goto, connection
<1>6. CASE NoQuery \/ ReadFails \/ TerminateQuery \/ DisconnectQuery
  BY <1>6 DEF NoQuery, ReadFails, TerminateQuery, DisconnectQuery, Reads, Refused, Goto, connection
<1>7. CASE (\E query \in Fast : FastQuery(query)) \/ (\E query \in Slow : SlowQuery(query))
  BY <1>7 DEF FastQuery, SlowQuery, Reads, control
<1>8. CASE WorkerFront \/ WorkerPop
  BY <1>8 DEF WorkerFront, WorkerPop, Goto, connection
<1>9. CASE Server
  BY <1>9 DEF Server, Connect, Leave, Finish, Ask, control
<1>10. CASE UNCHANGED vars
  BY <1>10 DEF vars, control, connection
<1> QED  BY <1>1, <1>2, <1>3, <1>4, <1>5, <1>6, <1>7, <1>8, <1>9, <1>10 DEF Next, Worker

(* What the steps below start from. *)
Going == Live /\ FlowInv /\ TypeInv

LEMMA Goes ==
  ASSUME Going
  PROVE  /\ FlowSound(Flow, emitted, Known) /\ (Disconnected \/ NothingLost(Flow, emitted))
         /\ buffer \in Seq(Things) /\ received \in Seq(Things) /\ serialDequeue = <<>>
         /\ Sent \in Seq(Things) /\ serialQueue \in Seq(Things)
         /\ lfq \in [Producers -> Seq(Things)]
         /\ inbox \in Seq(Messages) /\ symbolQueue \in Seq(Messages)
<1>1. /\ FlowSound(Flow, emitted, Known) /\ (Disconnected \/ NothingLost(Flow, emitted))
      /\ buffer \in Seq(Things) /\ received \in Seq(Things) /\ serialDequeue = <<>>
  BY DEF Going, FlowInv
<1>2. Sent \in Seq(Things) /\ serialQueue \in Seq(Things)
  <2>1. "sent" \in Places /\ "serial" \in Places
    BY PlacesAre
  <2> QED  BY <1>1, <2>1, FlowIs DEF FlowSound, FlowTyped
<1>3. /\ lfq \in [Producers -> Seq(Things)] /\ inbox \in Seq(Messages)
      /\ symbolQueue \in Seq(Queries)
  BY DEF Going, TypeInv
<1>4. symbolQueue \in Seq(Messages)
  <2>1. Queries \subseteq Messages
    BY DEF Messages
  <2> QED  BY <1>3, <2>1, SeqMonotonic
<1> QED  BY <1>1, <1>2, <1>3, <1>4

LEMMA SentNext == Sent' = received' \o buffer'
BY DEF Sent

(* Steps that leave all of it where it is, or at most send the frame. *)
LEMMA FlowKept ==
  ASSUME Going, Sent' = Sent, received' \in Seq(Things), buffer' \in Seq(Things),
         UNCHANGED <<lfq, serialQueue, serialDequeue, inbox, asked, finished, emitted>>,
         Unanswered' = Unanswered
  PROVE  FlowInv'
<1>1. Flow' = Flow
  BY DEF Flow, Answers, Answer, Places, Queues, Producers
<1>2. Known' = Known /\ Disconnected' = Disconnected
  BY DEF Known, Disconnected
<1> QED  BY <1>1, <1>2, Goes DEF FlowInv

LEMMA FlowUnmoved ==
  ASSUME Going,
         UNCHANGED <<buffer, received, lfq, serialQueue, serialDequeue, symbolQueue, inbox, asked,
                     finished, emitted>>,
         InPop' = InPop
  PROVE  FlowInv'
<1>1. Sent' = Sent /\ Unanswered' = Unanswered
  BY DEF Sent, Unanswered
<1> QED  BY <1>1, FlowKept, Goes

LEMMA FlowCommitted ==
  ASSUME Going, peer = "open", CommitData,
         UNCHANGED <<lfq, serialQueue, serialDequeue, symbolQueue, inbox, asked, finished, emitted>>,
         InPop' = InPop
  PROVE  FlowInv'
<1>1. received' = Sent /\ buffer' = <<>>
  BY DEF CommitData, Deliver, Sent
<1>2. Sent' = Sent
  BY <1>1, SentNext, Goes, ConcatEmptySeq
<1>3. Unanswered' = Unanswered
  BY DEF Unanswered
<1>4. <<>> \in Seq(Things)
  OBVIOUS
<1> QED  BY <1>1, <1>2, <1>3, <1>4, FlowKept, Goes

LEMMA FlowEmit ==
  ASSUME Going, NEW source \in Sources, Emit(source)
  PROVE  FlowInv'
<1> DEFINE x == Event(source, emitted[source] + 1)
<1>1. /\ UNCHANGED <<buffer, received, serialDequeue, symbolQueue, inbox, asked, finished>>
      /\ InPop' = InPop
  BY DEF Emit, symbolVars, control, wire, connection, server, InPop
<1>2. /\ Sent' = Sent /\ Unanswered' = Unanswered /\ Known' = Known /\ Disconnected' = Disconnected
  BY <1>1 DEF Sent, Unanswered, Known, Disconnected
<1>3. emitted \in [Sources -> Nat] /\ emitted[source] \in Nat
  BY DEF Going, TypeInv
<1>4. emitted' = [emitted EXCEPT ![source] = @ + 1]
  BY DEF Emit
<1>5. /\ emitted' \in [Sources -> Nat] /\ emitted'[source] = emitted[source] + 1
      /\ \A s \in Sources : emitted[s] <= emitted'[s] /\ (s # source => emitted'[s] = emitted[s])
  BY <1>3, <1>4
<1>6. x \in EventsOf(source) /\ x \in Things /\ x # Terminate /\ x[1] = source /\ x[1] # "answer"
      /\ x[2] = emitted[source] + 1
  <2>1. emitted[source] + 1 \in Nat \ {0}
    BY <1>3
  <2>2. x \in EventsOf(source)
    BY <2>1 DEF EventsOf
  <2>3. x[1] = source /\ x[2] = emitted[source] + 1
    BY DEF Event
  <2>4. x \in Things
    BY <2>2, PlacesAre DEF Things
  <2>5. source # "answer" /\ source # "Terminate"
    BY PlacesAre
  <2>6. Terminate[1] = "Terminate"
    BY DEF Terminate
  <2> QED  BY <2>2, <2>3, <2>4, <2>5, <2>6
<1>7. /\ Flow'[source] = Append(Flow[source], x)
      /\ \A p \in Places \ {source} : Flow'[p] = Flow[p]
  <2>1. CASE source = "serial"
    <3>1. serialQueue' = Append(serialQueue, x) /\ lfq' = lfq
      BY <2>1 DEF Emit
    <3> QED  BY <1>1, <1>2, <2>1, <3>1, FlowIs, FlowIsNext, PlacesAre
  <2>2. CASE source = "app"
    <3>1. serialQueue' = serialQueue /\ lfq' = [lfq EXCEPT ![source] = Append(@, x)]
      BY <2>2 DEF Emit
    <3>2. /\ lfq'[source] = Append(lfq[source], x)
          /\ \A p \in Producers \ {source} : lfq'[p] = lfq[p]
      BY <2>2, <3>1, Goes, PlacesAre
    <3> HIDE DEF x
    <3> QED  BY <1>1, <1>2, <2>2, <3>1, <3>2, FlowIs, FlowIsNext, PlacesAre
  <2> QED  BY <2>1, <2>2, PlacesAre
<1> HIDE DEF x
<1>8. FlowTyped(Flow) /\ source \in Queues /\ source \in Places
  BY Goes, PlacesAre DEF FlowSound, Queues
<1>9. FlowTyped(Flow')
  <2>1. Flow[source] \in Seq(Things) /\ Flow[source] \in Seq(EventsOf(source))
    BY <1>8 DEF FlowTyped
  <2>2. Flow'[source] \in Seq(Things) /\ Flow'[source] \in Seq(EventsOf(source))
    BY <1>6, <1>7, <2>1
  <2>3. \A p \in Places : Flow'[p] \in Seq(Things)
    BY <1>7, <1>8, <2>2 DEF FlowTyped
  <2>4. \A s \in Sources : Flow'[s] \in Seq(EventsOf(s))
    BY <1>7, <1>8, <2>2, PlacesAre DEF FlowTyped
  <2>5. \A p \in Queues \ Sources : Flow'[p] \in Seq({Answer(m) : m \in Messages})
    <3>1. \A p \in Queues \ Sources : Flow'[p] = Flow[p]
      BY <1>7 DEF Places
    <3> QED  BY <1>8, <3>1 DEF FlowTyped
  <2> QED  BY <2>3, <2>4, <2>5 DEF FlowTyped
<1>10. /\ FlowSound(Flow', emitted', Known) /\ AllKept(Flow, Flow')
       /\ \E i \in 1..Len(Flow'[source]) : Flow'[source][i] = x
  <2>1. FlowSound(Flow, emitted, Known) /\ Known \subseteq Known
    BY Goes
  <2>2. x[1] \in Sources => x[2] = emitted[x[1]] + 1 /\ x[2] <= emitted'[x[1]] /\ x[1] = source
    BY <1>3, <1>5, <1>6
  <2>3. x[1] = "answer" => x[2] \in Known \ Known
    BY <1>6
  <2>4. \A s \in Sources : emitted[s] <= emitted'[s]
    BY <1>5
  <2>5. Comes(Flow, Flow', source, x)
    BY <1>7, <1>9 DEF Comes
  <2>6. IsNew(x, source, emitted, Known, emitted', Known)
    BY <1>3, <1>5, <1>6, <2>2, <2>3, <2>4 DEF IsNew
  <2>7. source \in Queues /\ x \in Things
    BY <1>6, <1>8
  <2> QED  BY <2>1, <2>5, <2>6, <2>7, Added
<1>11. ASSUME NothingLost(Flow, emitted) PROVE NothingLost(Flow', emitted')
  <2>1. NothingLost(Flow', emitted)
    BY <1>10, <1>11, StillThere
  <2> SUFFICES ASSUME NEW s \in Sources, NEW n \in 1..emitted'[s]
               PROVE  \E q \in Places : \E j \in 1..Len(Flow'[q]) : Flow'[q][j] = Event(s, n)
    BY DEF NothingLost
  <2>2. CASE s = source /\ n = emitted[source] + 1
    BY <1>8, <1>10, <2>2 DEF x
  <2>3. CASE ~(s = source /\ n = emitted[source] + 1)
    <3>1. n \in 1..emitted[s]
      BY <1>3, <1>5, <2>3
    <3> QED  BY <2>1, <3>1 DEF NothingLost
  <2> QED  BY <2>2, <2>3
<1> QED  BY <1>1, <1>2, <1>10, <1>11, Goes DEF FlowInv

(* Steps that move what is known from place to place. *)
LEMMA FlowMoved ==
  ASSUME Going, UNCHANGED <<asked, finished, emitted>>,
         FlowSound(Flow', emitted, Known),
         Disconnected \/ (NothingLost(Flow, emitted) => NothingLost(Flow', emitted)),
         buffer' \in Seq(Things), received' \in Seq(Things), serialDequeue' = <<>>
  PROVE  FlowInv'
<1>1. Known' = Known /\ Disconnected' = Disconnected
  BY DEF Known, Disconnected
<1> QED  BY <1>1, Goes DEF FlowInv

(* A slow query is answered: from then on it only waits to be popped. *)
LEMMA FlowFront ==
  ASSUME Going, NEW b \in {"symbol", "worker"}, ~InPop, InPop', symbolQueue # <<>>,
         lfq' = [lfq EXCEPT ![b] = Append(@, Answer(Head(symbolQueue)))],
         UNCHANGED <<buffer, received, serialQueue, serialDequeue, symbolQueue, inbox, asked,
                     finished, emitted>>
  PROVE  FlowInv'
<1>1. Unanswered = symbolQueue /\ Unanswered' = Tail(symbolQueue) /\ Sent' = Sent
  BY DEF Unanswered, Sent
<1>2. symbolQueue \in Seq(Messages)
  BY Goes
<1>3. /\ Answers(Unanswered') = Tail(Answers(symbolQueue))
      /\ Head(Answers(symbolQueue)) = Answer(Head(symbolQueue))
      /\ Answers(symbolQueue) # <<>>
  BY <1>1, <1>2, AnswersTail, AnswersAre
<1>4. /\ b \in Producers /\ lfq'[b] = Append(lfq[b], Answer(Head(symbolQueue)))
      /\ \A p \in Producers \ {b} : lfq'[p] = lfq[p]
  BY Goes, PlacesAre
<1>5. /\ Flow["unanswered"] # <<>> /\ Flow'["unanswered"] = Tail(Flow["unanswered"])
      /\ Flow'[b] = Append(Flow[b], Head(Flow["unanswered"]))
  BY <1>1, <1>3, <1>4, FlowIs, FlowIsNext
<1>6. \A p \in Places \ {"unanswered", b} : Flow'[p] = Flow[p]
  BY <1>1, <1>4, FlowIs, FlowIsNext, PlacesAre
<1>7. Passes(Flow, Flow', "unanswered", b)
  BY <1>5, <1>6 DEF Passes
<1>8. b \in Places \ Sources /\ b # "unanswered" /\ FlowSound(Flow, emitted, Known)
  BY Goes, PlacesAre
<1>9. /\ FlowSound(Flow', emitted, Known)
      /\ NothingLost(Flow, emitted) => NothingLost(Flow', emitted)
  BY <1>7, <1>8, AnswerMoved
<1> QED  BY <1>9, FlowMoved, Goes

(* Worker reads a query, which is the first of those that came. *)
LEMMA FlowRead ==
  ASSUME Going, NEW m, Reads(m)
  PROVE  /\ m \in Messages /\ inbox # <<>> /\ worker = "query"
         /\ UNCHANGED <<asked, finished, emitted, serialQueue, serialDequeue, lfq, peer>>
         /\ Answers(inbox) # <<>> /\ Answers(inbox') = Tail(Answers(inbox))
         /\ Head(Answers(inbox)) = Answer(m)
<1>1. /\ inbox # <<>> /\ m = Head(inbox) /\ inbox' = Tail(inbox) /\ worker = "query"
      /\ UNCHANGED <<asked, finished, emitted, serialQueue, serialDequeue, lfq, peer>>
  BY DEF Reads, serialVars, programVars, server
<1>2. inbox \in Seq(Messages)
  BY Goes
<1>3. m \in Messages
  BY <1>1, <1>2
<1>4. Answers(inbox') = Tail(Answers(inbox)) /\ Head(Answers(inbox)) = Answer(m)
  BY <1>1, <1>2, AnswersTail
<1>5. Answers(inbox) # <<>>
  BY <1>1, <1>2, AnswersAre
<1> QED  BY <1>1, <1>3, <1>4, <1>5

(* A frame that is never lost holds and has delivered what was put in. *)
LEMMA FlowSent ==
  ASSUME Going, peer = "open", NEW items \in Seq(Things), NEW sends \in Sends,
         buffer' = AppendAll(items, sends).buffer, Deliver(AppendAll(items, sends).out)
  PROVE  /\ Sent' = Sent \o items /\ buffer' \in Seq(Things) /\ received' \in Seq(Things)
         /\ AppendAll(items, sends).lost = FALSE
         /\ \E more \in Seq(Things) : received' = received \o more
<1> DEFINE frame == AppendAll(items, TRUE)
<1>1. sends = TRUE
  BY DEF Sends
<1>2. buffer \in Seq(Things) /\ received \in Seq(Things)
  BY Goes
<1>3. frame \in Frames /\ frame.out \o frame.buffer = buffer \o items
  BY <1>2, AppendAllSound
<1>4. buffer' = frame.buffer /\ received' = received \o frame.out
  BY <1>1 DEF Deliver
<1> HIDE DEF frame
<1>5. frame.out \in Seq(Things) /\ frame.buffer \in Seq(Things) /\ frame.lost = FALSE
  BY <1>3 DEF Frames
<1>6. received' \in Seq(Things) /\ buffer' \in Seq(Things)
  BY <1>2, <1>4, <1>5, ConcatProperties
<1>7. Sent' = Sent \o items
  <2>1. Sent' = (received \o frame.out) \o frame.buffer
    BY <1>4, SentNext
  <2>2. (received \o frame.out) \o frame.buffer = received \o (frame.out \o frame.buffer)
    <3> DEFINE o == frame.out  b == frame.buffer
    <3>1. o \in Seq(Things) /\ b \in Seq(Things)
      BY <1>5
    <3> HIDE DEF o, b
    <3>2. (received \o o) \o b = received \o (o \o b)
      BY <1>2, <3>1, ConcatAssociative
    <3> QED  BY <3>2 DEF o, b
  <2>3. received \o (buffer \o items) = (received \o buffer) \o items
    BY <1>2, ConcatAssociative
  <2> QED  BY <1>3, <2>1, <2>2, <2>3 DEF Sent
<1> QED  BY <1>1, <1>4, <1>5, <1>6, <1>7 DEF frame

LEMMA FlowFastQuery ==
  ASSUME Going, peer = "open", NEW query \in Fast, FastQuery(query)
  PROVE  FlowInv'
<1> DEFINE x == Answer(query)
<1>1. /\ query \in Messages
      /\ UNCHANGED <<asked, finished, emitted, serialQueue, serialDequeue, lfq, peer>>
      /\ Answers(inbox) # <<>> /\ Answers(inbox') = Tail(Answers(inbox))
      /\ Head(Answers(inbox)) = x
  BY FlowRead DEF FastQuery
<1>2. /\ buffer' = AppendAll(<<x>>, TRUE).buffer /\ Deliver(AppendAll(<<x>>, TRUE).out)
      /\ UNCHANGED <<control, symbolQueue, symbolVars>>
  BY DEF FastQuery, Reads
<1>3. x \in Things
  BY <1>1 DEF Things
<1> HIDE DEF x
<1>4. <<x>> \in Seq(Things) /\ TRUE \in Sends
  BY <1>3 DEF Sends
<1>5. Sent' = Sent \o <<x>> /\ buffer' \in Seq(Things) /\ received' \in Seq(Things)
  BY <1>2, <1>4, FlowSent
<1>6. Sent' = Append(Sent, x)
  BY <1>3, <1>5, Goes, AppendIsConcat
<1>7. Unanswered' = Unanswered
  BY <1>2 DEF Unanswered, InPop, control, symbolVars
<1>8. Flow["inbox"] # <<>> /\ Flow'["inbox"] = Tail(Flow["inbox"]) /\ Head(Flow["inbox"]) = x
  BY <1>1, FlowIs, FlowIsNext
<1>9. Flow'["sent"] = Append(Flow["sent"], Head(Flow["inbox"]))
  BY <1>6, <1>8, FlowIs, FlowIsNext
<1>10. \A p \in Places \ {"inbox", "sent"} : Flow'[p] = Flow[p]
  BY <1>1, <1>7, FlowIs, FlowIsNext, PlacesAre
<1>11. Passes(Flow, Flow', "inbox", "sent")
  BY <1>8, <1>9, <1>10 DEF Passes
<1>12. "sent" \in Places \ Sources /\ FlowSound(Flow, emitted, Known)
  BY Goes, PlacesAre
<1>13. /\ FlowSound(Flow', emitted, Known)
       /\ NothingLost(Flow, emitted) => NothingLost(Flow', emitted)
  BY <1>11, <1>12, AnswerMoved
<1> QED  BY <1>1, <1>5, <1>13, FlowMoved, Goes

LEMMA FlowSlowQuery ==
  ASSUME Going, PlaceInv, NEW query \in Slow, SlowQuery(query)
  PROVE  FlowInv'
<1> DEFINE x == Answer(query)
<1>1. /\ query \in Messages
      /\ UNCHANGED <<asked, finished, emitted, serialQueue, serialDequeue, lfq>>
      /\ Answers(inbox) # <<>> /\ Answers(inbox') = Tail(Answers(inbox))
      /\ Head(Answers(inbox)) = x
  BY FlowRead DEF SlowQuery
<1>2. /\ symbolQueue' = Append(symbolQueue, query) /\ UNCHANGED <<control, wire, symbolVars>>
  BY DEF SlowQuery, Reads
<1>3. UNCHANGED <<buffer, received>> /\ InPop' = InPop /\ Sent' = Sent
  BY <1>2 DEF wire, control, symbolVars, InPop, Sent
<1>4. Unanswered' = Append(Unanswered, query) /\ Unanswered \in Seq(Messages)
  <2>1. symbolQueue \in Seq(Messages)
    BY Goes
  <2>2. CASE InPop
    <3>1. symbolQueue # <<>>
      BY <2>2 DEF PlaceInv
    <3>2. Tail(Append(symbolQueue, query)) = Append(Tail(symbolQueue), query)
      BY <1>1, <2>1, <3>1, HeadTailAppend
    <3> QED  BY <1>2, <1>3, <2>1, <2>2, <3>1, <3>2 DEF Unanswered
  <2>3. CASE ~InPop
    BY <1>2, <1>3, <2>1, <2>3 DEF Unanswered
  <2> QED  BY <2>2, <2>3
<1>5. Answers(Unanswered') = Append(Answers(Unanswered), x)
  BY <1>1, <1>4, AnswersAppend
<1> HIDE DEF x
<1>6. Flow["inbox"] # <<>> /\ Flow'["inbox"] = Tail(Flow["inbox"]) /\ Head(Flow["inbox"]) = x
  BY <1>1, FlowIs, FlowIsNext
<1>7. Flow'["unanswered"] = Append(Flow["unanswered"], Head(Flow["inbox"]))
  BY <1>5, <1>6, FlowIs, FlowIsNext
<1>8. \A p \in Places \ {"inbox", "unanswered"} : Flow'[p] = Flow[p]
  BY <1>1, <1>3, FlowIs, FlowIsNext, PlacesAre
<1>9. Passes(Flow, Flow', "inbox", "unanswered")
  BY <1>6, <1>7, <1>8 DEF Passes
<1>10. "unanswered" \in Places \ Sources /\ FlowSound(Flow, emitted, Known)
  BY Goes, PlacesAre
<1>11. /\ FlowSound(Flow', emitted, Known)
       /\ NothingLost(Flow, emitted) => NothingLost(Flow', emitted)
  BY <1>9, <1>10, AnswerMoved
<1> QED  BY <1>1, <1>3, <1>11, FlowMoved, Goes

LEMMA FlowDequeue ==
  ASSUME Going, Dequeue
  PROVE  FlowInv'
<1>1. /\ worker = "dequeue" /\ worker' = "serial" /\ peer = "open"
      /\ UNCHANGED <<symbolWorker, symbolQueue, serialQueue, serialDequeue, inbox, asked, finished,
                     emitted>>
  BY DEF Dequeue, Going, Live, Before, symbolVars, serialVars, connection, server, programVars
<1>2. InPop' = InPop /\ Unanswered' = Unanswered
  BY <1>1 DEF InPop, Unanswered
<1>3. CASE \A p \in Producers : lfq[p] = <<>>
  BY <1>1, <1>2, <1>3, FlowUnmoved DEF Dequeue, wire
<1>4. CASE ~(\A p \in Producers : lfq[p] = <<>>)
  <2>1. PICK a \in Producers, sends \in Sends :
          /\ lfq' = [lfq EXCEPT ![a] = <<>>]
          /\ buffer' = AppendAll(lfq[a], sends).buffer
          /\ Deliver(AppendAll(lfq[a], sends).out)
    BY <1>4 DEF Dequeue
  <2>2. lfq[a] \in Seq(Things)
    BY Goes
  <2>3. Sent' = Sent \o lfq[a] /\ buffer' \in Seq(Things) /\ received' \in Seq(Things)
    BY <1>1, <2>1, <2>2, FlowSent
  <2>4. lfq'[a] = <<>> /\ \A p \in Producers \ {a} : lfq'[p] = lfq[p]
    BY <2>1, Goes
  <2>5. Flow'["sent"] = Flow["sent"] \o Flow[a] /\ Flow'[a] = <<>>
    BY <2>3, <2>4, FlowIs, FlowIsNext
  <2>6. \A p \in Places \ {"sent", a} : Flow'[p] = Flow[p]
    BY <1>1, <1>2, <2>4, FlowIs, FlowIsNext, PlacesAre
  <2>7. Flushes(Flow, Flow', a)
    BY <2>5, <2>6 DEF Flushes
  <2>8. a \in Queues /\ FlowSound(Flow, emitted, Known)
    BY Goes, FlowIs
  <2>9. /\ FlowSound(Flow', emitted, Known)
        /\ NothingLost(Flow, emitted) => NothingLost(Flow', emitted)
    BY <2>7, <2>8, QueueSent
  <2> QED  BY <1>1, <2>3, <2>9, FlowMoved, Goes
<1> QED  BY <1>3, <1>4

LEMMA FlowDequeueSerial ==
  ASSUME Going, DequeueSerial
  PROVE  FlowInv' /\ serialQueue' = <<>>
<1>1. /\ worker = "serial" /\ worker' = "settle" /\ peer = "open"
      /\ UNCHANGED <<symbolWorker, symbolQueue, lfq, inbox, asked, finished, emitted>>
  BY DEF DequeueSerial, Going, Live, Before, symbolVars, connection, server, programVars
<1>2. InPop' = InPop /\ Unanswered' = Unanswered
  BY <1>1 DEF InPop, Unanswered
<1>3. PICK sends \in Sends :
        /\ buffer' = AppendAll(serialQueue, sends).buffer
        /\ Deliver(AppendAll(serialQueue, sends).out)
        /\ serialQueue' = <<>>
        /\ serialDequeue' = IF AppendAll(serialQueue, sends).lost THEN serialQueue ELSE <<>>
  <2>1. serialDequeue = <<>>
    BY Goes
  <2>2. (IF serialQueue # <<>> THEN serialQueue ELSE serialDequeue) = serialQueue
    BY <2>1
  <2>3. (IF serialQueue # <<>> THEN serialDequeue ELSE serialQueue) = <<>>
    BY <2>1
  <2> QED  BY <2>2, <2>3 DEF DequeueSerial
<1>4. serialQueue \in Seq(Things)
  BY Goes
<1>5. /\ Sent' = Sent \o serialQueue /\ buffer' \in Seq(Things) /\ received' \in Seq(Things)
      /\ serialDequeue' = <<>>
  BY <1>1, <1>3, <1>4, FlowSent
<1>6. Flow'["sent"] = Flow["sent"] \o Flow["serial"] /\ Flow'["serial"] = <<>>
  BY <1>3, <1>5, FlowIs, FlowIsNext
<1>7. \A p \in Places \ {"sent", "serial"} : Flow'[p] = Flow[p]
  BY <1>1, <1>2, FlowIs, FlowIsNext, PlacesAre
<1>8. Flushes(Flow, Flow', "serial")
  BY <1>6, <1>7 DEF Flushes
<1>9. "serial" \in Queues /\ FlowSound(Flow, emitted, Known)
  BY Goes DEF Queues
<1>10. /\ FlowSound(Flow', emitted, Known)
       /\ NothingLost(Flow, emitted) => NothingLost(Flow', emitted)
  BY <1>8, <1>9, QueueSent
<1> QED  BY <1>1, <1>3, <1>5, <1>10, FlowMoved, Goes

(* What was asked is read and asks for nothing, or is dropped. *)
LEMMA FlowForgets ==
  ASSUME Going,
         UNCHANGED <<buffer, received, lfq, serialQueue, serialDequeue, symbolQueue, asked, finished,
                     emitted>>,
         InPop' = InPop,
         inbox' = <<>> \/ (inbox # <<>> /\ inbox' = Tail(inbox))
  PROVE  FlowInv'
<1>1. Sent' = Sent /\ Unanswered' = Unanswered
  BY DEF Sent, Unanswered
<1>2. inbox \in Seq(Messages) /\ <<>> \in Seq(Messages)
  BY Goes
<1>3. \/ Flow'["inbox"] = <<>>
      \/ Flow["inbox"] # <<>> /\ Flow'["inbox"] = Tail(Flow["inbox"])
  <2>1. CASE inbox' = <<>>
    BY <1>2, <2>1, FlowIsNext, AnswersAre
  <2>2. CASE inbox # <<>> /\ inbox' = Tail(inbox)
    BY <1>2, <2>2, FlowIs, FlowIsNext, AnswersAre, AnswersTail
  <2> QED  BY <2>1, <2>2
<1>4. \A p \in Places \ {"inbox"} : Flow'[p] = Flow[p]
  BY <1>1, FlowIs, FlowIsNext, PlacesAre
<1>5. Forgets(Flow, Flow')
  BY <1>3, <1>4 DEF Forgets
<1>6. /\ FlowSound(Flow', emitted, Known)
      /\ NothingLost(Flow, emitted) => NothingLost(Flow', emitted)
  BY <1>5, InboxDropped, Goes
<1> QED  BY <1>6, FlowMoved, Goes

(* Terminate is sent past the frame that is being filled; the message that *)
(* made Worker send it may be read at the same time.                       *)
LEMMA FlowTerminated ==
  ASSUME Going, peer = "open", Deliver(<<Terminate>>),
         UNCHANGED <<buffer, lfq, serialQueue, serialDequeue, symbolQueue, asked, finished, emitted>>,
         InPop' = InPop,
         inbox' = inbox \/ (inbox # <<>> /\ inbox' = Tail(inbox))
  PROVE  FlowInv'
<1> DEFINE R == [Flow EXCEPT !["inbox"] = Answers(inbox')]
<1>1. /\ received' = received \o <<Terminate>> /\ buffer' = buffer /\ Unanswered' = Unanswered
  BY DEF Deliver, Unanswered
<1>2. inbox \in Seq(Messages) /\ received \in Seq(Things) /\ buffer \in Seq(Things)
  BY Goes
<1>3. R["inbox"] = Answers(inbox') /\ \A p \in Places \ {"inbox"} : R[p] = Flow[p]
  BY PlacesAre DEF Flow
<1> HIDE DEF R
<1>4. \/ R["inbox"] = Flow["inbox"]
      \/ Flow["inbox"] # <<>> /\ R["inbox"] = Tail(Flow["inbox"])
  <2>1. CASE inbox' = inbox
    BY <1>3, <2>1, FlowIs
  <2>2. CASE inbox # <<>> /\ inbox' = Tail(inbox)
    BY <1>2, <1>3, <2>2, FlowIs, AnswersAre, AnswersTail
  <2> QED  BY <2>1, <2>2
<1>5. Forgets(Flow, R)
  BY <1>3, <1>4 DEF Forgets
<1>6. FlowSound(R, emitted, Known) /\ (NothingLost(Flow, emitted) => NothingLost(R, emitted))
  BY <1>5, InboxDropped, Goes
<1>7. R["sent"] = received \o buffer
  BY <1>3, FlowIs, PlacesAre DEF Sent
<1>8. Flow'["sent"] = (received \o <<Terminate>>) \o buffer
  BY <1>1, SentNext, FlowIsNext
<1>9. \A p \in Queues : Flow'[p] = R[p]
  BY <1>1, <1>3, FlowIs, FlowIsNext, PlacesAre DEF Queues
<1>10. Overtakes(R, Flow', received, buffer)
  BY <1>7, <1>8, <1>9 DEF Overtakes
<1>11. FlowSound(Flow', emitted, Known) /\ (NothingLost(R, emitted) => NothingLost(Flow', emitted))
  BY <1>2, <1>6, <1>10, TerminateSent
<1>12. <<Terminate>> \in Seq(Things)
  BY DEF Things
<1>13. received' \in Seq(Things)
  BY <1>1, <1>2, <1>12, ConcatProperties
<1> QED  BY <1>1, <1>2, <1>6, <1>11, <1>13, FlowMoved, Goes

LEMMA FlowDiscard ==
  ASSUME Going, PlaceInv, Discard
  PROVE  FlowInv'
<1>1. /\ lfq' = [p \in Producers |-> <<>>] /\ serialQueue' = <<>> /\ serialDequeue' = <<>>
      /\ UNCHANGED <<buffer, received, symbolQueue, symbolWorker, inbox, asked, finished, emitted>>
      /\ worker = "clear" /\ worker' = "query"
  BY DEF Discard, ClearQueues, Goto, programVars, symbolVars, wire, connection, server
<1>2. Disconnected
  BY <1>1 DEF PlaceInv
<1>3. Unanswered' = Unanswered /\ Sent' = Sent
  BY <1>1 DEF InPop, Unanswered, Sent
<1>4. \A p \in Places : Flow'[p] \in {Flow[p], <<>>}
  BY <1>1, <1>3, FlowIs, FlowIsNext, PlacesAre
<1>5. Drops(Flow, Flow')
  BY <1>4 DEF Drops
<1>6. FlowSound(Flow', emitted, Known)
  BY <1>5, QueuesDropped, Goes
<1> QED  BY <1>1, <1>2, <1>6, FlowMoved, Goes

(* The server asks something it has not asked before. *)
LEMMA FlowAsked ==
  ASSUME Going, NEW q \in Messages, q \notin Known, inbox' = Append(inbox, q),
         Known' = Known \union {q}, Disconnected => Disconnected',
         UNCHANGED <<buffer, received, lfq, serialQueue, serialDequeue, symbolQueue, emitted>>,
         InPop' = InPop
  PROVE  FlowInv'
<1> DEFINE x == Answer(q)
<1>1. Sent' = Sent /\ Unanswered' = Unanswered
  BY DEF Sent, Unanswered
<1>2. inbox \in Seq(Messages) /\ emitted \in [Sources -> Nat]
  BY DEF Going, TypeInv
<1>3. x \in Things /\ x # Terminate /\ x[1] = "answer" /\ x[2] = q
  BY DEF Things, Answer, Terminate
<1>4. Answers(inbox') = Append(Answers(inbox), x)
  BY <1>2, AnswersAppend
<1> HIDE DEF x
<1>5. Flow'["inbox"] = Append(Flow["inbox"], x)
  BY <1>4, FlowIs, FlowIsNext
<1>6. \A p \in Places \ {"inbox"} : Flow'[p] = Flow[p]
  BY <1>1, FlowIs, FlowIsNext, PlacesAre
<1>7. FlowTyped(Flow')
  <2>1. FlowTyped(Flow)
    BY Goes DEF FlowSound
  <2>2. "inbox" \in Queues \ Sources /\ "inbox" \in Places
    BY PlacesAre DEF Queues
  <2>3. \E m \in Messages : Flow'["inbox"] = Append(Flow["inbox"], Answer(m))
    BY <1>5 DEF x
  <2>4. \A p \in Places :
          \/ Flow'[p] \in {Flow[p], <<>>}
          \/ Flow[p] # <<>> /\ Flow'[p] = Tail(Flow[p])
          \/ p \in Queues \ Sources /\ \E m \in Messages : Flow'[p] = Append(Flow[p], Answer(m))
          \/ p = "sent" /\ Flow'[p] \in Seq(Things)
    BY <1>6, <2>2, <2>3
  <2> QED  BY <2>1, <2>4, TypedAfter
<1>8. Comes(Flow, Flow', "inbox", x)
  BY <1>5, <1>6, <1>7 DEF Comes
<1>9. IsNew(x, "inbox", emitted, Known, emitted, Known')
  <2>1. x[1] \notin Sources
    BY <1>3, PlacesAre
  <2>2. \A s \in Sources : emitted[s] <= emitted[s]
    BY <1>2
  <2>3. Known \subseteq Known' /\ x[2] \in Known' \ Known
    BY <1>3
  <2> QED  BY <1>2, <1>3, <2>1, <2>2, <2>3 DEF IsNew
<1>10. "inbox" \in Queues /\ FlowSound(Flow, emitted, Known)
  BY Goes DEF Queues
<1>11. FlowSound(Flow', emitted, Known') /\ AllKept(Flow, Flow')
  BY <1>3, <1>8, <1>9, <1>10, Added
<1>12. NothingLost(Flow, emitted) => NothingLost(Flow', emitted)
  BY <1>11, StillThere
<1>13. emitted' = emitted
  OBVIOUS
<1> QED  BY <1>11, <1>12, <1>13, Goes DEF FlowInv

LEMMA FlowInit == Init => FlowInv
<1> SUFFICES ASSUME Init PROVE FlowInv
  OBVIOUS
<1>1. /\ received = <<>> /\ buffer = <<>> /\ symbolQueue = <<>> /\ inbox = <<>>
      /\ serialQueue = <<>> /\ serialDequeue = <<>> /\ lfq = [p \in Producers |-> <<>>]
      /\ emitted = [s \in Sources |-> 0]
  BY DEF Init
<1>2. ~InPop
  BY DEF Init, InPop
<1>3. Unanswered = <<>> /\ Sent = <<>> \o <<>>
  BY <1>1, <1>2 DEF Unanswered, Sent
<1>4. Sent = <<>> /\ Answers(<<>>) = <<>>
  <2>1. <<>> \in Seq(Messages) /\ <<>> \in Seq(Things)
    OBVIOUS
  <2> QED  BY <1>3, <2>1, AnswersAre, ConcatEmptySeq
<1>5. \A p \in Places : Flow[p] = <<>>
  BY <1>1, <1>3, <1>4, FlowIs, PlacesAre
<1>6. \A p \in Places : Len(Flow[p]) = 0
  BY <1>5
<1>7. \A p \in Places : 1..Len(Flow[p]) = {}
  BY <1>6
<1>8. FlowTyped(Flow)
  <2>1. Sources \subseteq Places /\ Queues \subseteq Places
    BY PlacesAre DEF Queues
  <2>2. \A S : <<>> \in Seq(S)
    OBVIOUS
  <2> QED  BY <1>5, <2>1, <2>2 DEF FlowTyped
<1>9. NothingTwice(Flow) /\ InOrder(Flow) /\ NothingForeign(Flow, emitted, Known)
  BY <1>7 DEF NothingTwice, InOrder, NothingForeign
<1>10. NothingLost(Flow, emitted)
  <2>1. \A s \in Sources : 1..emitted[s] = {}
    BY <1>1
  <2> QED  BY <2>1 DEF NothingLost
<1>11. buffer \in Seq(Things) /\ received \in Seq(Things)
  BY <1>1
<1> QED  BY <1>1, <1>8, <1>9, <1>10, <1>11 DEF FlowInv, FlowSound

LEMMA FlowStep == LoopInv /\ TypeInv /\ PlaceInv /\ FlowInv /\ [Next]_vars => FlowInv'
<1> SUFFICES ASSUME LoopInv, TypeInv, PlaceInv, FlowInv, [Next]_vars, Live' PROVE FlowInv'
  BY DEF FlowInv
<1>1. Live /\ Going
  BY LiveStep DEF Going
<1>2. peer = "open" \/ worker \in {"accept", "accepting", "handshake"}
  BY <1>1 DEF Live, Before
<1>3. peer' = "open" \/ worker' \in {"accept", "accepting", "handshake"}
  BY DEF Live, Before
<1> USE <1>1
<1>4. ASSUME NEW source \in Sources, Emit(source) PROVE FlowInv'
  BY <1>4, FlowEmit
<1>5. CASE BeginShutdown \/ Destructor \/ SymbolTest
  <2>1. /\ UNCHANGED <<buffer, received, lfq, serialQueue, serialDequeue, symbolQueue, inbox, asked,
                       finished, emitted>>
        /\ InPop' = InPop
    BY <1>5 DEF BeginShutdown, Destructor, JoinSymbolWorker, JoinWorker, SymbolTest, wire, queues,
                serialVars, connection, server, control, symbolVars, programVars, InPop
  <2> QED  BY <2>1, FlowUnmoved
<1>6. CASE SymbolFront
  <2>1. /\ symbolWorker = "front" /\ worker' = worker
        /\ UNCHANGED <<buffer, received, serialQueue, serialDequeue, symbolQueue, inbox, asked,
                       finished, emitted>>
    BY <1>6 DEF SymbolFront, wire, serialVars, connection, server, control, programVars
  <2>2. worker # "pop" /\ ~InPop
    BY <2>1 DEF InPop, LoopInv
  <2>3. CASE symbolQueue = <<>>
    <3>1. lfq' = lfq /\ symbolWorker' # "pop"
      BY <1>6, <2>3 DEF SymbolFront
    <3>2. InPop' = InPop
      BY <2>1, <2>2, <3>1 DEF InPop
    <3> QED  BY <2>1, <3>1, <3>2, FlowUnmoved
  <2>4. CASE symbolQueue # <<>>
    <3>1. /\ symbolWorker' = "pop"
          /\ lfq' = [lfq EXCEPT !["symbol"] = Append(@, Answer(Head(symbolQueue)))]
      BY <1>6, <2>4 DEF SymbolFront
    <3>2. InPop'
      BY <3>1 DEF InPop
    <3> QED  BY <2>1, <2>2, <2>4, <3>1, <3>2, FlowFront
  <2> QED  BY <2>3, <2>4
<1>7. CASE SymbolPop \/ WorkerPop
  <2>1. /\ InPop /\ symbolQueue' = Tail(symbolQueue)
        /\ UNCHANGED <<buffer, received, lfq, serialQueue, serialDequeue, inbox, asked, finished,
                       emitted>>
    BY <1>7 DEF SymbolPop, WorkerPop, InPop, wire, serialVars, connection, server, programVars
  <2>2. ~InPop'
    BY <1>7 DEF SymbolPop, WorkerPop, Goto, InPop, LoopInv, control, symbolVars
  <2>3. Unanswered' = Unanswered /\ Sent' = Sent
    BY <2>1, <2>2 DEF Unanswered, Sent
  <2> QED  BY <2>1, <2>3, FlowKept, Goes
<1>8. CASE Deaf \/ RejectTest \/ RejectAccept \/ TurnAway \/ ReadFails
  BY <1>2, <1>8 DEF PlaceInv, Deaf, RejectTest, RejectAccept, TurnAway, ReadFails
<1>9. CASE AcceptTest \/ Accept
  <2>1. /\ UNCHANGED <<buffer, received, lfq, serialQueue, serialDequeue, symbolQueue, inbox, asked,
                       finished, emitted, symbolWorker>>
        /\ worker # "pop" /\ worker' # "pop"
    BY <1>9 DEF AcceptTest, Accept, Return, Goto, wire, queues, serialVars, connection, server,
                symbolVars, programVars
  <2>2. InPop' = InPop
    BY <2>1 DEF InPop
  <2> QED  BY <2>1, <2>2, FlowUnmoved
<1>10. CASE Handshake
  <2>1. /\ UNCHANGED <<buffer, received, lfq, serialQueue, serialDequeue, symbolQueue, asked,
                       finished, emitted, symbolWorker>>
        /\ worker # "pop" /\ worker' # "pop" /\ (inbox' = inbox \/ inbox' = <<>>)
    BY <1>10 DEF Handshake, CloseSocket, Goto, wire, queues, serialVars, server, symbolVars,
                 programVars
  <2>2. InPop' = InPop
    BY <2>1 DEF InPop
  <2> QED  BY <2>1, <2>2, FlowUnmoved, FlowForgets
<1>11. CASE Dequeue
  BY <1>11, FlowDequeue
<1>12. CASE DequeueSerial
  BY <1>12, FlowDequeueSerial
<1>13. CASE SettleMain \/ SettleDrain \/ SettleFinal \/ SettleDisconnect
  <2>1. /\ UNCHANGED <<lfq, serialQueue, serialDequeue, symbolQueue, inbox, asked, finished, emitted,
                       symbolWorker>>
        /\ worker = "settle" /\ worker' # "pop" /\ (CommitData \/ UNCHANGED wire)
    BY <1>13 DEF SettleMain, SettleDrain, SettleFinal, SettleDisconnect, Refused, Return, Goto,
                 queues, serialVars, connection, server, symbolVars, programVars
  <2>2. InPop' = InPop /\ peer = "open"
    BY <1>2, <2>1 DEF InPop
  <2>3. CASE CommitData
    BY <2>1, <2>2, <2>3, FlowCommitted
  <2>4. CASE UNCHANGED wire
    BY <2>1, <2>2, <2>4, FlowUnmoved DEF wire
  <2> QED  BY <2>1, <2>3, <2>4
<1>14. CASE LeaveMain
  <2>1. CASE shutdown
    <3>1. /\ UNCHANGED <<buffer, received, lfq, serialQueue, serialDequeue, symbolQueue, inbox, asked,
                         finished, emitted, symbolWorker>>
          /\ worker = "left" /\ worker' = "waiting"
      BY <1>14, <2>1 DEF LeaveMain, wire, queues, serialVars, connection, server, symbolVars,
                         programVars
    <3>2. InPop' = InPop
      BY <3>1 DEF InPop
    <3> QED  BY <3>1, <3>2, FlowUnmoved
  <2>2. CASE ~shutdown
    BY <1>3, <1>14, <2>2 DEF LeaveMain, CloseSocket
  <2> QED  BY <2>1, <2>2
<1>15. CASE WaitForSymbolWorker \/ NoQuery
  <2>1. /\ UNCHANGED <<buffer, received, lfq, serialQueue, serialDequeue, symbolQueue, inbox, asked,
                       finished, emitted, symbolWorker>>
        /\ worker # "pop" /\ worker' # "pop"
    BY <1>15 DEF WaitForSymbolWorker, NoQuery, Goto, wire, queues, serialVars, connection, server,
                 symbolVars, programVars
  <2>2. InPop' = InPop
    BY <2>1 DEF InPop
  <2> QED  BY <2>1, <2>2, FlowUnmoved
<1>16. CASE SendTerminate
  <2>1. /\ UNCHANGED <<buffer, lfq, serialQueue, serialDequeue, symbolQueue, inbox, asked, finished,
                       emitted, symbolWorker>>
        /\ worker = "terminate" /\ worker' # "pop" /\ Deliver(<<Terminate>>)
    BY <1>16 DEF SendTerminate, queues, serialVars, connection, server, symbolVars, programVars
  <2>2. InPop' = InPop /\ peer = "open"
    BY <1>2, <2>1 DEF InPop
  <2> QED  BY <2>1, <2>2, FlowTerminated
<1>17. ASSUME NEW query \in Fast, FastQuery(query) PROVE FlowInv'
  <2>1. peer = "open"
    BY <1>2, <1>17 DEF FastQuery, Reads
  <2> QED  BY <1>17, <2>1, FlowFastQuery
<1>18. ASSUME NEW query \in Slow, SlowQuery(query) PROVE FlowInv'
  BY <1>18, FlowSlowQuery
<1>19. CASE TerminateQuery \/ DisconnectQuery
  <2>1. PICK m : Reads(m)
    BY <1>19 DEF TerminateQuery, DisconnectQuery
  <2>2. /\ UNCHANGED <<lfq, serialQueue, serialDequeue, asked, finished, emitted, symbolWorker>>
        /\ worker = "query" /\ inbox # <<>> /\ inbox' = Tail(inbox)
    BY <2>1 DEF Reads, serialVars, server, symbolVars, programVars
  <2>3. worker' # "pop" /\ UNCHANGED <<symbolQueue, buffer>>
    BY <1>19 DEF TerminateQuery, DisconnectQuery, Goto, Refused, wire
  <2>4. InPop' = InPop /\ peer = "open"
    BY <1>2, <2>2, <2>3 DEF InPop
  <2>5. CASE TerminateQuery
    <3>1. received' = received
      BY <2>5 DEF TerminateQuery, wire
    <3> QED  BY <2>2, <2>3, <2>4, <3>1, FlowForgets
  <2>6. CASE DisconnectQuery
    <3>1. Deliver(<<Terminate>>)
      BY <2>6 DEF DisconnectQuery
    <3> QED  BY <2>2, <2>3, <2>4, <3>1, FlowTerminated
  <2> QED  BY <1>19, <2>5, <2>6
<1>20. CASE Discard
  BY <1>20, FlowDiscard
<1>21. CASE WorkerFront
  <2>1. /\ worker = "symbols" /\ symbolWorker' = symbolWorker
        /\ UNCHANGED <<buffer, received, serialQueue, serialDequeue, symbolQueue, inbox, asked,
                       finished, emitted>>
    BY <1>21 DEF WorkerFront, wire, serialVars, connection, server, symbolVars, programVars
  <2>2. ~InPop
    BY <2>1 DEF InPop, LoopInv
  <2>3. CASE symbolQueue = <<>>
    <3>1. lfq' = lfq /\ worker' # "pop"
      BY <1>21, <2>3 DEF WorkerFront, Goto
    <3>2. InPop' = InPop
      BY <2>1, <2>2, <3>1 DEF InPop
    <3> QED  BY <2>1, <3>1, <3>2, FlowUnmoved
  <2>4. CASE symbolQueue # <<>>
    <3>1. /\ worker' = "pop"
          /\ lfq' = [lfq EXCEPT !["worker"] = Append(@, Answer(Head(symbolQueue)))]
      BY <1>21, <2>4 DEF WorkerFront, Goto
    <3>2. InPop'
      BY <3>1 DEF InPop
    <3> QED  BY <2>1, <2>2, <2>4, <3>1, <3>2, FlowFront
  <2> QED  BY <2>3, <2>4
<1>22. CASE Connect \/ Leave
  <2>1. /\ UNCHANGED <<buffer, received, lfq, serialQueue, serialDequeue, symbolQueue, inbox, asked,
                       finished, emitted, symbolWorker, worker>>
    BY <1>22 DEF Connect, Leave, wire, queues, serialVars, control, server, symbolVars, programVars
  <2>2. InPop' = InPop
    BY <2>1 DEF InPop
  <2> QED  BY <2>1, <2>2, FlowUnmoved
<1>23. ASSUME NEW query \in Queries \union {"Disconnect"}, Ask(query) PROVE FlowInv'
  <2>1. /\ query \notin asked /\ asked' = asked \union {query} /\ inbox' = Append(inbox, query)
        /\ UNCHANGED <<buffer, received, lfq, serialQueue, serialDequeue, symbolQueue, finished,
                       emitted, symbolWorker, worker>>
    BY <1>23 DEF Ask, wire, queues, serialVars, control, symbolVars, programVars
  <2>2. query \in Messages /\ query # "Terminate"
    BY ProfilerAssumption DEF Messages, Queries
  <2>3. query \notin Known /\ Known' = Known \union {query}
    BY <2>1, <2>2 DEF Known
  <2>4. InPop' = InPop /\ (Disconnected => Disconnected')
    BY <2>1 DEF InPop, Disconnected
  <2> QED  BY <2>1, <2>2, <2>3, <2>4, FlowAsked
<1>24. CASE Finish
  <2>1. /\ ~finished /\ finished' = TRUE /\ inbox' = Append(inbox, "Terminate")
        /\ UNCHANGED <<buffer, received, lfq, serialQueue, serialDequeue, symbolQueue, asked,
                       emitted, symbolWorker, worker>>
    BY <1>24 DEF Finish, wire, queues, serialVars, control, symbolVars, programVars
  <2>2. "Terminate" \in Messages /\ "Terminate" \notin asked
    BY ProfilerAssumption DEF Messages, Queries, TypeInv
  <2>3. "Terminate" \notin Known /\ Known' = Known \union {"Terminate"}
    BY <2>1, <2>2 DEF Known
  <2>4. InPop' = InPop /\ (Disconnected => Disconnected')
    BY <2>1 DEF InPop, Disconnected
  <2> QED  BY <2>1, <2>2, <2>3, <2>4, FlowAsked
<1>25. CASE UNCHANGED vars
  <2>1. /\ UNCHANGED <<buffer, received, lfq, serialQueue, serialDequeue, symbolQueue, inbox, asked,
                       finished, emitted, symbolWorker, worker>>
    BY <1>25 DEF vars, wire, queues, serialVars, control, connection, server, symbolVars, programVars
  <2>2. InPop' = InPop
    BY <2>1 DEF InPop
  <2> QED  BY <2>1, <2>2, FlowUnmoved
<1> QED
  BY <1>4, <1>5, <1>6, <1>7, <1>8, <1>9, <1>10, <1>11, <1>12, <1>13, <1>14, <1>15, <1>16, <1>17,
     <1>18, <1>19, <1>20, <1>21, <1>22, <1>23, <1>24, <1>25
  DEF Next, Program, SymbolWorker, Worker, Server

-------------------------------------------------------------------------------
(* What the server received. *)

LEMMA ReceivedGrows ==
  ASSUME FlowInv, TypeInv, [Next]_vars
  PROVE  \/ received' = received
         \/ peer' = "open" /\ \E more \in Seq(Things) : received' = received \o more
<1> DEFINE Grew == peer' = "open" /\ \E more \in Seq(Things) : received' = received \o more
<1> SUFFICES received' = received \/ Grew
  OBVIOUS
<1>1. CASE Program \/ Destructor \/ SymbolWorker \/ Server \/ UNCHANGED vars
  <2>1. received' = received
    BY <1>1 DEF Program, Destructor, SymbolWorker, Server, Emit, BeginShutdown, JoinSymbolWorker,
       JoinWorker, SymbolTest, SymbolFront, SymbolPop, Connect, Leave, Finish, Ask, wire, vars
  <2> QED  BY <2>1
<1>2. CASE Deaf \/ AcceptTest \/ Accept \/ Handshake \/ RejectTest \/ RejectAccept \/ TurnAway
           \/ LeaveMain \/ WaitForSymbolWorker \/ NoQuery \/ ReadFails \/ Discard \/ WorkerFront
           \/ WorkerPop \/ TerminateQuery \/ \E query \in Slow : SlowQuery(query)
  <2>1. received' = received
    BY <1>2 DEF Deaf, AcceptTest, Accept, Handshake, RejectTest, RejectAccept, TurnAway, LeaveMain,
       WaitForSymbolWorker, NoQuery, ReadFails, Discard, WorkerFront, WorkerPop, TerminateQuery,
       SlowQuery, wire
  <2> QED  BY <2>1
<1>3. peer = "open" => Going
  BY DEF Going, Live
<1>4. ASSUME NEW items \in Seq(Things), Deliver(items), peer' = peer
      PROVE  received' = received \/ Grew
  BY <1>4 DEF Deliver
<1>5. CASE SettleMain \/ SettleDrain \/ SettleFinal \/ SettleDisconnect
  <2>1. peer' = peer /\ (received' = received \/ Deliver(buffer))
    BY <1>5 DEF SettleMain, SettleDrain, SettleFinal, SettleDisconnect, CommitData, wire, connection
  <2>2. CASE peer = "open"
    <3>1. buffer \in Seq(Things)
      BY <1>3, <2>2, Goes
    <3> QED  BY <1>4, <2>1, <3>1
  <2>3. CASE peer # "open"
    BY <2>1, <2>3 DEF Deliver
  <2> QED  BY <2>2, <2>3
<1>6. CASE SendTerminate \/ DisconnectQuery
  <2>1. peer' = peer /\ Deliver(<<Terminate>>)
    BY <1>6 DEF SendTerminate, DisconnectQuery, Reads, connection
  <2>2. <<Terminate>> \in Seq(Things)
    BY DEF Things
  <2> QED  BY <1>4, <2>1, <2>2
<1>7. ASSUME NEW items, NEW sends \in Sends, peer = "open" => items \in Seq(Things),
             buffer' = AppendAll(items, sends).buffer, Deliver(AppendAll(items, sends).out),
             peer' = peer
      PROVE  received' = received \/ Grew
  <2>1. CASE peer = "open"
    BY <1>3, <1>7, <2>1, FlowSent
  <2>2. CASE peer # "open"
    BY <1>7, <2>2 DEF Deliver
  <2> QED  BY <2>1, <2>2
<1>8. CASE Dequeue
  <2>1. peer' = peer
    BY <1>8 DEF Dequeue, connection
  <2>2. CASE \A p \in Producers : lfq[p] = <<>>
    BY <1>8, <2>2 DEF Dequeue, wire
  <2>3. CASE ~(\A p \in Producers : lfq[p] = <<>>)
    <3>1. PICK p \in Producers, sends \in Sends :
            /\ buffer' = AppendAll(lfq[p], sends).buffer
            /\ Deliver(AppendAll(lfq[p], sends).out)
      BY <1>8, <2>3 DEF Dequeue
    <3>2. lfq[p] \in Seq(Things)
      BY DEF TypeInv
    <3> QED  BY <1>7, <2>1, <3>1, <3>2
  <2> QED  BY <2>2, <2>3
<1>9. CASE DequeueSerial
  <2> DEFINE full == IF serialQueue # <<>> THEN serialQueue ELSE serialDequeue
  <2>1. PICK sends \in Sends :
          /\ buffer' = AppendAll(full, sends).buffer
          /\ Deliver(AppendAll(full, sends).out)
    BY <1>9 DEF DequeueSerial
  <2>2. peer' = peer
    BY <1>9 DEF DequeueSerial, connection
  <2>3. ASSUME peer = "open" PROVE full \in Seq(Things)
    <3>1. serialQueue \in Seq(Things) /\ serialDequeue = <<>>
      BY <1>3, <2>3, Goes
    <3> QED  BY <3>1
  <2> HIDE DEF full
  <2> QED  BY <1>7, <2>1, <2>2, <2>3
<1>10. ASSUME NEW query \in Fast, FastQuery(query)
       PROVE  received' = received \/ Grew
  <2> DEFINE items == <<Answer(query)>>
  <2>1. /\ buffer' = AppendAll(items, TRUE).buffer
        /\ Deliver(AppendAll(items, TRUE).out)
    BY <1>10 DEF FastQuery
  <2>2. peer' = peer
    BY <1>10 DEF FastQuery, Reads
  <2>3. items \in Seq(Things) /\ TRUE \in Sends
    <3>1. query \in Messages
      BY DEF Messages, Queries
    <3>2. Answer(query) \in Things
      BY <3>1 DEF Things
    <3>3. items \in Seq(Things)
      BY <3>2
    <3>4. TRUE \in Sends
      BY Zenon DEF Sends
    <3> QED  BY <3>3, <3>4
  <2> HIDE DEF items
  <2> QED  BY <1>7, <2>1, <2>2, <2>3
<1> QED
  BY <1>1, <1>2, <1>5, <1>6, <1>8, <1>9, <1>10 DEF Next, Worker

(* While there is a connection, what was received is the first part of     *)
(* what flows. *)
LEMMA ReceivedIs ==
  ASSUME FlowInv, Live
  PROVE  /\ received \in Seq(Things) /\ Len(received) \in Nat
         /\ \A i \in 1..Len(received) :
              /\ i \in 1..Len(Flow["sent"]) /\ Flow["sent"][i] = received[i]
              /\ received[i] \in Things
         /\ NothingTwice(Flow) /\ InOrder(Flow) /\ NothingForeign(Flow, emitted, Known)
<1>1. received \in Seq(Things) /\ buffer \in Seq(Things) /\ FlowSound(Flow, emitted, Known)
  BY DEF FlowInv
<1>2. \A i \in 1..Len(received) : i \in 1..Len(Sent) /\ Sent[i] = received[i]
  BY <1>1, Joined DEF Sent
<1>3. Flow["sent"] = Sent
  BY FlowIs
<1>4. \A i \in 1..Len(received) : received[i] \in Things
  BY <1>1, ElementOfSeq
<1>5. Len(received) \in Nat
  BY <1>1, LenProperties
<1> QED  BY <1>1, <1>2, <1>3, <1>4, <1>5 DEF FlowSound

LEMMA ReceivedNow == FlowInv /\ Live => ReceivedOnce
<1> SUFFICES ASSUME FlowInv, Live,
                    NEW i \in 1..Len(received), NEW j \in 1..Len(received),
                    received[i] = received[j], received[i] # Terminate
             PROVE  i = j
  BY DEF ReceivedOnce
<1>1. /\ i \in 1..Len(Flow["sent"]) /\ Flow["sent"][i] = received[i]
      /\ j \in 1..Len(Flow["sent"]) /\ Flow["sent"][j] = received[j]
      /\ NothingTwice(Flow)
  BY ReceivedIs
<1>2. "sent" \in Places
  BY PlacesAre
<1> QED  BY <1>1, <1>2 DEF NothingTwice

LEMMA ReceivedStep ==
  ASSUME FlowInv, TypeInv, FlowInv', ReceivedOnce, [Next]_vars
  PROVE  ReceivedOnce'
<1>1. CASE received' = received
  BY <1>1 DEF ReceivedOnce
<1>2. CASE peer' = "open"
  <2>1. Live'
    BY <1>2 DEF Live
  <2>2. (FlowInv /\ Live => ReceivedOnce)'
    BY ReceivedNow, PTL
  <2> QED  BY <2>1, <2>2
<1> QED  BY <1>1, <1>2, ReceivedGrows

-------------------------------------------------------------------------------
(* The last loops. *)

LEMMA DrainInit == Init => DrainInv
BY DEF Init, DrainInv

(* The steps that enter the places DrainInv speaks of. *)
LEMMA DrainEntered ==
  ASSUME [Next]_vars
  PROVE  /\ worker' = "serial" => Dequeue \/ UNCHANGED control
         /\ (worker' = "settle" /\ ~disconnecting') => DequeueSerial \/ UNCHANGED control
         /\ worker' = "terminate" => SettleDrain \/ UNCHANGED <<control, buffer>>
         /\ loop' = "final" => SendTerminate \/ loop = "final"
<1> USE DEF control
<1>1. CASE Program \/ Destructor \/ SymbolWorker \/ Server \/ UNCHANGED vars
  BY <1>1 DEF Program, Destructor, SymbolWorker, Server, Emit, BeginShutdown, JoinSymbolWorker,
     JoinWorker, SymbolTest, SymbolFront, SymbolPop, Connect, Leave, Finish, Ask, wire, vars
<1>2. CASE Deaf \/ AcceptTest \/ Accept \/ Handshake \/ RejectTest \/ RejectAccept \/ TurnAway
  BY <1>2 DEF Deaf, AcceptTest, Accept, Handshake, RejectTest, RejectAccept, TurnAway, Return, Goto,
     wire
<1>3. CASE LeaveMain \/ WaitForSymbolWorker \/ NoQuery \/ ReadFails \/ Discard \/ WorkerFront
           \/ WorkerPop
  BY <1>3 DEF LeaveMain, WaitForSymbolWorker, NoQuery, ReadFails, Discard, WorkerFront, WorkerPop,
     Refused, Goto, wire
<1>4. CASE TerminateQuery \/ DisconnectQuery \/ (\E query \in Slow : SlowQuery(query))
           \/ (\E query \in Fast : FastQuery(query))
  BY <1>4 DEF TerminateQuery, DisconnectQuery, SlowQuery, FastQuery, Reads, Refused, Goto
<1>5. CASE SettleMain \/ SettleDrain \/ SettleFinal \/ SettleDisconnect
  BY <1>5 DEF SettleMain, SettleDrain, SettleFinal, SettleDisconnect, Refused, Return, Goto
<1>6. CASE SendTerminate \/ Dequeue \/ DequeueSerial
  BY <1>6 DEF SendTerminate, Dequeue, DequeueSerial
<1> QED  BY <1>1, <1>2, <1>3, <1>4, <1>5, <1>6 DEF Next, Worker

(* Nothing new comes into the queues of events, and no new connection is   *)
(* made. *)
LEMMA NothingNew ==
  ASSUME LoopInv, TypeInv, PlaceInv, [Next]_vars, loop' # "comm"
  PROVE  /\ emitted' = emitted
         /\ lfq["app"] = <<>> => lfq'["app"] = <<>>
         /\ serialQueue = <<>> => serialQueue' = <<>>
         /\ peer' = "open" => peer = "open"
         /\ Disconnected => Disconnected'
<1>1. /\ lfq \in [Producers -> Seq(Things)] /\ "app" \in Producers /\ "symbol" \in Producers
      /\ "worker" \in Producers
  BY PlacesAre DEF TypeInv
<1>2. ASSUME NEW p \in Producers, lfq' = [lfq EXCEPT ![p] = <<>>], lfq["app"] = <<>>
      PROVE  lfq'["app"] = <<>>
  BY <1>1, <1>2
<1>3. ASSUME NEW p \in {"symbol", "worker"}, NEW x, lfq' = [lfq EXCEPT ![p] = Append(@, x)]
      PROVE  lfq'["app"] = lfq["app"]
  BY <1>1, <1>3
<1>4. CASE Program \/ WaitForSymbolWorker
  <2>1. ASSUME NEW source \in Sources, Emit(source) PROVE FALSE
    BY <2>1 DEF Emit, control, PlaceInv
  <2> QED
    BY <1>4, <2>1 DEF Program, BeginShutdown, WaitForSymbolWorker, queues, serialVars, programVars,
       connection, server, Disconnected
<1>5. CASE Destructor \/ SymbolTest \/ SymbolPop \/ Connect \/ Leave \/ Finish \/ UNCHANGED vars
  BY <1>5 DEF Destructor, JoinSymbolWorker, JoinWorker, SymbolTest, SymbolPop, Connect, Leave, Finish,
     queues, serialVars, programVars, connection, server, Disconnected, vars
<1>6. CASE SymbolFront \/ WorkerFront
  <2>1. lfq' = lfq \/ lfq'["app"] = lfq["app"]
    BY <1>3, <1>6 DEF SymbolFront, WorkerFront
  <2> QED
    BY <1>6, <2>1 DEF SymbolFront, WorkerFront, serialVars, programVars, connection, server,
       Disconnected
<1>7. CASE Deaf \/ RejectTest \/ Discard
  <2>1. lfq' = lfq \/ lfq' = [p \in Producers |-> <<>>]
    BY <1>7 DEF Deaf, RejectTest, Discard, ClearQueues, queues
  <2>2. serialQueue' = serialQueue \/ serialQueue' = <<>>
    BY <1>7 DEF Deaf, RejectTest, Discard, ClearQueues, queues, serialVars
  <2> QED
    BY <1>1, <1>7, <2>1, <2>2 DEF Deaf, RejectTest, Discard, programVars, connection, server,
       Disconnected
<1>8. CASE AcceptTest \/ Accept \/ Handshake \/ RejectAccept \/ TurnAway \/ LeaveMain
  <2>1. ~Handshake
    BY DEF Handshake, CloseSocket, Goto, LoopInv, Before
  <2> QED
    BY <1>8, <2>1 DEF AcceptTest, Accept, RejectAccept, TurnAway, LeaveMain, CloseSocket, queues,
       serialVars, programVars, connection, server, Disconnected
<1>9. CASE Dequeue
  <2>1. lfq["app"] = <<>> => lfq'["app"] = <<>>
    BY <1>2, <1>9 DEF Dequeue
  <2> QED  BY <1>9, <2>1 DEF Dequeue, serialVars, programVars, connection, server, Disconnected
<1>10. CASE DequeueSerial
  BY <1>10 DEF DequeueSerial, programVars, connection, server, Disconnected
<1>11. CASE SettleMain \/ SettleDrain \/ SettleFinal \/ SettleDisconnect \/ SendTerminate \/ NoQuery
            \/ ReadFails \/ WorkerPop
  BY <1>11 DEF SettleMain, SettleDrain, SettleFinal, SettleDisconnect, SendTerminate, NoQuery,
     ReadFails, WorkerPop, queues, serialVars, programVars, connection, server, Disconnected
<1>12. CASE TerminateQuery \/ DisconnectQuery \/ (\E query \in Slow : SlowQuery(query))
            \/ (\E query \in Fast : FastQuery(query))
  BY <1>12 DEF TerminateQuery, DisconnectQuery, SlowQuery, FastQuery, Reads, serialVars, programVars,
     server, Disconnected
<1>13. ASSUME NEW query, Ask(query)
       PROVE  /\ UNCHANGED <<emitted, lfq, serialQueue, peer>> /\ (Disconnected => Disconnected')
  BY <1>13 DEF Ask, queues, serialVars, programVars, Disconnected
<1> QED
  BY <1>4, <1>5, <1>6, <1>7, <1>8, <1>9, <1>10, <1>11, <1>12, <1>13
  DEF Next, Program, SymbolWorker, Worker, Server

(* When all the queues are empty, and the frame is, the server has it all. *)
LEMMA AllReceived ==
  ASSUME Going, ~Disconnected, buffer = <<>>, lfq["app"] = <<>>, serialQueue = <<>>
  PROVE  \A s \in Sources : \A n \in 1..emitted[s] : Received(Event(s, n))
<1> SUFFICES ASSUME NEW s \in Sources, NEW n \in 1..emitted[s] PROVE Received(Event(s, n))
  OBVIOUS
<1>1. NothingLost(Flow, emitted) /\ FlowTyped(Flow) /\ received \in Seq(Things)
  BY Goes DEF FlowSound
<1>2. PICK p \in Places : \E i \in 1..Len(Flow[p]) : Flow[p][i] = Event(s, n)
  BY <1>1 DEF NothingLost
<1>3. PICK i \in 1..Len(Flow[p]) : Flow[p][i] = Event(s, n)
  BY <1>2
<1>4. p = "sent"
  <2> SUFFICES ASSUME p # "sent" PROVE FALSE
    OBVIOUS
  <2>1. p \in Queues /\ Flow[p][i][1] \in Sources /\ Flow[p][i][1] = s
    BY <1>3 DEF Places, Event
  <2>2. p = s
    BY <1>1, <2>1, Homes
  <2>3. Flow[p] = <<>>
    BY <2>2, FlowIs, PlacesAre
  <2> QED  BY <2>3
<1>5. Sent = received
  BY <1>1, ConcatEmptySeq DEF Sent
<1>6. i \in 1..Len(received) /\ received[i] = Event(s, n)
  BY <1>3, <1>4, <1>5, FlowIs
<1> QED  BY <1>6 DEF Received

LEMMA StaysReceived ==
  ASSUME FlowInv, TypeInv, [Next]_vars, Live, NEW x, Received(x)
  PROVE  Received(x)'
<1>1. received \in Seq(Things)
  BY DEF FlowInv
<1>2. CASE received' = received
  BY <1>2 DEF Received
<1>3. CASE \E more \in Seq(Things) : received' = received \o more
  <2>1. PICK more \in Seq(Things) : received' = received \o more
    BY <1>3
  <2>2. \A i \in 1..Len(received) : i \in 1..Len(received') /\ received'[i] = received[i]
    BY <1>1, <2>1, Joined
  <2> QED  BY <2>2 DEF Received
<1> QED  BY <1>2, <1>3, ReceivedGrows

LEMMA DrainStep ==
  ASSUME LoopInv, TypeInv, PlaceInv, FlowInv, DrainInv, [Next]_vars
  PROVE  DrainInv'
<1>1. ASSUME loop' # "comm"
      PROVE  /\ emitted' = emitted
             /\ lfq["app"] = <<>> => lfq'["app"] = <<>>
             /\ serialQueue = <<>> => serialQueue' = <<>>
             /\ peer' = "open" => peer = "open"
             /\ Disconnected => Disconnected'
  BY <1>1, NothingNew
<1>2. peer = "open" => Going /\ Live
  BY DEF Going, Live
<1>3. ASSUME loop' # "comm", worker' = "serial", status' = "empty" PROVE lfq'["app"] = <<>>
  <2>1. CASE Dequeue
    <3>1. \A p \in Producers : lfq[p] = <<>>
      BY <1>3, <2>1 DEF Dequeue
    <3>2. lfq["app"] = <<>>
      BY <3>1, PlacesAre
    <3> QED  BY <1>1, <1>3, <3>2
  <2>2. CASE UNCHANGED control
    BY <1>1, <1>3, <2>2 DEF control, DrainInv
  <2> QED  BY <1>3, <2>1, <2>2, DrainEntered
<1>4. ASSUME loop' # "comm", worker' = "settle", ~disconnecting', status' = "empty"
      PROVE  lfq'["app"] = <<>> /\ (peer' = "open" => serialQueue' = <<>>)
  <2>1. CASE DequeueSerial
    <3>1. worker = "serial" /\ status = "empty" /\ loop' = loop /\ peer' = peer
      BY <1>4, <2>1 DEF DequeueSerial, connection
    <3>2. lfq'["app"] = <<>>
      BY <1>1, <1>4, <3>1 DEF DrainInv
    <3>3. peer' = "open" => serialQueue' = <<>>
      BY <1>2, <2>1, <3>1, FlowDequeueSerial
    <3> QED  BY <3>2, <3>3
  <2>2. CASE UNCHANGED control
    BY <1>1, <1>4, <2>2 DEF control, DrainInv
  <2> QED  BY <1>4, <2>1, <2>2, DrainEntered
<1>5. ASSUME worker' = "terminate"
      PROVE  buffer' = <<>> /\ lfq'["app"] = <<>> /\ (peer' = "open" => serialQueue' = <<>>)
  <2>1. CASE SettleDrain
    <3>1. /\ worker = "settle" /\ loop = "drain" /\ ~disconnecting /\ status = "empty"
          /\ CommitData /\ loop' = loop
      BY <1>5, <2>1 DEF SettleDrain, Return, Goto
    <3>2. lfq["app"] = <<>> /\ (peer = "open" => serialQueue = <<>>)
      BY <3>1 DEF DrainInv
    <3> QED  BY <1>1, <3>1, <3>2 DEF CommitData
  <2>2. CASE UNCHANGED <<control, buffer>>
    <3>1. worker = "terminate" /\ loop' = "drain"
      BY <1>5, <2>2 DEF control, LoopInv
    <3> QED  BY <1>1, <2>2, <3>1 DEF DrainInv
  <2> QED  BY <1>5, <2>1, <2>2, DrainEntered
<1>6. ASSUME loop' = "final", peer' = "open", ~Disconnected', NEW s \in Sources, NEW n \in 1..emitted'[s]
      PROVE  Received(Event(s, n))'
  <2>1. emitted' = emitted /\ peer = "open" /\ ~Disconnected
    BY <1>1, <1>6
  <2>2. Going /\ Live
    BY <1>2, <2>1
  <2>3. Received(Event(s, n))
    <3>1. CASE SendTerminate
      <4>1. buffer = <<>> /\ lfq["app"] = <<>> /\ serialQueue = <<>>
        BY <2>1, <3>1 DEF SendTerminate, DrainInv
      <4> QED  BY <1>6, <2>1, <2>2, <4>1, AllReceived
    <3>2. CASE loop = "final"
      BY <1>6, <2>1, <3>2 DEF DrainInv
    <3> QED  BY <1>6, <3>1, <3>2, DrainEntered
  <2> QED  BY <2>2, <2>3, StaysReceived
<1> QED  BY <1>3, <1>4, <1>5, <1>6 DEF DrainInv

-------------------------------------------------------------------------------
(* The theorems. *)

ProfilerInv == LoopInv /\ TypeInv /\ PlaceInv /\ FlowInv /\ DrainInv /\ ReceivedOnce

LEMMA ProfilerInitially == Init => ProfilerInv
<1>1. Init => ReceivedOnce
  BY DEF Init, ReceivedOnce
<1> QED  BY <1>1, LoopInit, TypeInit, PlaceInit, FlowInit, DrainInit DEF ProfilerInv

LEMMA ProfilerStep == ProfilerInv /\ [Next]_vars => ProfilerInv'
<1> SUFFICES ASSUME ProfilerInv, [Next]_vars PROVE ProfilerInv'
  OBVIOUS
<1>1. LoopInv /\ TypeInv /\ PlaceInv /\ FlowInv /\ DrainInv /\ ReceivedOnce
  BY DEF ProfilerInv
<1>2. LoopInv' /\ TypeInv' /\ PlaceInv'
  BY <1>1, LoopStep, TypeStep, PlaceStep
<1>3. FlowInv'
  BY <1>1, FlowStep
<1>4. DrainInv'
  BY <1>1, DrainStep
<1>5. ReceivedOnce'
  BY <1>1, <1>3, ReceivedStep
<1> QED  BY <1>2, <1>3, <1>4, <1>5 DEF ProfilerInv

(* A server receives no event and no answer twice, whichever thread        *)
(* answered it, however its queues were swapped and however the connection *)
(* ended, for every number of events and queries and every size of the     *)
(* frames and the symbol queue. *)
THEOREM EachReceivedOnce == Spec => []ReceivedOnce
<1>1. ProfilerInv => ReceivedOnce
  BY DEF ProfilerInv
<1> QED  BY <1>1, ProfilerInitially, ProfilerStep, PTL DEF Spec

LEMMA SentInOrder ==
  ASSUME FlowInv, Live, NEW s \in Sources, NEW i \in FromSource(s), NEW j \in FromSource(s), i < j
  PROVE  received[i][2] < received[j][2]
<1>1. i \in 1..Len(received) /\ j \in 1..Len(received) /\ received[i][1] = s /\ received[j][1] = s
  BY DEF FromSource
<1>2. /\ i \in 1..Len(Flow["sent"]) /\ Flow["sent"][i] = received[i]
      /\ j \in 1..Len(Flow["sent"]) /\ Flow["sent"][j] = received[j]
      /\ InOrder(Flow)
  BY <1>1, ReceivedIs
<1>3. "sent" \in Places /\ Precedes("sent", i, "sent", j)
  BY PlacesAre DEF Precedes
<1> QED  BY <1>1, <1>2, <1>3 DEF InOrder

LEMMA AllSent ==
  ASSUME TypeInv, FlowInv, DrainInv
  PROVE  AllSentBeforeEnd
<1> SUFFICES ASSUME loop = "final", peer = "open", ~Disconnected, NEW s \in Sources
             PROVE  /\ {received[i][2] : i \in FromSource(s)} = 1..emitted[s]
                    /\ \A i, j \in FromSource(s) : i < j => received[i][2] < received[j][2]
  BY DEF AllSentBeforeEnd
<1>1. Live
  BY DEF Live
<1>2. \A i, j \in FromSource(s) : i < j => received[i][2] < received[j][2]
  BY <1>1, SentInOrder
<1>3. ASSUME NEW i \in FromSource(s) PROVE received[i][2] \in 1..emitted[s]
  <2>1. i \in 1..Len(received) /\ received[i][1] = s
    BY DEF FromSource
  <2>2. /\ i \in 1..Len(Flow["sent"]) /\ Flow["sent"][i] = received[i] /\ received[i] \in Things
        /\ NothingForeign(Flow, emitted, Known)
    BY <1>1, <2>1, ReceivedIs
  <2>3. "sent" \in Places
    BY PlacesAre
  <2>4. received[i][2] <= emitted[s]
    BY <2>1, <2>2, <2>3 DEF NothingForeign
  <2>5. received[i][2] \in Nat \ {0}
    <3>1. received[i] # Terminate /\ received[i][1] # "answer"
      BY <2>1 DEF Terminate, Sources
    <3> QED  BY <2>2, <3>1, ThingIs
  <2>6. emitted[s] \in Nat
    BY DEF TypeInv
  <2> QED  BY <2>4, <2>5, <2>6
<1>4. ASSUME NEW n \in 1..emitted[s] PROVE \E i \in FromSource(s) : received[i][2] = n
  <2>1. Received(Event(s, n))
    BY DEF DrainInv
  <2>2. PICK i \in 1..Len(received) : received[i] = Event(s, n)
    BY <2>1 DEF Received
  <2>3. i \in FromSource(s) /\ received[i][2] = n
    BY <2>2 DEF FromSource, Event
  <2> QED  BY <2>3
<1> QED  BY <1>2, <1>3, <1>4

(* When a client that ends tells a server that is still connected and did  *)
(* not ask it to disconnect that it does, the server has every event the   *)
(* program ever emitted, in the order of its queue.                        *)
THEOREM AllSentAtEnd == Spec => []AllSentBeforeEnd
<1>1. ProfilerInv => AllSentBeforeEnd
  BY AllSent DEF ProfilerInv
<1> QED  BY <1>1, ProfilerInitially, ProfilerStep, PTL DEF Spec
===============================================================================
