------------------------- MODULE SubscriberActorProofs -------------------------
(***************************************************************************)
(* Theorems about SubscriberActor, for every stream of objects and every   *)
(* capacity of the channels.                                               *)
(***************************************************************************)
EXTENDS SubscriberActor, SequenceTheorems, TLAPS

Ops == {"Connect", "OpenControlStream", "Subscribe", "SubscribeOk", "OpenDataStream",
        "Terminate"}

Commands == {Command(op) : op \in Ops} \cup {ProcessObject(Stream[i]) : i \in 1..Len(Stream)}

Queued == 1..Len(cmd_rx)
Final(i) == cmd_rx[i].op = "Terminate"

\* All that is queued is what the state waits for, or the one Terminate that
\* the control reader sends as its last act.
QueueInv ==
    /\ cmd_rx \in Seq(Commands)
    /\ \A i \in Queued : Final(i) => control_reader = "done"
    /\ \A i, j \in Queued : Final(i) /\ Final(j) => i = j
    /\ state # "Terminated" =>
        \A i \in Queued : ~Final(i) => Accepts(state, cmd_rx[i].op)

\* Until the data stream is open there is at most one command under way, in the
\* queue or with a handler that is to send it.
OneCommand ==
    data_reader = "none" /\ state # "Terminated" =>
        /\ \A i, j \in Queued : ~Final(i) /\ ~Final(j) => i = j
        /\ awaiting.to = "self" => \A i \in Queued : Final(i)

\* What the state says of the readers and of the running handler.
StageInv ==
    /\ state \in States
    /\ ~running => state = "Terminated"
    /\ state \in {"Initial", "Subscribing", "Terminated"} => awaiting = Nothing
    /\ awaiting.to = "self" =>
        /\ data_reader = "none" /\ awaiting.cmd \in Commands
        /\ awaiting.cmd.op # "Terminate" /\ Accepts(state, awaiting.cmd.op)
    /\ data_reader # "none" => state \in {"Subscribed", "Terminated"}
    /\ subscribed => state \in {"Subscribing", "Subscribed", "Terminated"}
    /\ state = "Subscribed" => answered
    /\ \A i \in Queued : cmd_rx[i].op = "SubscribeOk" => answered
    /\ \A i \in Queued : cmd_rx[i].op = "OpenDataStream" => data_reader = "none"
    /\ answered => subscribed
    /\ state \in {"Initial", "Connecting"} => control_reader = "none"
    /\ returned = "pending" => state = "Initial" /\ cmd_rx = <<>>

CommandInv == QueueInv /\ OneCommand /\ StageInv

ReadInv == read \in Nat

LEMMA InitCommandInv == SubscriberInit => CommandInv /\ ReadInv
  BY DEF SubscriberInit, ReadInv, CommandInv, QueueInv, OneCommand, StageInv, States, Nothing, Queued

\* What a command is told by.
LEMMA CommandOps ==
    /\ \A op \in Ops : Command(op) \in Commands /\ Command(op).op = op
    /\ \A i \in 1..Len(Stream) : /\ ProcessObject(Stream[i]) \in Commands
                                 /\ ProcessObject(Stream[i]).op = "ProcessObject"
  BY DEF Commands, Command, ProcessObject

\* The queue after a command is taken, and after one is sent.
LEMMA AfterRecv ==
    ASSUME cmd_rx \in Seq(Commands), cmd_rx # <<>>, cmd_rx' = Tail(cmd_rx)
    PROVE  /\ cmd_rx' \in Seq(Commands) /\ Len(cmd_rx) \in Nat \ {0}
           /\ Len(cmd_rx') = Len(cmd_rx) - 1
           /\ \A i \in Queued' : i + 1 \in Queued /\ cmd_rx'[i] = cmd_rx[i + 1]
           /\ Head(cmd_rx) = cmd_rx[1] /\ 1 \in Queued
  BY DEF Queued

LEMMA AfterSend ==
    ASSUME cmd_rx \in Seq(Commands), NEW cmd \in Commands, cmd_rx' = Append(cmd_rx, cmd)
    PROVE  /\ cmd_rx' \in Seq(Commands) /\ Len(cmd_rx) \in Nat
           /\ Queued' = Queued \cup {Len(cmd_rx) + 1} /\ Len(cmd_rx) + 1 \notin Queued
           /\ \A i \in Queued : cmd_rx'[i] = cmd_rx[i]
           /\ cmd_rx'[Len(cmd_rx) + 1] = cmd
  BY DEF Queued

\* The handlers of the commands that the actor sends itself, and of the answer,
\* take the one command that is under way.
LEMMA HandlerQueue ==
    ASSUME CommandInv,
           \/ handle_connect \/ handle_open_control_stream \/ handle_subscribe
           \/ handle_subscribe_ok \/ handle_open_data_stream
    PROVE  /\ running /\ awaiting = Nothing /\ cmd_rx # <<>> /\ cmd_rx' = Tail(cmd_rx)
           /\ state # "Terminated" /\ data_reader = "none" /\ ~Final(1)
           /\ cmd_rx' \in Seq(Commands)
           /\ \A i \in Queued' : i + 1 \in Queued /\ i + 1 # 1 /\ cmd_rx'[i] = cmd_rx[i + 1]
           /\ Head(cmd_rx) = cmd_rx[1] /\ 1 \in Queued
           /\ \A i \in Queued' : Final(i)'
<1>1. /\ running /\ awaiting = Nothing /\ cmd_rx # <<>> /\ cmd_rx' = Tail(cmd_rx)
      /\ cmd_rx \in Seq(Commands) /\ state # "Terminated"
  BY DEF CommandInv, QueueInv, handle_connect, handle_open_control_stream, handle_subscribe,
     handle_subscribe_ok, handle_open_data_stream, Recv
<1>2. /\ cmd_rx' \in Seq(Commands)
      /\ \A i \in Queued' : i + 1 \in Queued /\ i + 1 # 1 /\ cmd_rx'[i] = cmd_rx[i + 1]
      /\ Head(cmd_rx) = cmd_rx[1] /\ 1 \in Queued
  <2>1. \A i \in Queued' : i + 1 # 1
    BY DEF Queued
  <2> QED
    BY <1>1, <2>1, AfterRecv
<1>3. ~Final(1) /\ data_reader = "none"
  <2>1. Head(cmd_rx).op # "Terminate"
    BY CommandOps DEF Ops, handle_connect, handle_open_control_stream, handle_subscribe,
     handle_subscribe_ok, handle_open_data_stream, Recv
  <2>2. CASE handle_open_data_stream
    <3>1. cmd_rx[1].op = "OpenDataStream"
      BY <1>2, <2>2, CommandOps DEF Ops, handle_open_data_stream, Recv
    <3> QED
      BY <1>2, <2>1, <3>1 DEF CommandInv, StageInv, Final
  <2>3. CASE ~handle_open_data_stream
    <3>1. state # "Subscribed"
      BY <2>3 DEF handle_connect, handle_open_control_stream, handle_subscribe,
         handle_subscribe_ok
    <3> QED
      BY <1>1, <1>2, <2>1, <3>1 DEF CommandInv, StageInv, Final
  <2> QED
    BY <2>2, <2>3
<1>4. \A i \in Queued' : Final(i)'
  BY <1>1, <1>2, <1>3 DEF CommandInv, OneCommand, Final
<1> QED
  BY <1>1, <1>2, <1>3, <1>4

LEMMA HandlerCommandInv ==
    ASSUME CommandInv,
           \/ handle_connect \/ handle_open_control_stream \/ handle_subscribe
           \/ handle_subscribe_ok \/ handle_open_data_stream
    PROVE  CommandInv'
<1>1. /\ running /\ awaiting = Nothing /\ cmd_rx # <<>> /\ cmd_rx' = Tail(cmd_rx)
      /\ state # "Terminated"
  BY HandlerQueue
<1>2. /\ cmd_rx' \in Seq(Commands)
      /\ \A i \in Queued' : i + 1 \in Queued /\ i + 1 # 1 /\ cmd_rx'[i] = cmd_rx[i + 1]
      /\ Head(cmd_rx) = cmd_rx[1] /\ 1 \in Queued
  BY HandlerQueue
<1>3. ~Final(1) /\ data_reader = "none"
  BY HandlerQueue
<1>4. \A i \in Queued' : Final(i)'
  BY HandlerQueue
<1>5. \A i, j \in Queued' : Final(i)' /\ Final(j)' => i = j
  <2> SUFFICES ASSUME NEW i \in Queued', NEW j \in Queued', Final(i)', Final(j)' PROVE i = j
    OBVIOUS
  <2>1. Final(i + 1) /\ Final(j + 1) /\ i + 1 \in Queued /\ j + 1 \in Queued
    BY <1>2 DEF Final
  <2>2. i + 1 = j + 1
    BY <2>1 DEF CommandInv, QueueInv
  <2> QED
    BY <2>2 DEF Queued
<1>6. \A i \in Queued' : Final(i)' => control_reader = "done"
  BY <1>2 DEF CommandInv, QueueInv, Final
<1>7. \A i \in Queued' : Final(i)' => control_reader' = "done"
  <2>1. CASE handle_open_control_stream
    <3>1. control_reader = "none"
      BY <2>1 DEF handle_open_control_stream, CommandInv, StageInv
    <3> QED
      BY <1>4, <1>6, <3>1
  <2>2. CASE ~handle_open_control_stream
    <3>1. UNCHANGED control_reader
      BY <2>2 DEF handle_connect, handle_subscribe, handle_subscribe_ok,
         handle_open_data_stream, readerVars
    <3> QED
      BY <1>6, <3>1
  <2> QED
    BY <2>1, <2>2
<1>8. QueueInv'
  BY <1>2, <1>4, <1>5, <1>7 DEF QueueInv
<1>9. OneCommand'
  BY <1>4 DEF OneCommand
<1>10. \A i \in Queued' : cmd_rx'[i].op \notin {"SubscribeOk", "OpenDataStream"}
  BY <1>4 DEF Final
<1>11. StageInv'
  <2>0. /\ ToSelf("OpenControlStream").cmd \in Commands
        /\ ToSelf("OpenControlStream").cmd.op = "OpenControlStream"
        /\ ToSelf("Subscribe").cmd \in Commands /\ ToSelf("Subscribe").cmd.op = "Subscribe"
        /\ ToSelf("OpenDataStream").cmd \in Commands
        /\ ToSelf("OpenDataStream").cmd.op = "OpenDataStream"
        /\ Nothing.to # "self" /\ \A op \in Ops : ToSelf(op) # Nothing
    BY CommandOps DEF Ops, ToSelf, Command, Nothing
  <2>1. CASE handle_connect
    BY <1>1, <1>3, <1>10, <2>0, <2>1 DEF handle_connect, handle_terminate, CommandInv, StageInv,
       States, Accepts, Recv, readerVars, Final
  <2>2. CASE handle_open_control_stream
    BY <1>1, <1>3, <1>10, <2>0, <2>2 DEF handle_open_control_stream, handle_terminate,
       CommandInv, StageInv, States, Accepts, Recv
  <2>3. CASE handle_subscribe
    BY <1>1, <1>3, <1>10, <2>0, <2>3 DEF handle_subscribe, handle_terminate,
       CommandInv, StageInv, States, Accepts, Recv
  <2>4. CASE handle_subscribe_ok
    <3>1. cmd_rx[1].op = "SubscribeOk"
      BY <1>2, <2>4, CommandOps DEF Ops, handle_subscribe_ok, Recv
    <3>2. answered
      BY <1>2, <3>1 DEF CommandInv, StageInv
    <3> QED
      BY <1>1, <1>3, <1>10, <2>0, <2>4, <3>2 DEF handle_subscribe_ok,
         CommandInv, StageInv, States, Accepts, Recv, readerVars
  <2>5. CASE handle_open_data_stream
    BY <1>1, <1>3, <1>10, <2>0, <2>5 DEF handle_open_data_stream, handle_terminate,
       CommandInv, StageInv, States, Accepts, Recv, actorVars
  <2> QED
    BY <2>1, <2>2, <2>3, <2>4, <2>5
<1> QED
  BY <1>8, <1>9, <1>11 DEF CommandInv

\* What is left of the queue keeps its invariant, whatever the command taken.
LEMMA TakenQueueInv ==
    ASSUME CommandInv, cmd_rx # <<>>, cmd_rx' = Tail(cmd_rx), UNCHANGED control_reader,
           state' \in {state, "Terminated"}
    PROVE  QueueInv'
<1>1. /\ cmd_rx' \in Seq(Commands)
      /\ \A i \in Queued' : i + 1 \in Queued /\ cmd_rx'[i] = cmd_rx[i + 1]
  BY AfterRecv DEF CommandInv, QueueInv
<1>2. \A i \in Queued' : Final(i)' => control_reader' = "done"
  BY <1>1 DEF CommandInv, QueueInv, Final
<1>3. ASSUME NEW i \in Queued', NEW j \in Queued', Final(i)', Final(j)' PROVE i = j
  <2>1. Final(i + 1) /\ Final(j + 1) /\ i + 1 \in Queued /\ j + 1 \in Queued
    BY <1>1, <1>3 DEF Final
  <2>2. i + 1 = j + 1
    BY <2>1 DEF CommandInv, QueueInv
  <2> QED
    BY <2>2 DEF Queued
<1>4. state' # "Terminated" => \A i \in Queued' : ~Final(i)' => Accepts(state', cmd_rx'[i].op)
  BY <1>1 DEF CommandInv, QueueInv, Final
<1> QED
  BY <1>1, <1>2, <1>3, <1>4 DEF QueueInv

\* The other commands that are taken: Terminate, an object, and what a
\* terminated actor still finds in its queue.
LEMMA TakeCommandInv ==
    ASSUME CommandInv,
           \/ process_terminate \/ discard
           \/ \E i \in 1..Len(Stream) : handle_process_object(Stream[i])
    PROVE  CommandInv'
<1>1. /\ cmd_rx # <<>> /\ cmd_rx' = Tail(cmd_rx) /\ awaiting = Nothing
      /\ UNCHANGED <<control_reader, data_reader, subscribed, answered, returned>>
      /\ state' \in {state, "Terminated"}
  BY DEF process_terminate, discard, handle_process_object, Recv, readerVars, actorVars,
     handle_terminate
<1>2. QueueInv'
  BY <1>1, TakenQueueInv
<1>3. /\ \A i \in Queued' : i + 1 \in Queued /\ cmd_rx'[i] = cmd_rx[i + 1]
      /\ Head(cmd_rx) = cmd_rx[1] /\ 1 \in Queued
  BY <1>1, AfterRecv DEF CommandInv, QueueInv
<1>4. /\ \A i \in Queued' : cmd_rx'[i].op = "SubscribeOk" => answered
      /\ \A i \in Queued' : cmd_rx'[i].op = "OpenDataStream" => data_reader = "none"
      /\ returned # "pending"
  BY <1>1, <1>3 DEF CommandInv, StageInv
<1>5. CASE state' = "Terminated" /\ awaiting' = Nothing
  <2>1. OneCommand'
    BY <1>5 DEF OneCommand
  <2>2. StageInv'
    BY <1>1, <1>4, <1>5 DEF CommandInv, StageInv, States, Nothing
  <2> QED
    BY <1>2, <2>1, <2>2 DEF CommandInv
<1>6. CASE process_terminate
  BY <1>1, <1>5, <1>6 DEF process_terminate, handle_terminate
<1>7. CASE discard
  <2>1. state = "Terminated"
    BY <1>3, <1>7 DEF discard, CommandInv, QueueInv, Final
  <2> QED
    BY <1>1, <1>5, <1>7, <2>1 DEF discard, actorVars
<1>8. ASSUME NEW k \in 1..Len(Stream), handle_process_object(Stream[k]) PROVE CommandInv'
  <2>1. /\ state = "Subscribed" /\ state' = state /\ running' = running
        /\ awaiting'.to # "self"
    BY <1>1, <1>8 DEF handle_process_object, actorVars, ToApp, ChannelOf, Nothing
  <2>2. OneCommand'
    <3>1. ASSUME data_reader = "none", NEW i \in Queued', NEW j \in Queued',
                 ~Final(i)', ~Final(j)'
          PROVE  i = j
      <4>1. /\ i + 1 \in Queued /\ j + 1 \in Queued /\ ~Final(i + 1) /\ ~Final(j + 1)
        BY <1>3, <3>1 DEF Final
      <4>2. i + 1 = j + 1
        BY <2>1, <3>1, <4>1 DEF CommandInv, OneCommand
      <4> QED
        BY <4>2 DEF Queued
    <3> QED
      BY <1>1, <2>1, <3>1 DEF OneCommand
  <2>3. StageInv'
    BY <1>1, <1>4, <2>1 DEF CommandInv, StageInv, States
  <2> QED
    BY <1>2, <2>2, <2>3 DEF CommandInv
<1> QED
  BY <1>6, <1>7, <1>8

\* A command is added to the queue: by the running handler, or a reader.
LEMMA SentCommandInv ==
    ASSUME CommandInv, ReadInv, self_send \/ read_subscribe_ok \/ control_error \/ read_object
    PROVE  CommandInv'
<1>0. cmd_rx \in Seq(Commands)
  BY DEF CommandInv, QueueInv
<1>1. CASE self_send
  <2>1. /\ awaiting.to = "self" /\ awaiting.cmd \in Commands /\ awaiting.cmd.op # "Terminate"
        /\ Accepts(state, awaiting.cmd.op) /\ data_reader = "none"
        /\ awaiting' = Nothing /\ cmd_rx' = Append(cmd_rx, awaiting.cmd)
        /\ UNCHANGED <<state, running, control_reader, data_reader, subscribed, answered, returned>>
    BY <1>1 DEF self_send, CommandInv, StageInv, actorVars, readerVars
  <2>2. /\ cmd_rx' \in Seq(Commands)
        /\ Queued' = Queued \cup {Len(cmd_rx) + 1} /\ Len(cmd_rx) + 1 \notin Queued
        /\ \A i \in Queued : cmd_rx'[i] = cmd_rx[i]
        /\ cmd_rx'[Len(cmd_rx) + 1] = awaiting.cmd
    BY <1>0, <2>1, AfterSend
  <2>3. QueueInv'
    <3>1. cmd_rx'[Len(cmd_rx) + 1].op # "Terminate"
          /\ Accepts(state', cmd_rx'[Len(cmd_rx) + 1].op)
      BY <2>1, <2>2
    <3>2. /\ \A i \in Queued' : Final(i)' => i \in Queued /\ Final(i)
      BY <2>2, <3>1 DEF Final
    <3>3. /\ \A i \in Queued' : Final(i)' => control_reader' = "done"
          /\ \A i, j \in Queued' : Final(i)' /\ Final(j)' => i = j
      BY <2>1, <3>2 DEF CommandInv, QueueInv
    <3>4. state' # "Terminated" =>
            \A i \in Queued' : ~Final(i)' => Accepts(state', cmd_rx'[i].op)
      BY <2>1, <2>2, <3>1 DEF CommandInv, QueueInv, Final
    <3> QED
      BY <2>2, <3>3, <3>4 DEF QueueInv
  <2>4. OneCommand'
    BY <2>1, <2>2 DEF CommandInv, OneCommand, Final, Nothing
  <2>5. StageInv'
    <3>1. /\ state \notin {"Initial", "Subscribing"}
          /\ awaiting.cmd.op # "SubscribeOk"
      BY <2>1 DEF CommandInv, StageInv, Accepts, Nothing
    <3>2. /\ \A i \in Queued' : cmd_rx'[i].op = "SubscribeOk" => answered
          /\ \A i \in Queued' : cmd_rx'[i].op = "OpenDataStream" => data_reader = "none"
      BY <2>1, <2>2, <3>1 DEF CommandInv, StageInv
    <3> QED
      BY <2>1, <3>1, <3>2 DEF CommandInv, StageInv, Nothing
  <2> QED
    BY <2>3, <2>4, <2>5 DEF CommandInv
<1>2. CASE read_subscribe_ok
  <2>1. /\ subscribed /\ ~answered /\ answered' = TRUE /\ control_reader = "reading"
        /\ UNCHANGED <<state, running, control_reader, data_reader, subscribed, awaiting, returned>>
    BY <1>2 DEF read_subscribe_ok, actorVars
  <2>2. CASE ~running
    <3>1. cmd_rx' = cmd_rx /\ state = "Terminated"
      BY <1>2, <2>2 DEF read_subscribe_ok, Post, CommandInv, StageInv
    <3> QED
      BY <2>1, <3>1 DEF CommandInv, QueueInv, OneCommand, StageInv, Queued, Final
  <2>3. CASE running
    <3>1. /\ cmd_rx' \in Seq(Commands)
          /\ Queued' = Queued \cup {Len(cmd_rx) + 1} /\ Len(cmd_rx) + 1 \notin Queued
          /\ \A i \in Queued : cmd_rx'[i] = cmd_rx[i]
          /\ cmd_rx'[Len(cmd_rx) + 1].op = "SubscribeOk"
      <4>1. cmd_rx' = Append(cmd_rx, Command("SubscribeOk"))
        BY <1>2, <2>3 DEF read_subscribe_ok, Post
      <4>2. Command("SubscribeOk") \in Commands /\ Command("SubscribeOk").op = "SubscribeOk"
        BY CommandOps DEF Ops
      <4> QED
        BY <1>0, <4>1, <4>2, AfterSend
    <3>2. state \in {"Subscribing", "Terminated"} /\ awaiting = Nothing
      BY <2>1 DEF CommandInv, StageInv
    <3>3. \A i \in Queued : Final(i) \/ state = "Terminated"
      BY <2>1, <3>2 DEF CommandInv, QueueInv, StageInv, Accepts
    <3>4. QueueInv'
      BY <2>1, <3>1, <3>2 DEF CommandInv, QueueInv, Final, Accepts
    <3>5. OneCommand'
      BY <2>1, <3>1, <3>2, <3>3 DEF OneCommand, Final, Nothing
    <3>6. StageInv'
      BY <2>1, <3>1, <3>2 DEF CommandInv, StageInv, States, Nothing
    <3> QED
      BY <3>4, <3>5, <3>6 DEF CommandInv
  <2> QED
    BY <2>2, <2>3
<1>3. CASE control_error
  <2>1. /\ control_reader = "reading" /\ control_reader' = "done"
        /\ UNCHANGED <<state, running, data_reader, subscribed, answered, awaiting, returned>>
    BY <1>3 DEF control_error, actorVars
  <2>2. \A i \in Queued : ~Final(i)
    BY <2>1 DEF CommandInv, QueueInv
  <2>3. CASE ~running
    <3>1. cmd_rx' = cmd_rx /\ state = "Terminated"
      BY <1>3, <2>3 DEF control_error, Post, CommandInv, StageInv
    <3> QED
      BY <2>1, <3>1 DEF CommandInv, QueueInv, OneCommand, StageInv, Queued, Final
  <2>4. CASE running
    <3>1. /\ cmd_rx' \in Seq(Commands)
          /\ Queued' = Queued \cup {Len(cmd_rx) + 1} /\ Len(cmd_rx) + 1 \notin Queued
          /\ \A i \in Queued : cmd_rx'[i] = cmd_rx[i]
          /\ cmd_rx'[Len(cmd_rx) + 1].op = "Terminate"
      <4>1. cmd_rx' = Append(cmd_rx, Command("Terminate"))
        BY <1>3, <2>4 DEF control_error, Post
      <4>2. Command("Terminate") \in Commands /\ Command("Terminate").op = "Terminate"
        BY CommandOps DEF Ops
      <4> QED
        BY <1>0, <4>1, <4>2, AfterSend
    <3>2. QueueInv'
      BY <2>1, <2>2, <3>1 DEF CommandInv, QueueInv, Final
    <3>3. OneCommand'
      BY <2>1, <3>1 DEF CommandInv, OneCommand, Final
    <3>4. StageInv'
      BY <2>1, <3>1 DEF CommandInv, StageInv
    <3> QED
      BY <3>2, <3>3, <3>4 DEF CommandInv
  <2> QED
    BY <2>3, <2>4
<1>4. CASE read_object
  <2>1. /\ data_reader = "reading" /\ data_reader' \in {"reading", "done"}
        /\ UNCHANGED <<state, running, control_reader, subscribed, answered, awaiting, returned>>
        /\ state \in {"Subscribed", "Terminated"} /\ awaiting.to # "self"
    BY <1>4 DEF read_object, actorVars, CommandInv, StageInv
  <2>2. CASE ~running
    <3>1. cmd_rx' = cmd_rx /\ state = "Terminated"
      BY <1>4, <2>2 DEF read_object, Post, CommandInv, StageInv
    <3> QED
      BY <2>1, <3>1 DEF CommandInv, QueueInv, OneCommand, StageInv, Queued, Final
  <2>3. CASE running
    <3>1. PICK k \in 1..Len(Stream) : cmd_rx' = Append(cmd_rx, ProcessObject(Stream[k]))
      <4>1. read + 1 \in 1..Len(Stream)
        BY <1>4, SubscriberAssumption DEF read_object, ReadInv
      <4> QED
        BY <1>4, <2>3, <4>1 DEF read_object, Post
    <3>2. /\ ProcessObject(Stream[k]) \in Commands
          /\ ProcessObject(Stream[k]).op = "ProcessObject"
      BY <3>1, CommandOps
    <3>3. /\ cmd_rx' \in Seq(Commands)
          /\ Queued' = Queued \cup {Len(cmd_rx) + 1} /\ Len(cmd_rx) + 1 \notin Queued
          /\ \A i \in Queued : cmd_rx'[i] = cmd_rx[i]
          /\ cmd_rx'[Len(cmd_rx) + 1].op = "ProcessObject"
      BY <1>0, <3>1, <3>2, AfterSend
    <3>4. QueueInv'
      BY <2>1, <3>3 DEF CommandInv, QueueInv, Final, Accepts
    <3>5. OneCommand' /\ StageInv'
      BY <2>1, <3>3 DEF CommandInv, OneCommand, StageInv
    <3> QED
      BY <3>4, <3>5 DEF CommandInv
  <2> QED
    BY <2>2, <2>3
<1> QED
  BY <1>1, <1>2, <1>3, <1>4

LEMMA NextRead == ReadInv /\ [SubscriberNext]_subscriberVars => ReadInv'
<1> SUFFICES ASSUME ReadInv, [SubscriberNext]_subscriberVars PROVE ReadInv'
  OBVIOUS
<1> USE DEF ReadInv
<1>1. CASE \/ process_terminate \/ handle_connect \/ handle_open_control_stream
           \/ handle_subscribe \/ handle_subscribe_ok \/ handle_open_data_stream
  BY <1>1 DEF process_terminate, handle_connect, handle_open_control_stream,
     handle_subscribe, handle_subscribe_ok, handle_open_data_stream, readerVars
<1>2. CASE \/ discard \/ self_send \/ init_send \/ chunk_send
           \/ \E i \in 1..Len(Stream) : handle_process_object(Stream[i])
  BY <1>2 DEF discard, self_send, init_send, chunk_send, handle_process_object, readerVars
<1>3. CASE ControlReader \/ DataReader
  BY <1>3 DEF ControlReader, read_subscribe_ok, control_error, control_closed, DataReader,
     read_object, data_ended
<1>4. CASE \/ new \/ take_init \/ take_chunk \/ leave \/ lose \/ UNCHANGED subscriberVars
  BY <1>4 DEF new, take_init, take_chunk, leave, lose, subscriberVars, readerVars
<1> QED
  BY <1>1, <1>2, <1>3, <1>4 DEF SubscriberNext, ActorStep

LEMMA NextCommandInv ==
    CommandInv /\ ReadInv /\ [SubscriberNext]_subscriberVars => CommandInv'
<1> SUFFICES ASSUME CommandInv, ReadInv, [SubscriberNext]_subscriberVars PROVE CommandInv'
  OBVIOUS
<1>1. CASE new
  <2>1. /\ cmd_rx = <<>> /\ state = "Initial" /\ cmd_rx' = <<Command("Connect")>>
        /\ returned' = "ok"
        /\ UNCHANGED <<state, awaiting, running, control_reader, data_reader, subscribed, answered>>
    BY <1>1 DEF new, actorVars, readerVars, CommandInv, StageInv
  <2>2. Command("Connect") \in Commands /\ Command("Connect").op = "Connect"
    BY CommandOps DEF Ops
  <2>3. cmd_rx' \in Seq(Commands) /\ Queued' = {1} /\ cmd_rx'[1].op = "Connect"
    BY <2>1, <2>2 DEF Queued
  <2> QED
    BY <2>1, <2>3 DEF CommandInv, QueueInv, OneCommand, StageInv, Final, Accepts, Nothing
<1>2. CASE init_send \/ chunk_send
  <2>1. /\ state' \in {state, "Terminated"} /\ awaiting' = Nothing /\ awaiting.to # "self"
        /\ UNCHANGED <<cmd_rx, running, control_reader, data_reader, subscribed, answered, returned>>
    BY <1>2 DEF init_send, chunk_send, handle_terminate, actorVars, readerVars
  <2>2. state # "Initial"
    BY <1>2 DEF init_send, chunk_send, CommandInv, StageInv, Nothing
  <2> QED
    BY <2>1, <2>2 DEF CommandInv, QueueInv, OneCommand, StageInv, Queued, Final, States, Nothing
<1>3. CASE \/ control_closed \/ data_ended \/ take_init \/ take_chunk \/ leave \/ lose
           \/ UNCHANGED subscriberVars
  <2>1. /\ UNCHANGED <<cmd_rx, state, awaiting, running, subscribed, answered, returned>>
        /\ \/ control_reader' = control_reader
           \/ control_reader = "reading" /\ control_reader' = "done"
        /\ \/ data_reader' = data_reader
           \/ data_reader = "reading" /\ data_reader' = "done"
    BY <1>3 DEF control_closed, data_ended, take_init, take_chunk, leave, lose, subscriberVars,
       actorVars, readerVars
  <2> QED
    BY <2>1 DEF CommandInv, QueueInv, OneCommand, StageInv, Queued, Final
<1> QED
  BY <1>1, <1>2, <1>3, HandlerCommandInv, TakeCommandInv, SentCommandInv
  DEF SubscriberNext, ActorStep, ControlReader, DataReader

\* Commands, state and readers stay in step: no command meets a state that
\* does not expect it (subscriber.rs:183-223), whenever the connection is lost
\* and however the readers' commands fall between the actor's own.
THEOREM NeverRejected == SubscriberSpec => []NoCommandRejected
<1>1. CommandInv => NoCommandRejected
  <2> SUFFICES ASSUME CommandInv, cmd_rx # <<>>, state # "Terminated"
               PROVE  Head(cmd_rx).op = "Terminate" \/ Accepts(state, Head(cmd_rx).op)
    BY DEF NoCommandRejected
  <2>1. Head(cmd_rx) = cmd_rx[1] /\ 1 \in Queued
    BY DEF CommandInv, QueueInv, Queued
  <2> QED
    BY <2>1 DEF CommandInv, QueueInv, Final
<1> QED
  BY <1>1, InitCommandInv, NextCommandInv, NextRead, PTL DEF SubscriberSpec

\* A queue of two is enough for the actor never to wait for room in its own
\* queue (subscriber.rs:250, 352, 440): the most it meets there is Terminate.
THEOREM NeverBlocksItself ==
    ASSUME channel_size >= 2
    PROVE  SubscriberSpec => []SelfSendNeverBlocks
<1>1. CommandInv => SelfSendNeverBlocks
  <2> SUFFICES ASSUME CommandInv, awaiting.to = "self" PROVE Len(cmd_rx) < channel_size
    BY DEF SelfSendNeverBlocks
  <2>1. \A i \in Queued : Final(i)
    BY DEF CommandInv, OneCommand, StageInv, Nothing
  <2>2. \A i, j \in Queued : i = j
    BY <2>1 DEF CommandInv, QueueInv
  <2>3. Len(cmd_rx) \in Nat
    BY DEF CommandInv, QueueInv
  <2>4. ~(Len(cmd_rx) >= 2)
    <3>1. Len(cmd_rx) >= 2 => 1 \in Queued /\ 2 \in Queued
      BY <2>3 DEF Queued
    <3> QED
      BY <2>2, <3>1
  <2> QED
    BY <2>3, <2>4, SubscriberAssumption
<1> QED
  BY <1>1, InitCommandInv, NextCommandInv, NextRead, PTL DEF SubscriberSpec

-----------------------------------------------------------------------------
(* The refinement of MediaDelivery.                                        *)

\* A handler is sending an object to the application.
InHand == awaiting.to \in {"init", "chunk"}

\* The objects taken from the queue.
Taken == IF InHand THEN processed + 1 ELSE processed

\* The objects from the handler over the queue to the reader are consecutive
\* objects of the stream; what is queued after Terminate does not count.
OrderInv ==
    /\ read \in 0..Len(Stream) /\ processed \in Nat
    /\ awaiting.to = "self" => awaiting.cmd.op # "ProcessObject"
    /\ state # "Terminated" =>
        /\ data_reader = "none" =>
            /\ read = 0 /\ processed = 0 /\ ~InHand
            /\ \A i \in Queued : cmd_rx[i].op # "ProcessObject"
        /\ InHand =>
            /\ processed + 1 \in 1..Len(Stream)
            /\ awaiting.object = Stream[processed + 1]
            /\ awaiting.to = ChannelOf(awaiting.object)
        /\ data_reader # "none" /\ (\A i \in Queued : ~Final(i)) =>
            read = Taken + Len(cmd_rx)
        /\ \A i \in Queued :
            cmd_rx[i].op = "ProcessObject" /\ (\A j \in 1..i : ~Final(j)) =>
                /\ Taken + i \in 1..Len(Stream)
                /\ cmd_rx[i].object = Stream[Taken + i]

LEMMA InitOrderInv == SubscriberInit => OrderInv
  BY SubscriberAssumption DEF SubscriberInit, OrderInv, Nothing, InHand, Queued

LEMMA TakenType == ASSUME OrderInv PROVE Taken \in Nat /\ processed \in Nat
  BY DEF OrderInv, Taken

\* Handlers before the data stream is read, successful or not.
LEMMA HandlerOrderInv ==
    ASSUME CommandInv, OrderInv,
           \/ handle_connect \/ handle_open_control_stream \/ handle_subscribe
           \/ handle_subscribe_ok \/ handle_open_data_stream
    PROVE  OrderInv'
<1>1. /\ data_reader = "none" /\ state # "Terminated" /\ awaiting = Nothing
      /\ cmd_rx' \in Seq(Commands) /\ \A i \in Queued' : Final(i)'
  BY HandlerQueue
<1>2. /\ awaiting' \in {Nothing, ToSelf("OpenControlStream"), ToSelf("Subscribe"),
                       ToSelf("OpenDataStream")}
      /\ UNCHANGED <<read, processed>>
  BY <1>1 DEF handle_connect, handle_open_control_stream, handle_subscribe,
     handle_subscribe_ok, handle_open_data_stream, readerVars, outVars
<1>3. ~InHand' /\ (awaiting'.to = "self" => awaiting'.cmd.op # "ProcessObject")
  BY <1>2 DEF InHand, Nothing, ToSelf
<1>4. \A i \in Queued' : cmd_rx'[i].op # "ProcessObject"
  BY <1>1 DEF Final
<1>5. (\A i \in Queued' : ~Final(i)') => Len(cmd_rx') = 0
  <2>1. Len(cmd_rx') \in Nat /\ (Len(cmd_rx') # 0 => 1 \in Queued')
    BY <1>1 DEF Queued
  <2> QED
    BY <1>1, <2>1
<1>6. read' = 0 /\ processed' = 0 /\ Taken' = 0
  <2>1. read = 0 /\ processed = 0
    BY <1>1 DEF OrderInv
  <2> QED
    BY <1>2, <1>3, <2>1 DEF Taken
<1>7. read' \in 0..Len(Stream) /\ processed' \in Nat
  BY <1>2 DEF OrderInv
<1> QED
  BY <1>7, <1>3, <1>4, <1>5, <1>6 DEF OrderInv

\* The object taken is the next of the stream.
LEMMA TakenObject ==
    ASSUME CommandInv, OrderInv, NEW k \in 1..Len(Stream), handle_process_object(Stream[k])
    PROVE  /\ processed + 1 \in 1..Len(Stream) /\ Stream[k] = Stream[processed + 1]
           /\ awaiting = Nothing /\ ~InHand /\ Taken = processed /\ ~Final(1)
           /\ state = "Subscribed" /\ data_reader # "none"
<1>1. /\ state = "Subscribed" /\ awaiting = Nothing /\ cmd_rx # <<>>
      /\ ProcessObject(Stream[k]) = Head(cmd_rx)
  BY DEF handle_process_object, Recv
<1>2. Head(cmd_rx) = cmd_rx[1] /\ 1 \in Queued
  BY <1>1 DEF CommandInv, QueueInv, Queued
<1>3. cmd_rx[1].op = "ProcessObject" /\ cmd_rx[1].object = Stream[k]
  BY <1>1, <1>2 DEF ProcessObject
<1>4. ~InHand /\ Taken = processed /\ \A j \in 1..1 : ~Final(j)
  BY <1>1, <1>3 DEF InHand, Taken, Nothing, Final
<1> QED
  BY <1>1, <1>2, <1>3, <1>4 DEF OrderInv

LEMMA ObjectOrderInv ==
    ASSUME CommandInv, OrderInv, NEW k \in 1..Len(Stream), handle_process_object(Stream[k])
    PROVE  OrderInv'
<1>1. /\ processed + 1 \in 1..Len(Stream) /\ Stream[k] = Stream[processed + 1]
      /\ awaiting = Nothing /\ ~InHand /\ Taken = processed /\ ~Final(1)
      /\ state = "Subscribed" /\ data_reader # "none"
  BY TakenObject
<1>2. /\ cmd_rx # <<>> /\ cmd_rx' = Tail(cmd_rx) /\ UNCHANGED <<state, data_reader, read>>
  BY DEF handle_process_object, Recv, actorVars, readerVars
<1>3. /\ Len(cmd_rx) \in Nat \ {0} /\ Len(cmd_rx') = Len(cmd_rx) - 1
      /\ \A i \in Queued' : i + 1 \in Queued /\ cmd_rx'[i] = cmd_rx[i + 1]
  BY <1>2, AfterRecv DEF CommandInv, QueueInv
<1>4. /\ processed' \in Nat /\ Taken' = Taken + 1
      /\ awaiting'.to # "self"
      /\ InHand' => /\ processed' + 1 \in 1..Len(Stream)
                        /\ awaiting'.object = Stream[processed' + 1]
                        /\ awaiting'.to = ChannelOf(awaiting'.object)
  <2>1. CASE ChannelOf(Stream[k]) = "none"
    BY <1>1, <2>1 DEF OrderInv, handle_process_object, InHand, Taken, Nothing
  <2>2. CASE ChannelOf(Stream[k]) # "none"
    <3>1. /\ awaiting' = ToApp(ChannelOf(Stream[k]), Stream[k]) /\ processed' = processed
      BY <2>2 DEF handle_process_object
    <3>2. ChannelOf(Stream[k]) \in {"init", "chunk"}
      BY <2>2 DEF ChannelOf
    <3>3. /\ awaiting'.to = ChannelOf(Stream[k]) /\ awaiting'.object = Stream[k]
      BY <3>1 DEF ToApp
    <3> QED
      BY <1>1, <3>1, <3>2, <3>3 DEF OrderInv, InHand, Taken
  <2> QED
    BY <2>1, <2>2
<1>5. UNCHANGED is_audio
  BY DEF handle_process_object, netVars
<1>6. InHand' => (awaiting.to = ChannelOf(awaiting.object))'
  BY <1>4, <1>5 DEF ChannelOf, Medium
<1>7. ASSUME \A i \in Queued' : ~Final(i)' PROVE read' = Taken' + Len(cmd_rx')
  <2>1. \A i \in Queued : ~Final(i)
    <3> SUFFICES ASSUME NEW i \in Queued, i # 1 PROVE ~Final(i)
      BY <1>1
    <3>1. i - 1 \in Queued' /\ (i - 1) + 1 = i
      BY <1>3 DEF Queued
    <3>2. cmd_rx'[i - 1] = cmd_rx[i]
      BY <1>3, <3>1
    <3>3. cmd_rx'[i - 1].op # "Terminate"
      BY <1>7, <3>1 DEF Final
    <3> QED
      BY <3>2, <3>3 DEF Final
  <2>2. read = Taken + Len(cmd_rx)
    BY <1>1, <2>1 DEF OrderInv
  <2> QED
    BY <1>2, <1>3, <1>4, <2>2, TakenType
<1>8. ASSUME NEW i \in Queued', cmd_rx'[i].op = "ProcessObject", \A j \in 1..i : ~Final(j)'
      PROVE  /\ Taken' + i \in 1..Len(Stream)
             /\ cmd_rx'[i].object = Stream[Taken' + i]
  <2>1. \A j \in 1..(i + 1) : ~Final(j)
    <3> SUFFICES ASSUME NEW j \in 1..(i + 1), j # 1 PROVE ~Final(j)
      BY <1>1
    <3>1. j - 1 \in Queued' /\ j - 1 \in 1..i /\ (j - 1) + 1 = j
      BY <1>3 DEF Queued
    <3>2. cmd_rx'[j - 1] = cmd_rx[j]
      BY <1>3, <3>1
    <3>3. cmd_rx'[j - 1].op # "Terminate"
      BY <1>8, <3>1 DEF Final
    <3> QED
      BY <3>2, <3>3 DEF Final
  <2>2. i + 1 \in Queued /\ cmd_rx[i + 1].op = "ProcessObject" /\ cmd_rx'[i] = cmd_rx[i + 1]
    BY <1>3, <1>8
  <2>3. /\ Taken + (i + 1) \in 1..Len(Stream)
        /\ cmd_rx[i + 1].object = Stream[Taken + (i + 1)]
    BY <1>1, <2>1, <2>2 DEF OrderInv
  <2>4. Taken' + i = Taken + (i + 1)
    <3>1. i \in Nat
      BY <1>8 DEF Queued
    <3> QED
      BY <1>4, <3>1, TakenType
  <2> QED
    BY <2>2, <2>3, <2>4
<1> QED
  BY <1>1, <1>2, <1>4, <1>6, <1>7, <1>8 DEF OrderInv

\* A send to the application moves an object from the handler to its channel.
LEMMA AppOrderInv ==
    ASSUME CommandInv, OrderInv, init_send \/ chunk_send
    PROVE  OrderInv'
<1>1. /\ state # "Terminated" /\ InHand /\ awaiting' = Nothing /\ ~InHand'
      /\ UNCHANGED <<read, cmd_rx, data_reader>>
  BY DEF init_send, chunk_send, CommandInv, StageInv, InHand, Nothing, readerVars
<1>2. \/ processed' = processed + 1 /\ UNCHANGED state
      \/ processed' = processed /\ state' = "Terminated"
  BY DEF init_send, chunk_send, handle_terminate, actorVars, outVars
<1>3. CASE processed' = processed /\ state' = "Terminated"
  BY <1>1, <1>3 DEF OrderInv, Nothing
<1>4. CASE processed' = processed + 1 /\ UNCHANGED state
  <2>1. /\ data_reader # "none" /\ Taken' = Taken
        /\ processed' \in Nat /\ awaiting'.to # "self"
    BY <1>1, <1>4 DEF OrderInv, Taken, Nothing
  <2>2. \A i \in Queued : Taken' + i = Taken + i
    BY <2>1
  <2>3. UNCHANGED <<Queued, cmd_rx>> /\ \A i : Final(i)' <=> Final(i)
    BY <1>1 DEF Queued, Final
  <2>4. (\A i \in Queued' : ~Final(i)') => read' = Taken' + Len(cmd_rx')
    BY <1>1, <2>1, <2>3 DEF OrderInv
  <2>5. \A i \in Queued' :
            cmd_rx'[i].op = "ProcessObject" /\ (\A j \in 1..i : ~Final(j)') =>
                /\ Taken' + i \in 1..Len(Stream)
                /\ cmd_rx'[i].object = Stream[Taken' + i]
    BY <1>1, <2>2, <2>3 DEF OrderInv
  <2> QED
    BY <1>1, <2>1, <2>4, <2>5 DEF OrderInv
<1> QED
  BY <1>2, <1>3, <1>4

\* A command that is added is the next object of the stream, or none.
LEMMA SentOrderInv ==
    ASSUME CommandInv, OrderInv, self_send \/ read_subscribe_ok \/ control_error \/ read_object
    PROVE  OrderInv'
<1>1. cmd_rx \in Seq(Commands) /\ processed \in Nat /\ read \in 0..Len(Stream)
  BY DEF CommandInv, QueueInv, OrderInv
<1>2. UNCHANGED <<state, processed, is_audio>>
  BY DEF self_send, read_subscribe_ok, control_error, read_object, actorVars, outVars, netVars
<1>3. ASSUME NEW cmd \in Commands, cmd_rx' = Append(cmd_rx, cmd), state # "Terminated",
             (InHand' <=> InHand), awaiting'.to = "self" => awaiting'.cmd.op # "ProcessObject",
             InHand => UNCHANGED awaiting,
             UNCHANGED data_reader, read' \in 0..Len(Stream),
             IF cmd.op = "ProcessObject"
             THEN /\ data_reader # "none" /\ read' = read + 1
                  /\ cmd.object = Stream[read + 1]
             ELSE /\ read' = read /\ (cmd.op = "Terminate" \/ data_reader = "none")
      PROVE  OrderInv'
  <2>0. Taken' = Taken
    BY <1>2, <1>3 DEF Taken
  <2>1. /\ Len(cmd_rx) \in Nat /\ Queued' = Queued \cup {Len(cmd_rx) + 1}
        /\ Len(cmd_rx') = Len(cmd_rx) + 1
        /\ Len(cmd_rx) + 1 \notin Queued /\ \A i \in Queued : cmd_rx'[i] = cmd_rx[i]
        /\ cmd_rx'[Len(cmd_rx) + 1] = cmd
    <3>1. Len(cmd_rx') = Len(cmd_rx) + 1
      BY <1>1, <1>3
    <3> QED
      BY <1>1, <1>3, <3>1, AfterSend
  <2>2. \A i \in Queued : Final(i)' <=> Final(i)
    BY <2>1 DEF Final
  <2>3. data_reader = "none" =>
            /\ read' = 0 /\ processed' = 0 /\ ~InHand'
            /\ \A i \in Queued' : cmd_rx'[i].op # "ProcessObject"
    BY <1>2, <1>3, <2>1 DEF OrderInv
  <2>4. data_reader # "none" /\ (\A i \in Queued' : ~Final(i)') =>
            read' = Taken' + Len(cmd_rx')
    <3> SUFFICES ASSUME data_reader # "none", \A i \in Queued' : ~Final(i)'
                 PROVE  read' = Taken' + Len(cmd_rx')
      OBVIOUS
    <3>1. cmd.op = "ProcessObject" /\ \A i \in Queued : ~Final(i)
      BY <1>3, <2>1, <2>2 DEF Final
    <3>2. read = Taken + Len(cmd_rx) /\ Taken \in Nat
      BY <1>3, <3>1, TakenType DEF OrderInv
    <3> QED
      BY <1>3, <2>0, <2>1, <3>1, <3>2
  <2>5. ASSUME NEW i \in Queued', cmd_rx'[i].op = "ProcessObject", \A j \in 1..i : ~Final(j)'
        PROVE  /\ Taken' + i \in 1..Len(Stream)
               /\ cmd_rx'[i].object = Stream[Taken' + i]
    <3>1. CASE i \in Queued
      <4>1. \A j \in 1..i : j \in Queued
        BY <2>1, <3>1 DEF Queued
      <4>2. cmd_rx[i].op = "ProcessObject" /\ \A j \in 1..i : ~Final(j)
        BY <2>1, <2>2, <2>5, <3>1, <4>1
      <4>3. /\ Taken + i \in 1..Len(Stream)
            /\ cmd_rx[i].object = Stream[Taken + i]
        BY <1>3, <3>1, <4>2 DEF OrderInv
      <4> QED
        BY <2>0, <2>1, <3>1, <4>3
    <3>2. CASE i = Len(cmd_rx) + 1
      <4>1. /\ cmd.op = "ProcessObject" /\ data_reader # "none"
            /\ read' = read + 1 /\ cmd.object = Stream[read + 1]
        BY <1>3, <2>1, <2>5, <3>2
      <4>2. \A j \in Queued : ~Final(j)
        BY <2>1, <2>2, <2>5, <3>2 DEF Queued
      <4>3. read = Taken + Len(cmd_rx) /\ Taken \in Nat
        BY <1>3, <4>1, <4>2, TakenType DEF OrderInv
      <4>4. Taken' + i = read + 1
        BY <2>0, <2>1, <3>2, <4>3
      <4> QED
        BY <1>1, <1>3, <2>1, <3>2, <4>1, <4>4, SubscriberAssumption
    <3> QED
      BY <2>1, <3>1, <3>2
  <2>6. InHand' =>
            /\ processed' + 1 \in 1..Len(Stream)
            /\ awaiting'.object = Stream[processed' + 1]
            /\ (awaiting.to = ChannelOf(awaiting.object))'
    BY <1>2, <1>3 DEF OrderInv, ChannelOf, Medium
  <2> QED
    BY <1>1, <1>2, <1>3, <2>3, <2>4, <2>5, <2>6 DEF OrderInv
<1>4. ASSUME state = "Terminated", read' \in 0..Len(Stream), awaiting'.to # "self"
      PROVE  OrderInv'
  BY <1>1, <1>2, <1>4 DEF OrderInv
<1>5. CASE self_send
  <2>1. /\ awaiting.to = "self" /\ awaiting' = Nothing /\ awaiting.cmd \in Commands
        /\ data_reader = "none" /\ state # "Terminated"
        /\ cmd_rx' = Append(cmd_rx, awaiting.cmd) /\ UNCHANGED <<data_reader, read>>
    BY <1>5 DEF self_send, CommandInv, StageInv, readerVars, Nothing
  <2>2. ~InHand /\ ~InHand' /\ awaiting'.to # "self" /\ awaiting.cmd.op # "ProcessObject"
    BY <2>1 DEF InHand, Nothing, OrderInv
  <2> QED
    BY <1>1, <1>3, <2>1, <2>2
<1>6. CASE read_subscribe_ok
  <2>1. /\ subscribed /\ ~answered /\ UNCHANGED <<awaiting, data_reader, read>>
        /\ running => cmd_rx' = Append(cmd_rx, Command("SubscribeOk"))
    BY <1>6 DEF read_subscribe_ok, Post
  <2>2. /\ state \in {"Subscribing", "Terminated"} /\ awaiting = Nothing
        /\ data_reader # "none" => state = "Terminated"
        /\ ~running => state = "Terminated"
    BY <2>1 DEF CommandInv, StageInv
  <2>3. /\ Command("SubscribeOk") \in Commands /\ Command("SubscribeOk").op = "SubscribeOk"
        /\ ~InHand /\ ~InHand' /\ awaiting'.to # "self"
    BY <2>1, <2>2, CommandOps DEF Ops, InHand, Nothing
  <2> QED
    BY <1>1, <1>3, <1>4, <2>1, <2>2, <2>3
<1>7. CASE control_error
  <2>1. /\ UNCHANGED <<awaiting, data_reader, read>>
        /\ running => cmd_rx' = Append(cmd_rx, Command("Terminate"))
    BY <1>7 DEF control_error, Post
  <2>2. /\ ~running => state = "Terminated"
        /\ state = "Terminated" => awaiting.to # "self"
    BY DEF CommandInv, StageInv, Nothing
  <2>3. /\ Command("Terminate") \in Commands /\ Command("Terminate").op = "Terminate"
        /\ (InHand' <=> InHand) /\ (awaiting'.to = "self" => awaiting'.cmd.op # "ProcessObject")
    BY <2>1, CommandOps DEF Ops, InHand, OrderInv
  <2> QED
    BY <1>1, <1>3, <1>4, <2>1, <2>2, <2>3
<1>8. CASE read_object
  <2>1. /\ UNCHANGED awaiting /\ data_reader = "reading" /\ read < Len(Stream) /\ read' = read + 1
        /\ running => /\ cmd_rx' = Append(cmd_rx, ProcessObject(Stream[read + 1]))
                      /\ UNCHANGED data_reader
    BY <1>8 DEF read_object, Post
  <2>2. /\ ~running => state = "Terminated" /\ awaiting.to # "self"
        /\ awaiting.to # "self"
    BY <2>1 DEF CommandInv, StageInv, Nothing
  <2>3. read' \in 0..Len(Stream) /\ read + 1 \in 1..Len(Stream)
    BY <1>1, <2>1, SubscriberAssumption
  <2>4. /\ ProcessObject(Stream[read + 1]) \in Commands
        /\ ProcessObject(Stream[read + 1]).op = "ProcessObject"
        /\ ProcessObject(Stream[read + 1]).object = Stream[read + 1]
        /\ (InHand' <=> InHand)
    BY <2>1, <2>3, CommandOps DEF ProcessObject, InHand
  <2> QED
    BY <1>3, <1>4, <2>1, <2>2, <2>3, <2>4
<1> QED
  BY <1>5, <1>6, <1>7, <1>8

LEMMA NextOrderInv ==
    CommandInv /\ OrderInv /\ [SubscriberNext]_subscriberVars => OrderInv'
<1> SUFFICES ASSUME CommandInv, OrderInv, [SubscriberNext]_subscriberVars PROVE OrderInv'
  OBVIOUS
<1>1. CASE process_terminate \/ discard
  <2>1. /\ state' = "Terminated" /\ awaiting' = Nothing /\ UNCHANGED <<read, processed>>
    <3>1. CASE process_terminate
      BY <3>1 DEF process_terminate, handle_terminate, Recv, readerVars, outVars
    <3>2. CASE discard
      <4>1. cmd_rx # <<>> => Head(cmd_rx) = cmd_rx[1] /\ 1 \in Queued
        BY DEF CommandInv, QueueInv, Queued
      <4> QED
        BY <3>2, <4>1 DEF discard, Recv, CommandInv, QueueInv, Final, actorVars, readerVars, outVars
    <3> QED
      BY <1>1, <3>1, <3>2
  <2> QED
    BY <2>1 DEF OrderInv, Nothing
<1>2. CASE new
  <2>1. /\ state = "Initial" /\ cmd_rx' = <<Command("Connect")>> /\ data_reader = "none"
        /\ UNCHANGED <<state, awaiting, data_reader, read, processed>> /\ awaiting = Nothing
    BY <1>2 DEF new, actorVars, readerVars, outVars, CommandInv, StageInv
  <2>2. \A i \in Queued' : cmd_rx'[i].op = "Connect"
    BY <2>1 DEF Queued, Command
  <2> QED
    BY <2>1, <2>2 DEF OrderInv, InHand, Nothing
<1>3. CASE \/ control_closed \/ data_ended \/ take_init \/ take_chunk \/ leave \/ lose
           \/ UNCHANGED subscriberVars
  <2>1. /\ UNCHANGED <<cmd_rx, state, awaiting, read, processed, is_audio>>
        /\ \/ data_reader' = data_reader
           \/ data_reader = "reading" /\ data_reader' = "done"
    BY <1>3 DEF control_closed, data_ended, take_init, take_chunk, leave, lose, subscriberVars,
       actorVars, readerVars, outVars, netVars
  <2> QED
    BY <2>1 DEF OrderInv, InHand, Taken, Queued, Final, ChannelOf, Medium
<1> QED
  BY <1>1, <1>2, <1>3, HandlerOrderInv, ObjectOrderInv, AppOrderInv, SentOrderInv
  DEF SubscriberNext, ActorStep, ControlReader, DataReader

Delivers == Delivery!Deliver \/ Delivery!DropReceiver

\* The two modules agree on the media types.
LEMMA SameMedia ==
    /\ Delivery!MEDIA_TYPE_INIT = MEDIA_TYPE_INIT
    /\ \A o : Delivery!Wanted(o) <=>
            o.group_id = Medium \/ (o.group_id = MEDIA_TYPE_EOF /\ chunk_open)
    /\ MEDIA_TYPE_INIT \notin {Medium, MEDIA_TYPE_EOF} /\ Medium # MEDIA_TYPE_EOF
  BY DEF Delivery!Wanted, Delivery!Medium, Delivery!MEDIA_TYPE_INIT,
     Delivery!MEDIA_TYPE_VIDEO, Delivery!MEDIA_TYPE_AUDIO, Delivery!MEDIA_TYPE_EOF,
     Medium, MEDIA_TYPE_INIT, MEDIA_TYPE_VIDEO, MEDIA_TYPE_AUDIO, MEDIA_TYPE_EOF

\* An object that no channel is for is passed over.
LEMMA ObjectDelivered ==
    ASSUME CommandInv, OrderInv, NEW k \in 1..Len(Stream), handle_process_object(Stream[k])
    PROVE  [Delivers]_Delivery!deliveryVars
<1>1. processed + 1 \in 1..Len(Stream) /\ Stream[k] = Stream[processed + 1]
  BY TakenObject
<1>2. UNCHANGED <<is_audio, inits, chunks, chunk_open>>
  BY DEF handle_process_object, appVars, netVars
<1>3. CASE ChannelOf(Stream[k]) = "none"
  <2>1. processed' = processed + 1 /\ processed < Len(Stream)
    BY <1>1, <1>3, SubscriberAssumption DEF handle_process_object, OrderInv
  <2>2. LET o == Stream[processed + 1]
        IN  o.group_id # MEDIA_TYPE_INIT /\ ~Delivery!Wanted(o)
    BY <1>1, <1>3, SameMedia DEF ChannelOf
  <2> QED
    BY <1>2, <2>1, <2>2, SameMedia DEF Delivers, Delivery!Deliver
<1>4. CASE ChannelOf(Stream[k]) # "none"
  BY <1>2, <1>4 DEF handle_process_object, Delivery!deliveryVars
<1> QED
  BY <1>3, <1>4

\* A send to the application delivers, or ends the subscription, or passes over
\* an end marker that nobody waits for.
LEMMA AppDelivered ==
    ASSUME CommandInv, OrderInv, init_send \/ chunk_send
    PROVE  [Delivers]_Delivery!deliveryVars
<1>1. /\ processed + 1 \in 1..Len(Stream) /\ awaiting.object = Stream[processed + 1]
      /\ awaiting.to = ChannelOf(awaiting.object)
  BY DEF init_send, chunk_send, CommandInv, StageInv, OrderInv, InHand, Nothing
<1>2. UNCHANGED <<is_audio, chunk_open>> /\ processed < Len(Stream)
  BY <1>1, SubscriberAssumption DEF init_send, chunk_send, appVars, netVars, OrderInv
<1>3. CASE UNCHANGED <<inits, chunks, processed>>
  BY <1>2, <1>3 DEF Delivery!deliveryVars
<1>4. CASE init_send /\ inits' = Append(inits, awaiting.object)
  <2>1. processed' = processed + 1 /\ UNCHANGED chunks
    BY <1>4 DEF init_send, outVars
  <2>2. /\ awaiting.object.group_id = MEDIA_TYPE_INIT
        /\ ~Delivery!Wanted(awaiting.object)
    BY <1>1, <1>4, SameMedia DEF init_send, ChannelOf
  <2> QED
    BY <1>1, <1>2, <1>4, <2>1, <2>2, SameMedia DEF Delivers, Delivery!Deliver
<1>5. CASE chunk_send /\ processed' = processed + 1
  <2>1. /\ awaiting.object.group_id # MEDIA_TYPE_INIT /\ UNCHANGED inits
        /\ awaiting.object.group_id \in {Medium, MEDIA_TYPE_EOF}
    <3>1. UNCHANGED inits
      BY <1>5 DEF chunk_send
    <3> QED
      BY <1>1, <1>5, <3>1 DEF chunk_send, ChannelOf
  <2>2. chunks' = IF Delivery!Wanted(awaiting.object)
                  THEN Append(chunks, awaiting.object) ELSE chunks
    <3>1. CASE chunk_open
      BY <1>5, <2>1, <3>1, SameMedia DEF chunk_send
    <3>2. CASE ~chunk_open
      <4>1. processed' # processed
        BY <1>5 DEF OrderInv
      <4>2. awaiting.object.group_id = MEDIA_TYPE_EOF /\ UNCHANGED chunks
        BY <1>5, <3>2, <4>1 DEF chunk_send
      <4> QED
        BY <3>2, <4>2, SameMedia
    <3> QED
      BY <3>1, <3>2
  <2> QED
    BY <1>1, <1>2, <1>5, <2>1, <2>2, SameMedia DEF Delivers, Delivery!Deliver
<1> QED
  BY <1>3, <1>4, <1>5 DEF init_send, chunk_send, outVars

LEMMA StepDelivers ==
    CommandInv /\ OrderInv /\ [SubscriberNext]_subscriberVars => [Delivers]_Delivery!deliveryVars
<1> SUFFICES ASSUME CommandInv, OrderInv, [SubscriberNext]_subscriberVars
             PROVE  [Delivers]_Delivery!deliveryVars
  OBVIOUS
<1>1. CASE leave
  BY <1>1 DEF leave, outVars, netVars, Delivers, Delivery!DropReceiver, Delivery!deliveryVars
<1>2. CASE \/ process_terminate \/ handle_connect \/ handle_open_control_stream
           \/ handle_subscribe \/ handle_subscribe_ok \/ handle_open_data_stream
           \/ discard \/ self_send
  BY <1>2 DEF process_terminate, handle_connect, handle_open_control_stream,
     handle_subscribe, handle_subscribe_ok, handle_open_data_stream, discard, self_send,
     outVars, appVars, netVars, Delivery!deliveryVars
<1>3. CASE \/ new \/ ControlReader \/ DataReader \/ take_init \/ take_chunk \/ lose
           \/ UNCHANGED subscriberVars
  BY <1>3 DEF new, ControlReader, read_subscribe_ok, control_error, control_closed,
     DataReader, read_object, data_ended, take_init, take_chunk, lose, subscriberVars,
     outVars, appVars, netVars, Delivery!deliveryVars
<1> QED
  BY <1>1, <1>2, <1>3, ObjectDelivered, AppDelivered DEF SubscriberNext, ActorStep

\* The actor, its readers and its queues implement MediaDelivery
\* (subscriber.rs:509-549, 568-703): for every stream and every capacity, and
\* wherever it fails, the application gets a prefix of the stream, each object
\* once, in order, and on the right channel.
THEOREM AlwaysDeliversPrefix == SubscriberSpec => DeliversPrefix
<1>1. SubscriberInit => Delivery!DeliveryInit
  BY DEF SubscriberInit, Delivery!DeliveryInit
<1> QED
  BY <1>1, InitCommandInv, InitOrderInv, NextCommandInv, NextRead, NextOrderInv, StepDelivers, PTL
  DEF SubscriberSpec, DeliversPrefix, Delivery!Prefix, Delivers

-----------------------------------------------------------------------------
(* Types and bounds.                                                       *)

\* The objects that may be sent to the application.
Published == {Stream[i] : i \in 1..Len(Stream)}

\* Objects are read before they are handled: those in the queue, up to a
\* Terminate, are still among the objects read.
ReadAhead ==
    /\ Taken <= read
    /\ state # "Terminated" =>
        \A i \in Queued :
            cmd_rx[i].op = "ProcessObject" /\ (\A j \in 1..i : ~Final(j)) => Taken + i <= read

\* The resources that come with a state.
Resources ==
    /\ connection <=> state \in States \ {"Initial", "Terminated"}
    /\ control_send <=> state \in {"ControlStreamEstablished", "Subscribing", "Subscribed"}

AwaitingType == awaiting.to \in {"nobody", "self", "init", "chunk"}
ActorFlags == connection \in BOOLEAN /\ control_send \in BOOLEAN
ReaderFlags ==
    /\ control_reader \in {"none", "reading", "done"}
    /\ data_reader \in {"none", "reading", "done"}
    /\ subscribed \in BOOLEAN /\ answered \in BOOLEAN
OtherFlags ==
    /\ init_open \in BOOLEAN /\ chunk_open \in BOOLEAN
    /\ is_audio \in BOOLEAN /\ reachable \in BOOLEAN /\ lost \in BOOLEAN
    /\ running \in BOOLEAN

Flags == AwaitingType /\ ActorFlags /\ ReaderFlags /\ OtherFlags

Channels ==
    /\ inits \in Seq(Published) /\ chunks \in Seq(Published)
    /\ init_taken \in 0..Len(inits) /\ chunk_taken \in 0..Len(chunks)
    /\ Len(inits) - init_taken <= init_size /\ Len(chunks) - chunk_taken <= chunk_size

TypeInv ==
    /\ CommandInv /\ ReadInv /\ OrderInv
    /\ Len(cmd_rx) <= channel_size
    /\ Flags /\ Resources /\ Channels /\ ReadAhead

LEMMA InitTypeInv == SubscriberInit => TypeInv
<1> SUFFICES ASSUME SubscriberInit PROVE TypeInv
  OBVIOUS
<1>1. CommandInv /\ ReadInv /\ OrderInv
  BY InitCommandInv, InitOrderInv
<1>2. Len(cmd_rx) <= channel_size
  BY SubscriberAssumption DEF SubscriberInit
<1>3. Flags /\ Resources
  BY DEF SubscriberInit, Flags, AwaitingType, ActorFlags, ReaderFlags, OtherFlags, Resources,
     Nothing, States
<1>4. Channels
  BY SubscriberAssumption DEF SubscriberInit, Channels
<1>5. ReadAhead
  BY DEF SubscriberInit, ReadAhead, Taken, InHand, Nothing, Queued
<1> QED
  BY <1>1, <1>2, <1>3, <1>4, <1>5 DEF TypeInv

\* The steps that take a command, and those that take none.
LEMMA QueueBound ==
    ASSUME CommandInv, Len(cmd_rx) <= channel_size, [SubscriberNext]_subscriberVars
    PROVE  Len(cmd_rx') <= channel_size
<1>1. cmd_rx \in Seq(Commands) /\ Len(cmd_rx) \in Nat /\ channel_size \in Nat \ {0}
  BY SubscriberAssumption, LenProperties DEF CommandInv, QueueInv
<1>2. CASE cmd_rx' = cmd_rx
  BY <1>2
<1>3. CASE cmd_rx # <<>> /\ cmd_rx' = Tail(cmd_rx)
  <2>1. Len(cmd_rx') = Len(cmd_rx) - 1
    BY <1>1, <1>3, AfterRecv
  <2> QED
    BY <1>1, <2>1
<1>4. CASE new
  BY <1>1, <1>4 DEF new
<1>5. ASSUME NEW cmd, cmd_rx' = Append(cmd_rx, cmd), Len(cmd_rx) < channel_size
      PROVE  Len(cmd_rx') <= channel_size
  <2>1. Len(cmd_rx') = Len(cmd_rx) + 1
    BY <1>1, <1>5
  <2> QED
    BY <1>1, <1>5, <2>1
<1>6. CASE self_send \/ ControlReader \/ DataReader
  BY <1>2, <1>5, <1>6 DEF self_send, ControlReader, read_subscribe_ok, control_error,
     control_closed, DataReader, read_object, data_ended, Post
<1>7. CASE \/ process_terminate \/ handle_connect \/ handle_open_control_stream
           \/ handle_subscribe \/ handle_subscribe_ok \/ handle_open_data_stream
           \/ discard \/ \E i \in 1..Len(Stream) : handle_process_object(Stream[i])
  BY <1>3, <1>7 DEF process_terminate, handle_connect, handle_open_control_stream,
     handle_subscribe, handle_subscribe_ok, handle_open_data_stream, discard,
     handle_process_object, Recv
<1>8. CASE \/ init_send \/ chunk_send \/ take_init \/ take_chunk \/ leave \/ lose
           \/ UNCHANGED subscriberVars
  BY <1>2, <1>8 DEF init_send, chunk_send, take_init, take_chunk, leave, lose, subscriberVars
<1> QED
  BY <1>4, <1>6, <1>7, <1>8 DEF SubscriberNext, ActorStep

LEMMA FlagsNext ==
    ASSUME Flags, [SubscriberNext]_subscriberVars PROVE Flags'
<1>1. AwaitingType'
  <2>1. CASE UNCHANGED awaiting
    BY <2>1 DEF Flags, AwaitingType
  <2>2. CASE awaiting' = Nothing \/ \E op \in Ops : awaiting' = ToSelf(op)
    BY <2>2 DEF AwaitingType, Nothing, ToSelf
  <2>3. CASE \E i \in 1..Len(Stream) : handle_process_object(Stream[i])
    BY <2>1, <2>3 DEF handle_process_object, ChannelOf, AwaitingType, ToApp
  <2>4. CASE \/ handle_connect \/ handle_open_control_stream \/ handle_subscribe_ok
             \/ self_send \/ init_send \/ chunk_send
    BY <2>1, <2>2, <2>4 DEF handle_connect, handle_open_control_stream, handle_subscribe_ok,
       self_send, init_send, chunk_send, Ops
  <2>5. CASE \/ process_terminate \/ handle_subscribe \/ handle_open_data_stream \/ discard
             \/ new \/ ControlReader \/ DataReader \/ take_init \/ take_chunk \/ leave \/ lose
             \/ UNCHANGED subscriberVars
    BY <2>1, <2>5 DEF process_terminate, handle_subscribe, handle_open_data_stream, discard,
       new, ControlReader, read_subscribe_ok, control_error, control_closed, DataReader,
       read_object, data_ended, take_init, take_chunk, leave, lose, subscriberVars
  <2> QED
    BY <2>3, <2>4, <2>5 DEF SubscriberNext, ActorStep
<1>2. ActorFlags'
  <2>1. CASE UNCHANGED actorVars
    BY <2>1 DEF Flags, ActorFlags, actorVars
  <2>2. CASE handle_terminate
    BY <2>2 DEF ActorFlags, handle_terminate
  <2>3. CASE handle_connect \/ handle_open_control_stream
    BY <2>2, <2>3 DEF Flags, ActorFlags, handle_connect, handle_open_control_stream
  <2>4. CASE handle_subscribe \/ handle_subscribe_ok
    BY <2>2, <2>4 DEF Flags, ActorFlags, handle_subscribe, handle_subscribe_ok
  <2>5. CASE \/ process_terminate \/ handle_open_data_stream \/ discard \/ self_send
             \/ init_send \/ chunk_send
             \/ \E i \in 1..Len(Stream) : handle_process_object(Stream[i])
    BY <2>1, <2>2, <2>5 DEF process_terminate, handle_open_data_stream, discard, self_send,
       init_send, chunk_send, handle_process_object
  <2>6. CASE \/ new \/ ControlReader \/ DataReader \/ take_init \/ take_chunk \/ leave \/ lose
             \/ UNCHANGED subscriberVars
    BY <2>1, <2>6 DEF new, ControlReader, read_subscribe_ok, control_error, control_closed,
       DataReader, read_object, data_ended, take_init, take_chunk, leave, lose, subscriberVars
  <2> QED
    BY <2>3, <2>4, <2>5, <2>6 DEF SubscriberNext, ActorStep
<1>3. ReaderFlags'
  <2>1. CASE UNCHANGED readerVars
    BY <2>1 DEF Flags, ReaderFlags, readerVars
  <2>2. CASE handle_open_control_stream
    BY <2>2 DEF Flags, ReaderFlags, handle_open_control_stream
  <2>3. CASE handle_subscribe
    BY <2>3 DEF Flags, ReaderFlags, handle_subscribe
  <2>4. CASE handle_open_data_stream
    BY <2>4 DEF Flags, ReaderFlags, handle_open_data_stream
  <2>5. CASE read_subscribe_ok
    BY <2>5 DEF Flags, ReaderFlags, read_subscribe_ok
  <2>6. CASE control_error \/ control_closed
    BY <2>6 DEF Flags, ReaderFlags, control_error, control_closed
  <2>7. CASE read_object
    BY <2>7 DEF Flags, ReaderFlags, read_object
  <2>8. CASE data_ended
    BY <2>8 DEF Flags, ReaderFlags, data_ended
  <2>9. CASE \/ process_terminate \/ handle_connect \/ handle_subscribe_ok \/ discard
             \/ self_send \/ init_send \/ chunk_send
             \/ \E i \in 1..Len(Stream) : handle_process_object(Stream[i])
             \/ new \/ take_init \/ take_chunk \/ leave \/ lose \/ UNCHANGED subscriberVars
    BY <2>1, <2>9 DEF process_terminate, handle_connect, handle_subscribe_ok, discard,
       self_send, init_send, chunk_send, handle_process_object, new, take_init, take_chunk,
       leave, lose, subscriberVars
  <2> QED
    BY <2>2, <2>3, <2>4, <2>5, <2>6, <2>7, <2>8, <2>9
       DEF SubscriberNext, ActorStep, ControlReader, DataReader
<1>4. OtherFlags'
  <2>1. CASE UNCHANGED <<appVars, netVars, running>>
    BY <2>1 DEF Flags, OtherFlags, appVars, netVars
  <2>2. CASE process_terminate
    BY <2>2 DEF Flags, OtherFlags, process_terminate, appVars, netVars
  <2>3. CASE take_init \/ take_chunk
    BY <2>3 DEF Flags, OtherFlags, take_init, take_chunk, netVars
  <2>4. CASE leave
    BY <2>4 DEF Flags, OtherFlags, leave, netVars
  <2>5. CASE lose
    BY <2>5 DEF Flags, OtherFlags, lose, appVars
  <2>6. CASE \/ handle_connect \/ handle_open_control_stream
             \/ handle_subscribe \/ handle_subscribe_ok \/ handle_open_data_stream
             \/ discard \/ self_send \/ init_send \/ chunk_send
             \/ \E i \in 1..Len(Stream) : handle_process_object(Stream[i])
    BY <2>1, <2>6 DEF handle_connect, handle_open_control_stream, handle_subscribe,
       handle_subscribe_ok, handle_open_data_stream, discard, self_send, init_send,
       chunk_send, handle_process_object
  <2>7. CASE new \/ ControlReader \/ DataReader \/ UNCHANGED subscriberVars
    BY <2>1, <2>7 DEF new, ControlReader, read_subscribe_ok, control_error, control_closed,
       DataReader, read_object, data_ended, subscriberVars
  <2> QED
    BY <2>2, <2>3, <2>4, <2>5, <2>6, <2>7 DEF SubscriberNext, ActorStep
<1> QED
  BY <1>1, <1>2, <1>3, <1>4 DEF Flags

LEMMA ResourcesNext ==
    ASSUME CommandInv, Resources, [SubscriberNext]_subscriberVars PROVE Resources'
<1> USE DEF Resources, States
<1>1. CASE UNCHANGED actorVars
  BY <1>1 DEF actorVars
<1>2. CASE handle_terminate
  BY <1>2 DEF handle_terminate
<1>3. CASE handle_connect
  BY <1>2, <1>3 DEF handle_connect
<1>4. CASE handle_open_control_stream
  BY <1>2, <1>4 DEF handle_open_control_stream
<1>5. CASE handle_subscribe
  BY <1>2, <1>5 DEF handle_subscribe
<1>6. CASE handle_subscribe_ok
  BY <1>6 DEF handle_subscribe_ok
<1>7. CASE handle_open_data_stream \/ process_terminate
  BY <1>1, <1>2, <1>7 DEF handle_open_data_stream, process_terminate
<1>8. CASE discard \/ self_send \/ \E i \in 1..Len(Stream) : handle_process_object(Stream[i])
  BY <1>1, <1>8 DEF discard, self_send, handle_process_object
<1>9. CASE init_send \/ chunk_send
  BY <1>1, <1>2, <1>9 DEF init_send, chunk_send
<1>10. CASE \/ new \/ ControlReader \/ DataReader \/ take_init \/ take_chunk \/ leave \/ lose
            \/ UNCHANGED subscriberVars
  BY <1>1, <1>10 DEF new, ControlReader, read_subscribe_ok, control_error, control_closed,
     DataReader, read_object, data_ended, take_init, take_chunk, leave, lose, subscriberVars
<1> QED
  BY <1>3, <1>4, <1>5, <1>6, <1>7, <1>8, <1>9, <1>10 DEF SubscriberNext, ActorStep

LEMMA ChannelsNext ==
    ASSUME CommandInv, OrderInv, Channels, [SubscriberNext]_subscriberVars PROVE Channels'
<1>1. /\ Len(inits) \in Nat /\ Len(chunks) \in Nat
      /\ init_taken \in Nat /\ chunk_taken \in Nat
      /\ init_size \in Nat /\ chunk_size \in Nat
  BY SubscriberAssumption, LenProperties DEF Channels
<1>2. InHand => awaiting.object \in Published
  <2> SUFFICES ASSUME InHand PROVE awaiting.object \in Published
    OBVIOUS
  <2>1. state # "Terminated"
    BY DEF InHand, CommandInv, StageInv, Nothing
  <2> QED
    BY <2>1 DEF OrderInv, Published
<1>3. CASE UNCHANGED <<inits, chunks, init_taken, chunk_taken>>
  BY <1>3 DEF Channels
<1>4. CASE init_send
  <2>1. CASE init_open
    <3>1. PICK o \in Published : o = awaiting.object
      BY <1>2, <1>4 DEF init_send, InHand
    <3>2. /\ inits' = Append(inits, o) /\ Len(inits) - init_taken < init_size
          /\ UNCHANGED <<chunks, init_taken, chunk_taken>>
      BY <1>4, <2>1, <3>1 DEF init_send, appVars
    <3>3. inits' \in Seq(Published) /\ Len(inits') = Len(inits) + 1
      BY <3>1, <3>2, AppendProperties DEF Channels
    <3> QED
      BY <1>1, <3>2, <3>3 DEF Channels
  <2>2. CASE ~init_open
    BY <1>3, <1>4, <2>2 DEF init_send, outVars, appVars
  <2> QED
    BY <2>1, <2>2
<1>5. CASE chunk_send
  <2>1. CASE chunk_open
    <3>1. PICK o \in Published : o = awaiting.object
      BY <1>2, <1>5 DEF chunk_send, InHand
    <3>2. /\ chunks' = Append(chunks, o) /\ Len(chunks) - chunk_taken < chunk_size
          /\ UNCHANGED <<inits, init_taken, chunk_taken>>
      BY <1>5, <2>1, <3>1 DEF chunk_send, appVars
    <3>3. chunks' \in Seq(Published) /\ Len(chunks') = Len(chunks) + 1
      BY <3>1, <3>2, AppendProperties DEF Channels
    <3> QED
      BY <1>1, <3>2, <3>3 DEF Channels
  <2>2. CASE ~chunk_open
    BY <1>3, <1>5, <2>2 DEF chunk_send, appVars
  <2> QED
    BY <2>1, <2>2
<1>6. CASE take_init
  BY <1>1, <1>6 DEF take_init, outVars, Channels
<1>7. CASE take_chunk
  BY <1>1, <1>7 DEF take_chunk, outVars, Channels
<1>8. CASE \/ process_terminate \/ handle_connect \/ handle_open_control_stream
           \/ handle_subscribe \/ handle_subscribe_ok \/ handle_open_data_stream
           \/ discard \/ self_send \/ \E i \in 1..Len(Stream) : handle_process_object(Stream[i])
  BY <1>3, <1>8 DEF process_terminate, handle_connect, handle_open_control_stream,
     handle_subscribe, handle_subscribe_ok, handle_open_data_stream, discard, self_send,
     handle_process_object, outVars, appVars
<1>9. CASE \/ new \/ ControlReader \/ DataReader \/ leave \/ lose \/ UNCHANGED subscriberVars
  BY <1>3, <1>9 DEF new, ControlReader, read_subscribe_ok, control_error, control_closed,
     DataReader, read_object, data_ended, leave, lose, subscriberVars, outVars, appVars
<1> QED
  BY <1>4, <1>5, <1>6, <1>7, <1>8, <1>9 DEF SubscriberNext, ActorStep

LEMMA ReadAheadNext ==
    ASSUME CommandInv, ReadInv, OrderInv, ReadAhead, [SubscriberNext]_subscriberVars
    PROVE  ReadAhead'
<1>1. Taken \in Nat /\ processed \in Nat /\ read \in Nat
  BY TakenType DEF ReadInv
<1>2. cmd_rx \in Seq(Commands) /\ Len(cmd_rx) \in Nat
  BY LenProperties DEF CommandInv, QueueInv
<1>3. state = "Terminated" => awaiting = Nothing /\ Taken = processed
  BY DEF CommandInv, StageInv, Taken, InHand, Nothing
<1>4. ASSUME UNCHANGED <<read, processed>>, state' = "Terminated", awaiting' = Nothing
      PROVE  ReadAhead'
  BY <1>1, <1>4 DEF ReadAhead, Taken, InHand, Nothing
<1>5. CASE \/ handle_connect \/ handle_open_control_stream \/ handle_subscribe
           \/ handle_subscribe_ok \/ handle_open_data_stream
  <2>1. \A i \in Queued' : Final(i)'
    BY <1>5, HandlerQueue
  <2>2. \A i \in Queued' : cmd_rx'[i].op # "ProcessObject"
    BY <2>1 DEF Final
  <2>3. /\ awaiting = Nothing
        /\ awaiting' \in {Nothing, ToSelf("OpenControlStream"), ToSelf("Subscribe"),
                          ToSelf("OpenDataStream")}
        /\ UNCHANGED <<read, processed>>
    BY <1>5 DEF handle_connect, handle_open_control_stream, handle_subscribe,
       handle_subscribe_ok, handle_open_data_stream, readerVars, outVars, Recv
  <2>4. Taken' = Taken
    BY <2>3 DEF Taken, InHand, Nothing, ToSelf
  <2> QED
    BY <2>2, <2>3, <2>4 DEF ReadAhead
<1>6. ASSUME NEW k \in 1..Len(Stream), handle_process_object(Stream[k]) PROVE ReadAhead'
  <2>1. /\ Taken = processed /\ ~Final(1) /\ state = "Subscribed" /\ awaiting = Nothing
    BY <1>6, TakenObject
  <2>2. /\ cmd_rx # <<>> /\ cmd_rx' = Tail(cmd_rx) /\ Head(cmd_rx) = ProcessObject(Stream[k])
        /\ UNCHANGED <<state, read>>
    BY <1>6 DEF handle_process_object, Recv, actorVars, readerVars
  <2>3. /\ \A i \in Queued' : i + 1 \in Queued /\ cmd_rx'[i] = cmd_rx[i + 1]
        /\ Head(cmd_rx) = cmd_rx[1] /\ 1 \in Queued
    BY <1>2, <2>2, AfterRecv
  <2>4. Taken' = Taken + 1
    <3>1. CASE ChannelOf(Stream[k]) = "none"
      <4>1. processed' = processed + 1 /\ awaiting' = Nothing
        BY <1>6, <2>1, <3>1 DEF handle_process_object
      <4> QED
        BY <2>1, <4>1 DEF Taken, InHand, Nothing
    <3>2. CASE ChannelOf(Stream[k]) # "none"
      <4>1. processed' = processed /\ awaiting' = ToApp(ChannelOf(Stream[k]), Stream[k])
        BY <1>6, <3>2 DEF handle_process_object
      <4>2. ChannelOf(Stream[k]) \in {"init", "chunk"}
        BY <3>2 DEF ChannelOf
      <4> QED
        BY <2>1, <4>1, <4>2 DEF Taken, InHand, ToApp
    <3> QED
      BY <3>1, <3>2
  <2>5. Taken + 1 <= read
    <3>1. cmd_rx[1].op = "ProcessObject"
      BY <2>2, <2>3, CommandOps
    <3> QED
      BY <2>1, <2>3, <3>1 DEF ReadAhead
  <2>6. ASSUME NEW i \in Queued', cmd_rx'[i].op = "ProcessObject", \A j \in 1..i : ~Final(j)'
        PROVE  Taken' + i <= read'
    <3>1. i + 1 \in Queued /\ cmd_rx[i + 1].op = "ProcessObject" /\ i \in Nat
      BY <2>3, <2>6 DEF Queued
    <3>2. \A j \in 1..(i + 1) : ~Final(j)
      <4> SUFFICES ASSUME NEW j \in 1..(i + 1), j # 1 PROVE ~Final(j)
        BY <2>1
      <4>1. j - 1 \in 1..i /\ j - 1 \in Queued' /\ (j - 1) + 1 = j
        BY <2>6, <3>1 DEF Queued
      <4>2. cmd_rx'[j - 1] = cmd_rx[j] /\ ~Final(j - 1)'
        BY <2>3, <2>6, <4>1
      <4> QED
        BY <4>2 DEF Final
    <3>3. Taken + (i + 1) <= read
      BY <2>1, <3>1, <3>2 DEF ReadAhead
    <3> QED
      BY <1>1, <2>2, <2>4, <3>1, <3>3
  <2> QED
    BY <2>2, <2>4, <2>5, <2>6 DEF ReadAhead
<1>7. CASE process_terminate
  <2>1. awaiting = Nothing /\ awaiting' = Nothing /\ state' = "Terminated"
        /\ UNCHANGED <<read, processed>>
    BY <1>7 DEF process_terminate, handle_terminate, Recv, readerVars, outVars
  <2> QED
    BY <1>4, <2>1
<1>8. CASE discard
  <2>1. /\ awaiting = Nothing /\ cmd_rx # <<>>
        /\ UNCHANGED <<state, awaiting, read, processed>>
        /\ Head(cmd_rx).op # "Terminate" /\ ~Accepts(state, Head(cmd_rx).op)
    BY <1>8 DEF discard, Recv, actorVars, readerVars, outVars
  <2>2. Head(cmd_rx) = cmd_rx[1] /\ 1 \in Queued
    BY <1>2, <2>1 DEF Queued
  <2>3. state = "Terminated"
    BY <2>1, <2>2 DEF CommandInv, QueueInv, Final
  <2> QED
    BY <1>4, <2>1, <2>3
<1>9. CASE init_send \/ chunk_send
  <2>1. InHand /\ Taken = processed + 1 /\ awaiting' = Nothing /\ cmd_rx' = cmd_rx
        /\ read' = read
    BY <1>9 DEF init_send, chunk_send, InHand, Taken, readerVars
  <2>2. \/ processed' = processed + 1 /\ state' = state
        \/ processed' = processed /\ state' = "Terminated"
    BY <1>9 DEF init_send, chunk_send, handle_terminate, actorVars, outVars
  <2>3. CASE processed' = processed /\ state' = "Terminated"
    BY <1>4, <2>1, <2>3
  <2>4. CASE processed' = processed + 1 /\ state' = state
    <3>1. Taken' = Taken
      BY <2>1, <2>4 DEF Taken, InHand, Nothing
    <3> QED
      BY <2>1, <2>4, <3>1 DEF ReadAhead, Queued, Final
  <2> QED
    BY <2>2, <2>3, <2>4
\* A command is added to the queue; if it is an object it is the one just read.
<1>10. ASSUME NEW cmd \in Commands, cmd_rx' = Append(cmd_rx, cmd), Taken' = Taken, state' = state,
              read' \in Nat, read <= read',
              state # "Terminated" /\ cmd.op = "ProcessObject" /\ (\A i \in Queued : ~Final(i))
              => Taken + (Len(cmd_rx) + 1) <= read'
       PROVE  ReadAhead'
  <2>1. /\ Queued' = Queued \cup {Len(cmd_rx) + 1} /\ Len(cmd_rx) + 1 \notin Queued
        /\ \A i \in Queued : cmd_rx'[i] = cmd_rx[i]
        /\ cmd_rx'[Len(cmd_rx) + 1] = cmd
    BY <1>2, <1>10, AfterSend
  <2>2. Taken' <= read'
    BY <1>1, <1>10 DEF ReadAhead
  <2>3. ASSUME NEW i \in Queued', cmd_rx'[i].op = "ProcessObject", \A j \in 1..i : ~Final(j)',
               state # "Terminated"
        PROVE  Taken' + i <= read'
    <3>1. CASE i \in Queued
      <4>1. \A j \in 1..i : j \in Queued /\ ~Final(j)
        <5> SUFFICES ASSUME NEW j \in 1..i PROVE j \in Queued /\ ~Final(j)
          OBVIOUS
        <5>1. j \in Queued
          BY <1>2, <3>1 DEF Queued
        <5> QED
          BY <2>1, <2>3, <5>1 DEF Final
      <4>2. Taken + i <= read /\ i \in Nat
        BY <2>1, <2>3, <3>1, <4>1 DEF ReadAhead, Queued
      <4> QED
        BY <1>1, <1>10, <4>2
    <3>2. CASE i = Len(cmd_rx) + 1
      <4>1. \A j \in Queued : ~Final(j)
        <5> SUFFICES ASSUME NEW j \in Queued PROVE ~Final(j)
          OBVIOUS
        <5>1. j \in 1..i
          BY <1>2, <3>2 DEF Queued
        <5> QED
          BY <2>1, <2>3, <5>1 DEF Final
      <4> QED
        BY <1>10, <2>1, <2>3, <3>2, <4>1
    <3> QED
      BY <2>1, <3>1, <3>2
  <2> QED
    BY <1>10, <2>2, <2>3 DEF ReadAhead
<1>11. CASE self_send
  <2>1. /\ awaiting.to = "self" /\ awaiting.cmd \in Commands
        /\ cmd_rx' = Append(cmd_rx, awaiting.cmd) /\ awaiting' = Nothing
        /\ UNCHANGED <<state, read, processed>>
    BY <1>11 DEF self_send, CommandInv, StageInv, actorVars, readerVars, outVars
  <2>2. awaiting.cmd.op # "ProcessObject"
    BY <2>1 DEF OrderInv
  <2>3. Taken' = Taken
    BY <2>1 DEF Taken, InHand, Nothing
  <2> QED
    BY <1>1, <1>10, <2>1, <2>2, <2>3
<1>12. ASSUME UNCHANGED <<cmd_rx, state, processed, awaiting>>, read' \in Nat, read <= read'
       PROVE  ReadAhead'
  <2>1. Taken' = Taken
    BY <1>12 DEF Taken, InHand
  <2>2. ASSUME NEW i \in Queued, Taken + i <= read PROVE Taken + i <= read'
    BY <1>1, <1>2, <1>12, <2>2 DEF Queued
  <2>3. Taken <= read'
    BY <1>1, <1>12 DEF ReadAhead
  <2> QED
    BY <1>12, <2>1, <2>2, <2>3 DEF ReadAhead, Queued, Final
<1>13. CASE read_subscribe_ok \/ control_error
  <2>1. UNCHANGED <<state, awaiting, processed, read>>
    BY <1>13 DEF read_subscribe_ok, control_error, actorVars, outVars
  <2>2. Taken' = Taken
    BY <2>1 DEF Taken, InHand
  <2>3. CASE ~running
    <3>1. cmd_rx' = cmd_rx
      BY <1>13, <2>3 DEF read_subscribe_ok, control_error, Post
    <3> QED
      BY <1>1, <1>12, <2>1, <3>1
  <2>4. CASE running
    <3>1. PICK op \in {"SubscribeOk", "Terminate"} : cmd_rx' = Append(cmd_rx, Command(op))
      BY <1>13, <2>4 DEF read_subscribe_ok, control_error, Post
    <3>2. Command(op) \in Commands /\ Command(op).op # "ProcessObject"
      BY <3>1, CommandOps DEF Ops
    <3> QED
      BY <1>1, <1>10, <2>1, <2>2, <3>1, <3>2
  <2> QED
    BY <2>3, <2>4
<1>14. CASE read_object
  <2>1. /\ data_reader = "reading" /\ read < Len(Stream) /\ read' = read + 1
        /\ UNCHANGED <<state, awaiting, processed>>
    BY <1>14 DEF read_object, actorVars, outVars
  <2>2. Taken' = Taken /\ read' \in Nat /\ read <= read'
    BY <1>1, <2>1 DEF Taken, InHand
  <2>3. CASE ~running
    <3>1. cmd_rx' = cmd_rx
      BY <1>14, <2>3 DEF read_object, Post
    <3> QED
      BY <1>12, <2>1, <2>2, <3>1
  <2>4. CASE running
    <3>1. PICK cmd \in Commands : cmd_rx' = Append(cmd_rx, cmd)
      <4>1. read + 1 \in 1..Len(Stream)
        BY <1>1, <2>1, SubscriberAssumption
      <4> QED
        BY <1>14, <2>4, <4>1, CommandOps DEF read_object, Post
    <3>2. state # "Terminated" /\ (\A i \in Queued : ~Final(i)) => read = Taken + Len(cmd_rx)
      BY <2>1 DEF OrderInv
    <3>3. state # "Terminated" /\ cmd.op = "ProcessObject" /\ (\A i \in Queued : ~Final(i))
          => Taken + (Len(cmd_rx) + 1) <= read'
      BY <1>1, <1>2, <2>1, <3>2
    <3> QED
      BY <1>10, <2>1, <2>2, <3>1, <3>3
  <2> QED
    BY <2>3, <2>4
<1>15. CASE new
  <2>1. cmd_rx = <<>> /\ cmd_rx' = <<Command("Connect")>>
        /\ UNCHANGED <<state, awaiting, processed, read>>
    BY <1>15 DEF new, CommandInv, StageInv, actorVars, readerVars, outVars
  <2>2. Command("Connect").op # "ProcessObject"
    BY CommandOps DEF Ops
  <2>3. \A i \in Queued' : cmd_rx'[i].op # "ProcessObject"
    BY <2>1, <2>2 DEF Queued
  <2>4. Taken' = Taken
    BY <2>1 DEF Taken, InHand
  <2> QED
    BY <2>1, <2>3, <2>4 DEF ReadAhead
<1>16. CASE \/ control_closed \/ data_ended \/ take_init \/ take_chunk \/ leave \/ lose
            \/ UNCHANGED subscriberVars
  <2>1. UNCHANGED <<cmd_rx, state, awaiting, processed, read>>
    BY <1>16 DEF control_closed, data_ended, take_init, take_chunk, leave, lose, subscriberVars,
       actorVars, readerVars, outVars
  <2> QED
    BY <1>1, <1>12, <2>1
<1> QED
  BY <1>5, <1>6, <1>7, <1>8, <1>9, <1>11, <1>13, <1>14, <1>15, <1>16
     DEF SubscriberNext, ActorStep, ControlReader, DataReader

LEMMA NextTypeInv == TypeInv /\ [SubscriberNext]_subscriberVars => TypeInv'
<1> SUFFICES ASSUME TypeInv, [SubscriberNext]_subscriberVars PROVE TypeInv'
  OBVIOUS
<1>1. CommandInv' /\ ReadInv' /\ OrderInv'
  BY NextCommandInv, NextRead, NextOrderInv DEF TypeInv
<1>2. Len(cmd_rx') <= channel_size
  BY QueueBound DEF TypeInv
<1>3. Flags' /\ Resources' /\ Channels' /\ ReadAhead'
  BY FlagsNext, ResourcesNext, ChannelsNext, ReadAheadNext DEF TypeInv
<1> QED
  BY <1>1, <1>2, <1>3 DEF TypeInv

\* The fields keep their types, no channel holds more than its capacity,
\* nothing is handled before it is read, and each state has the connection and
\* the control stream its handlers take for granted (subscriber.rs:65-98,
\* 183-223), wherever a handler fails.
THEOREM SubscriberTypeCorrect == SubscriberSpec => []SubscriberTypeOK
<1>1. TypeInv => SubscriberTypeOK
  <2> SUFFICES ASSUME TypeInv PROVE SubscriberTypeOK
    OBVIOUS
  <2>1. processed <= read
    <3>1. Taken \in Nat /\ processed \in Nat /\ read \in Nat /\ Taken <= read
      BY TakenType DEF TypeInv, ReadInv, ReadAhead
    <3>2. processed <= Taken
      BY <3>1 DEF Taken
    <3> QED
      BY <3>1, <3>2
  <2>2. state \in States /\ read \in 0..Len(Stream)
    BY DEF TypeInv, CommandInv, StageInv, OrderInv
  <2>3. /\ {is_audio, running, connection, control_send, subscribed, answered,
            init_open, chunk_open, reachable, lost} \subseteq BOOLEAN
        /\ {control_reader, data_reader} \subseteq {"none", "reading", "done"}
    BY DEF TypeInv, Flags, ActorFlags, ReaderFlags, OtherFlags
  <2> QED
    BY <2>1, <2>2, <2>3 DEF TypeInv, Flags, AwaitingType, Resources, Channels, SubscriberTypeOK
<1> QED
  BY <1>1, InitTypeInv, NextTypeInv, PTL DEF SubscriberSpec
=============================================================================
