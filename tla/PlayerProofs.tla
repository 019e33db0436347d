---------------------------- MODULE PlayerProofs ----------------------------
(***************************************************************************)
(* Proofs about the players: for every list of announcements, every        *)
(* channel, every number of chunks and failures, and every interleaving of *)
(* the monitor, main and the Ctrl+C handler.                               *)
(***************************************************************************)
EXTENDS Player, SequenceTheorems, TLAPS

-----------------------------------------------------------------------------
(* Announcements on their way.                                             *)

\* The announcements of the sender from place n + 1 to place m, but for those
\* that gossip dropped.
FromSender(n, m) ==
    {i \in (n + 1)..m : Announcements[i].sender = sender_id /\ i \notin missed}

Waiting == queue \o monitor

\* The streams main has subscribed to, and the one it is about to.
Taken == IF main = "subscribing" THEN Append(tried, current) ELSE tried

\* Main has taken what it is to follow of the first n announcements; the
\* sender's announcements after these wait in the channel and in the monitor.
TakenUpTo(n) ==
    /\ Picks(Taken, Streams, Wanted(n))
    /\ Picks(Waiting, Announcements, FromSender(n, announced))


MonitorTypes ==
    /\ announced \in 0..Len(Announcements) /\ missed \subseteq 1..announced
    /\ queue \in Seq(Range(Announcements)) /\ monitor \in Seq(Range(Announcements))
    /\ tried \in Seq(Nat) /\ current \in Nat
    /\ main \in {"subscribing", "initializing"} => current # NoStream

AnnouncedInv ==
    /\ MonitorTypes
    /\ AnnouncementsInOrder
    /\ main # "exited" => \E n \in 0..announced : TakenUpTo(n)

-----------------------------------------------------------------------------
(* The recording.                                                          *)

Items == {"init", "key", "delta", "tiny"} \X Nat

RecordingTypes ==
    /\ media \in {"video", "audio"}
    /\ disk \in Seq(Items) /\ buffered \in Seq(Items) /\ received \in Seq(Items)
    /\ saver_init \in Nat /\ shutdown \in Nat

\* Only the video player records, and the file is open while it plays; once
\* the handler has given main its message and main has taken it, a file that is
\* open is one of a stream started since.
OpenWhilePlaying ==
    /\ media = "audio" => recording = "none"
    /\ media = "video" /\ main = "playing" => recording = "open"
    /\ recording = "open" =>
         /\ main \in {"playing", "exited"}
         /\ main = "exited" => restarted
         /\ ctrl_c = "sleeping" /\ shutdown = 0 => restarted

HasInit == received # <<>> /\ received[1][1] = "init"

FileInv ==
    /\ recording = "closed" => buffered = <<>>
    /\ HasInit => /\ recording = "open" => Recorded(disk \o buffered)
                  /\ recording = "closed" => Recorded(disk)

RecordingInv == MonitorTypes /\ RecordingTypes /\ OpenWhilePlaying /\ FileInv

-----------------------------------------------------------------------------
(* Picks.                                                                  *)

LEMMA PicksNothing ==
  ASSUME NEW list
  PROVE  Picks(<<>>, list, {})
<1> DEFINE at == [i \in 1..0 |-> 0]
<1>1. at \in [1..Len(<<>>) -> {}] /\ 1..Len(<<>>) = {}
  OBVIOUS
<1> QED
  BY <1>1 DEF Picks

\* What is picked of a list is picked of any that agrees with it there.
LEMMA PicksSame ==
  ASSUME NEW items, NEW list, NEW list2, NEW places,
         Picks(items, list, places), \A p \in places : list2[p] = list[p]
  PROVE  Picks(items, list2, places)
<1>1. PICK at \in [1..Len(items) -> places] :
        /\ \A i, j \in 1..Len(items) : i < j => at[i] < at[j]
        /\ \A p \in places : \E i \in 1..Len(items) : at[i] = p
        /\ \A i \in 1..Len(items) : items[i] = list[at[i]]
  BY DEF Picks
<1>2. \A i \in 1..Len(items) : items[i] = list2[at[i]]
  BY <1>1
<1> QED
  BY <1>1, <1>2 DEF Picks

\* A later place adds its item at the end.
LEMMA PicksAppend ==
  ASSUME NEW S, NEW items \in Seq(S), NEW item \in S, NEW list, NEW places \in SUBSET Nat,
         Picks(items, list, places),
         NEW last \in Nat, \A p \in places : p < last, item = list[last]
  PROVE  Picks(Append(items, item), list, places \cup {last})
<1> DEFINE n == Len(items)
           more == Append(items, item)
<1>1. PICK at \in [1..n -> places] :
        /\ \A i, j \in 1..n : i < j => at[i] < at[j]
        /\ \A p \in places : \E i \in 1..n : at[i] = p
        /\ \A i \in 1..n : items[i] = list[at[i]]
  BY DEF Picks
<1> DEFINE at2 == [i \in 1..(n + 1) |-> IF i = n + 1 THEN last ELSE at[i]]
<1>2. /\ n \in Nat /\ Len(more) = n + 1
      /\ more[n + 1] = item /\ \A i \in 1..n : more[i] = items[i]
  BY AppendProperties
<1>3. \A i \in 1..n : at2[i] = at[i] /\ i \in 1..(n + 1)
  BY <1>2
<1>4. at2[n + 1] = last /\ n + 1 \in 1..(n + 1)
  BY <1>2
<1>5. \A i \in 1..(n + 1) : i \in 1..n \/ i = n + 1
  BY <1>2
<1>6. at2 \in [1..(n + 1) -> places \cup {last}]
  BY <1>1, <1>3, <1>4, <1>5
<1>7. ASSUME NEW i \in 1..(n + 1), NEW j \in 1..(n + 1), i < j PROVE at2[i] < at2[j]
  <2>1. i \in 1..n
    BY <1>2, <1>7
  <2>2. CASE j = n + 1
    BY <1>1, <1>3, <1>4, <2>1, <2>2
  <2>3. CASE j \in 1..n
    BY <1>1, <1>3, <1>7, <2>1, <2>3
  <2> QED
    BY <1>5, <2>2, <2>3
<1>8. ASSUME NEW p \in places \cup {last} PROVE \E i \in 1..(n + 1) : at2[i] = p
  BY <1>1, <1>3, <1>4
<1>9. \A i \in 1..(n + 1) : more[i] = list[at2[i]]
  BY <1>1, <1>2, <1>3, <1>4, <1>5
<1>10. PICK m \in Nat : m = n + 1
  BY <1>2
<1>11. PICK f \in [1..m -> places \cup {last}] : f = at2
  BY <1>6, <1>10
<1> HIDE DEF at2, more, n
<1>12. /\ \A i, j \in 1..m : i < j => f[i] < f[j]
       /\ \A p \in places \cup {last} : \E i \in 1..m : f[i] = p
       /\ \A i \in 1..m : more[i] = list[f[i]]
  BY <1>7, <1>8, <1>9, <1>10, <1>11
<1>13. Len(more) = m
  BY <1>2, <1>10
<1>14. Picks(more, list, places \cup {last})
  BY <1>12, <1>13 DEF Picks
<1> QED
  BY <1>14 DEF more

\* The first item is that of the least place.
LEMMA PicksTail ==
  ASSUME NEW S, NEW items \in Seq(S), items # <<>>, NEW list, NEW places \in SUBSET Nat,
         Picks(items, list, places)
  PROVE  \E first \in places : /\ Head(items) = list[first]
                               /\ \A p \in places : first <= p
                               /\ Picks(Tail(items), list, places \ {first})
<1> DEFINE n == Len(items)
           rest == Tail(items)
<1>1. PICK at \in [1..n -> places] :
        /\ \A i, j \in 1..n : i < j => at[i] < at[j]
        /\ \A p \in places : \E i \in 1..n : at[i] = p
        /\ \A i \in 1..n : items[i] = list[at[i]]
  BY DEF Picks
<1>2. /\ n \in Nat /\ n >= 1 /\ Len(rest) = n - 1 /\ Head(items) = items[1]
      /\ \A i \in 1..(n - 1) : rest[i] = items[i + 1]
  BY HeadTailProperties, EmptySeq, LenProperties
<1> DEFINE at2 == [i \in 1..(n - 1) |-> at[i + 1]]
<1>3. 1 \in 1..n /\ \A i \in 1..(n - 1) : i + 1 \in 1..n /\ 1 < i + 1
  BY <1>2
<1>4. \A i \in 1..(n - 1) : at[1] < at[i + 1] /\ at2[i] = at[i + 1]
  BY <1>1, <1>3
<1>5. \A i \in 1..n : i = 1 \/ (i - 1 \in 1..(n - 1) /\ (i - 1) + 1 = i)
  BY <1>2
<1>6. at2 \in [1..(n - 1) -> places \ {at[1]}]
  <2>1. ASSUME NEW i \in 1..(n - 1) PROVE at2[i] \in places \ {at[1]}
    <3>1. at[i + 1] \in places /\ at[1] \in places /\ at[1] < at[i + 1]
      BY <1>1, <1>3, <1>4
    <3>2. at[i + 1] \in Nat /\ at[1] \in Nat
      BY <3>1
    <3>3. at[i + 1] # at[1]
      BY <3>1, <3>2
    <3> QED
      BY <3>1, <3>3, <1>4
  <2> QED
    BY <2>1
<1>7. ASSUME NEW i \in 1..(n - 1), NEW j \in 1..(n - 1), i < j PROVE at2[i] < at2[j]
  <2>1. i + 1 < j + 1 /\ i + 1 \in 1..n /\ j + 1 \in 1..n
    BY <1>2, <1>7
  <2> QED
    BY <2>1, <1>1, <1>4
<1>8. ASSUME NEW p \in places \ {at[1]} PROVE \E i \in 1..(n - 1) : at2[i] = p
  <2>1. PICK i \in 1..n : at[i] = p
    BY <1>1
  <2>2. i - 1 \in 1..(n - 1) /\ (i - 1) + 1 = i
    BY <2>1, <1>5
  <2>3. at2[i - 1] = p
    BY <2>1, <2>2, <1>4
  <2> QED
    BY <2>2, <2>3
<1>9. \A i \in 1..(n - 1) : rest[i] = list[at2[i]]
  BY <1>1, <1>2, <1>3, <1>4
<1>10. at[1] \in places /\ Head(items) = list[at[1]]
  BY <1>1, <1>2, <1>3
<1>11. \A p \in places : at[1] <= p
  <2>1. SUFFICES ASSUME NEW p \in places PROVE at[1] <= p
    OBVIOUS
  <2>2. PICK i \in 1..n : at[i] = p
    BY <1>1
  <2>3. CASE i = 1
    BY <2>2, <2>3
  <2>4. CASE i # 1
    <3>1. 1 < i
      BY <1>2, <2>4
    <3>2. at[1] < p
      BY <3>1, <1>1, <1>3, <2>2
    <3>3. at[1] \in Nat /\ p \in Nat
      BY <1>10
    <3> QED
      BY <3>2, <3>3
  <2> QED
    BY <2>3, <2>4
<1> HIDE DEF at2, rest, n
<1>12. Picks(rest, list, places \ {at[1]})
  <2> DEFINE others == places \ {at[1]}
  <2>1. at2 \in [1..Len(rest) -> others]
    BY <1>2, <1>6
  <2>2. \A i, j \in 1..Len(rest) : i < j => at2[i] < at2[j]
    BY <1>2, <1>7
  <2>3. \A p \in others : \E i \in 1..Len(rest) : at2[i] = p
    BY <1>2, <1>8
  <2>4. \A i \in 1..Len(rest) : rest[i] = list[at2[i]]
    BY <1>2, <1>9
  <2> HIDE DEF others
  <2>5. Picks(rest, list, others)
    BY <2>1, <2>2, <2>3, <2>4 DEF Picks
  <2> QED
    BY <2>5 DEF others
<1> QED
  BY <1>10, <1>11, <1>12 DEF rest

-----------------------------------------------------------------------------
(* Announcements in order.                                                 *)

LEMMA WantedProperties ==
  ASSUME NEW n \in Nat
  PROVE  /\ Wanted(n) \in SUBSET (1..n)
         /\ \A i \in 1..n : i \in Wanted(n) <=>
              /\ Announcements[i].sender = sender_id /\ i \notin missed
              /\ media = "audio" => Announcements[i].audio
BY DEF Wanted

LEMMA PlayerInitAnnounced == PlayerInit => AnnouncedInv
<1> SUFFICES ASSUME PlayerInit PROVE AnnouncedInv
  OBVIOUS
<1> USE DEF PlayerInit
<1>1. Taken = <<>> /\ Waiting = <<>>
  BY DEF Taken, Waiting
<1>2. Wanted(0) = {} /\ FromSender(0, 0) = {}
  BY DEF Wanted, FromSender
<1>3. TakenUpTo(0)
  BY <1>1, <1>2, PicksNothing DEF TakenUpTo
<1>4. AnnouncementsInOrder
  <2>1. announced = 0 /\ tried = <<>>
    OBVIOUS
  <2>2. Picks(tried, Streams, Wanted(0))
    BY <1>2, <2>1, PicksNothing
  <2> QED
    BY <2>1, <2>2 DEF AnnouncementsInOrder
<1>5. MonitorTypes
  BY PlayerAssumption DEF MonitorTypes, NoStream
<1> QED
  BY <1>3, <1>4, <1>5 DEF AnnouncedInv

LEMMA AnnouncementTypes ==
  /\ Len(Announcements) \in Nat
  /\ \A i \in 1..Len(Announcements) :
       /\ Announcements[i] \in Range(Announcements)
       /\ Streams[i] = Announcements[i].stream
  /\ \A a \in Range(Announcements) : a.stream \in Nat \ {0} /\ a.audio \in BOOLEAN
<1> DEFINE A == [stream : Nat \ {0}, sender : STRING, audio : BOOLEAN]
<1>1. Announcements \in Seq(A)
  BY PlayerAssumption
<1>2. \A a \in A : a.stream \in Nat \ {0} /\ a.audio \in BOOLEAN
  OBVIOUS
<1> HIDE DEF A
<1>3. /\ Len(Announcements) \in Nat /\ DOMAIN Announcements = 1..Len(Announcements)
      /\ \A i \in 1..Len(Announcements) : Announcements[i] \in A
  BY <1>1
<1>4. \A i \in 1..Len(Announcements) : Announcements[i] \in Range(Announcements)
  BY <1>3 DEF Range
<1>5. \A a \in Range(Announcements) : a \in A
  BY <1>3 DEF Range
<1>6. \A i \in 1..Len(Announcements) : Streams[i] = Announcements[i].stream
  BY <1>3 DEF Streams
<1> QED
  BY <1>2, <1>3, <1>4, <1>5, <1>6

LEMMA PlayerNextMonitorTypes == MonitorTypes /\ [PlayerNext]_playerVars => MonitorTypes'
<1> SUFFICES ASSUME MonitorTypes, [PlayerNext]_playerVars PROVE MonitorTypes'
  OBVIOUS
<1> USE DEF MonitorTypes, gossipVars
<1>1. CASE monitor_next
  <2>1. UNCHANGED <<missed, queue, tried, current, main>>
    BY <1>1 DEF monitor_next
  <2>2. announced \in Nat /\ announced < Len(Announcements) /\ announced' = announced + 1
    BY <1>1 DEF monitor_next
  <2>3. announced' \in 0..Len(Announcements) /\ missed' \subseteq 1..announced'
    BY <2>1, <2>2, AnnouncementTypes
  <2>4. announced + 1 \in 1..Len(Announcements)
    BY <2>2, AnnouncementTypes
  <2>5. PICK a \in Range(Announcements) : a = Announcements[announced + 1]
    BY <2>4, AnnouncementTypes
  <2>6. monitor' = <<a>> \/ monitor' = <<>>
    BY <1>1, <2>5 DEF monitor_next
  <2>7. monitor' \in Seq(Range(Announcements))
    <3>1. <<a>> \in Seq(Range(Announcements)) /\ <<>> \in Seq(Range(Announcements))
      OBVIOUS
    <3> QED
      BY <2>6, <3>1
  <2> QED
    BY <2>1, <2>3, <2>7
<1>2. CASE monitor_send
  <2>1. monitor' = <<>> /\ queue' = queue \o monitor
    BY <1>2 DEF monitor_send
  <2>2. monitor' \in Seq(Range(Announcements)) /\ queue' \in Seq(Range(Announcements))
    BY <2>1
  <2> QED
    BY <1>2, <2>2 DEF monitor_send
<1>3. CASE select_announcement
  <2>1. Head(queue) \in Range(Announcements) /\ Tail(queue) \in Seq(Range(Announcements))
    BY <1>3 DEF select_announcement
  <2> QED
    BY <2>1, <1>3, AnnouncementTypes DEF select_announcement, NoStream
<1>4. CASE subscribe
  BY <1>4 DEF subscribe
<1>5. CASE monitor_lagged
  <2>1. /\ announced \in Nat /\ announced < Len(Announcements) /\ announced' = announced + 1
        /\ missed' = missed \cup {announced + 1}
        /\ UNCHANGED <<queue, monitor, tried, current, main>>
    BY <1>5 DEF monitor_lagged
  <2>2. announced' \in 0..Len(Announcements) /\ missed' \subseteq 1..announced'
    BY <2>1, AnnouncementTypes
  <2> QED
    BY <2>1, <2>2
<1>6. CASE \/ monitor_ends \/ select_shutdown \/ announcements_closed \/ audio_init
           \/ give_up \/ inner_shutdown \/ init_recv \/ video_chunk \/ audio_chunk
           \/ chunk_end \/ press \/ send_shutdown \/ force_exit \/ UNCHANGED playerVars
  BY <1>6 DEF monitor_ends, select_shutdown, announcements_closed, audio_init, give_up,
       inner_shutdown, init_recv, video_chunk, audio_chunk, chunk_end, press, send_shutdown,
       force_exit, playerVars, StartOrRetry
<1> QED
  BY <1>1, <1>2, <1>3, <1>4, <1>5, <1>6
     DEF PlayerNext, Monitor, MainAlone, StreamAnswers, Handler

\* A step that leaves the announcements alone, and main as far from its next
\* subscription as it was, unless it ends the program.
LEMMA AnnouncedFrame ==
  ASSUME AnnouncedInv, MonitorTypes',
         UNCHANGED <<media, announced, missed, queue, monitor, tried, current>>,
         \/ main' = "exited"
         \/ main # "exited" /\ (main' = "subscribing" <=> main = "subscribing")
  PROVE  AnnouncedInv'
<1>1. \A n : Wanted(n)' = Wanted(n)
  BY DEF Wanted
<1>2. AnnouncementsInOrder'
  BY <1>1 DEF AnnouncedInv, AnnouncementsInOrder
<1>3. ASSUME main' # "exited" PROVE \E n \in 0..announced' : TakenUpTo(n)'
  <2>1. PICK n \in 0..announced : TakenUpTo(n)
    BY <1>3 DEF AnnouncedInv
  <2>2. Taken' = Taken /\ Waiting' = Waiting /\ announced' = announced
    BY <1>3 DEF Taken, Waiting
  <2>3. TakenUpTo(n)'
    BY <1>1, <2>1, <2>2 DEF TakenUpTo, FromSender
  <2> QED
    BY <2>1, <2>3
<1> QED
  BY <1>2, <1>3 DEF AnnouncedInv

LEMMA MonitorNextAnnounced ==
  ASSUME AnnouncedInv, MonitorTypes', monitor_next
  PROVE  AnnouncedInv'
<1> USE DEF monitor_next
<1>1. \A n : Wanted(n)' = Wanted(n)
  BY DEF Wanted
<1> DEFINE next == announced + 1
<1>2. /\ announced \in 0..Len(Announcements) /\ next \in 1..Len(Announcements)
      /\ queue \in Seq(Range(Announcements)) /\ announced' = next
      /\ next \notin missed /\ missed' = missed
  BY AnnouncementTypes DEF AnnouncedInv, MonitorTypes
<1>3. AnnouncementsInOrder'
  <2>1. PICK n \in 0..announced : Picks(tried, Streams, Wanted(n))
    BY DEF AnnouncedInv, AnnouncementsInOrder
  <2>2. n \in 0..announced' /\ tried' = tried
    BY <1>2
  <2> QED
    BY <1>1, <2>1, <2>2 DEF AnnouncementsInOrder
<1>4. ASSUME main # "exited" PROVE \E n \in 0..announced' : TakenUpTo(n)'
  <2>1. PICK n \in 0..announced : TakenUpTo(n)
    BY <1>4 DEF AnnouncedInv
  <2>2. Picks(Taken, Streams, Wanted(n))'
    BY <1>1, <2>1 DEF TakenUpTo, Taken
  <2>3. Waiting = queue /\ Picks(queue, Announcements, FromSender(n, announced))
    BY <1>2, <2>1 DEF Waiting, TakenUpTo
  <2>4. FromSender(n, announced) \in SUBSET Nat /\ \A p \in FromSender(n, announced) : p < next
    BY <1>2, <2>1 DEF FromSender
  <2>5. CASE Announcements[next].sender = sender_id
    <3>1. FromSender(n, next) = FromSender(n, announced) \cup {next}
      BY <1>2, <2>1, <2>5 DEF FromSender
    <3>2. Announcements[next] \in Range(Announcements)
      BY <1>2, AnnouncementTypes
    <3>3. Waiting' = Append(queue, Announcements[next])
      BY <1>2, <2>5, <3>2, AppendIsConcat DEF Waiting
    <3>4. Picks(Append(queue, Announcements[next]), Announcements, FromSender(n, next))
      BY <1>2, <2>3, <2>4, <3>1, <3>2, PicksAppend
    <3>5. TakenUpTo(n)'
      BY <1>2, <2>2, <3>3, <3>4 DEF TakenUpTo, FromSender
    <3> QED
      BY <1>2, <2>1, <3>5
  <2>6. CASE Announcements[next].sender # sender_id
    <3>1. FromSender(n, next) = FromSender(n, announced)
      BY <1>2, <2>1, <2>6 DEF FromSender
    <3>2. Waiting' = queue
      BY <1>2, <2>6 DEF Waiting
    <3>3. TakenUpTo(n)'
      BY <1>2, <2>2, <2>3, <3>1, <3>2 DEF TakenUpTo, FromSender
    <3> QED
      BY <1>2, <2>1, <3>3
  <2> QED
    BY <2>5, <2>6
<1> QED
  BY <1>3, <1>4 DEF AnnouncedInv

\* What gossip drops is none of what main is to take, nor of what waits.
LEMMA MonitorLaggedAnnounced ==
  ASSUME AnnouncedInv, MonitorTypes', monitor_lagged
  PROVE  AnnouncedInv'
<1>1. /\ announced' = announced + 1 /\ missed' = missed \cup {announced + 1}
      /\ announced \in Nat
      /\ UNCHANGED <<media, queue, monitor, tried, current, main>>
  BY AnnouncementTypes DEF monitor_lagged, AnnouncedInv, MonitorTypes
<1>2. \A n \in 0..announced : Wanted(n)' = Wanted(n)
  BY <1>1 DEF Wanted
<1>3. \A n \in 0..announced : FromSender(n, announced)' = FromSender(n, announced)
  BY <1>1 DEF FromSender
<1>4. Taken' = Taken /\ Waiting' = Waiting /\ 0..announced \subseteq 0..announced'
  BY <1>1 DEF Taken, Waiting
<1>5. \A n \in 0..announced : TakenUpTo(n) => TakenUpTo(n)'
  BY <1>2, <1>3, <1>4 DEF TakenUpTo
<1>6. AnnouncementsInOrder'
  BY <1>1, <1>2, <1>4 DEF AnnouncedInv, AnnouncementsInOrder
<1> QED
  BY <1>1, <1>4, <1>5, <1>6 DEF AnnouncedInv

\* Main takes the announcement at place p; between n and p there is none of
\* its sender.
LEMMA SelectAnnounced ==
  ASSUME AnnouncedInv, MonitorTypes', select_announcement
  PROVE  AnnouncedInv'
<1> USE DEF select_announcement, gossipVars
<1>1. \A n : Wanted(n)' = Wanted(n)
  BY DEF Wanted
<1>2. AnnouncementsInOrder'
  BY <1>1 DEF AnnouncedInv, AnnouncementsInOrder
<1> DEFINE a == Head(queue)
<1>3. PICK n \in 0..announced : TakenUpTo(n)
  BY DEF AnnouncedInv
<1>4. /\ announced \in Nat /\ announced <= Len(Announcements) /\ n \in Nat /\ n <= announced
      /\ queue \in Seq(Range(Announcements)) /\ monitor \in Seq(Range(Announcements))
      /\ queue # <<>> /\ a \in Range(Announcements) /\ tried \in Seq(Nat)
  BY AnnouncementTypes DEF AnnouncedInv, MonitorTypes
<1>5. /\ Waiting \in Seq(Range(Announcements)) /\ Waiting # <<>>
      /\ Head(Waiting) = a /\ Tail(Waiting) = Tail(queue) \o monitor
  BY <1>4 DEF Waiting
<1>6. Waiting' = Tail(Waiting)
  BY <1>5 DEF Waiting
<1>7. FromSender(n, announced) \in SUBSET Nat
  BY <1>4 DEF FromSender
<1>8. PICK p \in FromSender(n, announced) :
        /\ Head(Waiting) = Announcements[p]
        /\ \A q \in FromSender(n, announced) : p <= q
        /\ Picks(Tail(Waiting), Announcements, FromSender(n, announced) \ {p})
  BY <1>3, <1>5, <1>7, PicksTail DEF TakenUpTo
<1>9. /\ p \in (n + 1)..announced /\ Announcements[p].sender = sender_id
      /\ p \notin missed /\ a = Announcements[p]
  BY <1>5, <1>8 DEF FromSender
<1>10. FromSender(p, announced) = FromSender(n, announced) \ {p}
  <2>1. ASSUME NEW q \in FromSender(p, announced) PROVE q \in FromSender(n, announced) \ {p}
    BY <1>4, <1>9 DEF FromSender
  <2>2. ASSUME NEW q \in FromSender(n, announced), q # p PROVE q \in FromSender(p, announced)
    <3>1. /\ p <= q /\ q \in (n + 1)..announced /\ Announcements[q].sender = sender_id
          /\ q \notin missed
      BY <1>8, <2>2 DEF FromSender
    <3>2. q \in (p + 1)..announced
      BY <1>4, <1>9, <2>2, <3>1
    <3> QED
      BY <3>1, <3>2 DEF FromSender
  <2> QED
    BY <2>1, <2>2
<1>11. Picks(Waiting', Announcements, FromSender(p, announced)')
  BY <1>6, <1>8, <1>10 DEF FromSender
<1>12. Picks(tried, Streams, Wanted(n))
  BY <1>3 DEF TakenUpTo, Taken
<1>13. p \in 1..Len(Announcements) /\ p \in Nat /\ p \in 0..announced'
  BY <1>4, <1>9
<1>14. \A q \in (n + 1)..(p - 1) : Announcements[q].sender # sender_id \/ q \in missed
  <2>1. SUFFICES ASSUME NEW q \in (n + 1)..(p - 1), Announcements[q].sender = sender_id,
                        q \notin missed
                 PROVE  FALSE
    OBVIOUS
  <2>2. q \in FromSender(n, announced) /\ ~(p <= q)
    BY <1>4, <1>9, <2>1 DEF FromSender
  <2> QED
    BY <2>2, <1>8
<1>15. CASE media = "audio" /\ ~a.audio
  <2>1. Wanted(p) = Wanted(n)
    BY <1>4, <1>9, <1>14, <1>15 DEF Wanted
  <2>2. Taken' = tried
    BY <1>15 DEF Taken
  <2>3. TakenUpTo(p)'
    BY <1>1, <1>11, <1>12, <2>1, <2>2 DEF TakenUpTo
  <2> QED
    BY <1>2, <1>13, <2>3 DEF AnnouncedInv
<1>16. CASE ~(media = "audio" /\ ~a.audio)
  <2>1. a.audio \in BOOLEAN
    BY <1>4, AnnouncementTypes
  <2>2. Wanted(p) = Wanted(n) \cup {p}
    BY <1>4, <1>9, <1>14, <1>16 DEF Wanted
  <2>3. Taken' = Append(tried, a.stream)
    BY <1>16 DEF Taken
  <2>4. a.stream \in Nat /\ a.stream = Streams[p]
    BY <1>4, <1>9, <1>13, AnnouncementTypes
  <2>5. Wanted(n) \in SUBSET Nat /\ \A q \in Wanted(n) : q < p
    BY <1>4, <1>9, <1>13 DEF Wanted
  <2>6. Picks(Append(tried, a.stream), Streams, Wanted(n) \cup {p})
    BY <1>4, <1>12, <1>13, <2>4, <2>5, PicksAppend
  <2>7. TakenUpTo(p)'
    BY <1>1, <1>11, <2>2, <2>3, <2>6 DEF TakenUpTo
  <2> QED
    BY <1>2, <1>13, <2>7 DEF AnnouncedInv
<1> QED
  BY <1>15, <1>16

LEMMA PlayerNextAnnounced == AnnouncedInv /\ [PlayerNext]_playerVars => AnnouncedInv'
<1> SUFFICES ASSUME AnnouncedInv, [PlayerNext]_playerVars PROVE AnnouncedInv'
  OBVIOUS
<1>0. MonitorTypes'
  BY PlayerNextMonitorTypes DEF AnnouncedInv
<1> USE DEF gossipVars
<1>1. CASE monitor_next
  BY <1>0, <1>1, MonitorNextAnnounced
<1>2. CASE monitor_send
  <2>1. Waiting' = Waiting /\ Taken' = Taken /\ \A n : Wanted(n)' = Wanted(n)
    BY <1>2, <1>0 DEF monitor_send, Waiting, Taken, Wanted, AnnouncedInv, MonitorTypes
  <2>2. UNCHANGED <<announced, missed, tried, main>>
    BY <1>2 DEF monitor_send
  <2>3. \A n : TakenUpTo(n) => TakenUpTo(n)'
    BY <2>1, <2>2 DEF TakenUpTo, FromSender
  <2>4. AnnouncementsInOrder'
    BY <2>1, <2>2 DEF AnnouncedInv, AnnouncementsInOrder
  <2> QED
    BY <1>0, <2>2, <2>3, <2>4 DEF AnnouncedInv
<1>3. CASE select_announcement
  BY <1>0, <1>3, SelectAnnounced
<1>4. CASE subscribe
  <2>1. \A n : Wanted(n)' = Wanted(n)
    BY <1>4 DEF subscribe, Wanted
  <2>2. /\ Waiting' = Waiting /\ Taken' = Taken /\ tried' = Taken /\ announced' = announced
        /\ missed' = missed /\ main # "exited"
    BY <1>4 DEF subscribe, Waiting, Taken
  <2>3. \A n : TakenUpTo(n) => TakenUpTo(n)' /\ Picks(tried, Streams, Wanted(n))'
    BY <2>1, <2>2 DEF TakenUpTo, FromSender
  <2>4. PICK n \in 0..announced : TakenUpTo(n)
    BY <2>2 DEF AnnouncedInv
  <2> QED
    BY <1>0, <2>2, <2>3, <2>4 DEF AnnouncedInv, AnnouncementsInOrder
<1>5. CASE monitor_lagged
  BY <1>0, <1>5, MonitorLaggedAnnounced
<1>6. CASE \/ monitor_ends \/ select_shutdown \/ announcements_closed \/ audio_init
           \/ give_up \/ inner_shutdown \/ init_recv \/ video_chunk \/ audio_chunk
           \/ chunk_end \/ press \/ send_shutdown \/ force_exit \/ UNCHANGED playerVars
  <2>1. UNCHANGED <<media, announced, missed, queue, monitor, tried, current>>
    BY <1>6 DEF monitor_ends, select_shutdown, announcements_closed, audio_init, give_up,
         inner_shutdown, init_recv, video_chunk, audio_chunk, chunk_end, press, send_shutdown,
         force_exit, playerVars
  <2>2. \/ main' = main \/ main' = "exited"
        \/ main \notin {"exited", "subscribing"} /\ main' # "subscribing"
    BY <1>6 DEF monitor_ends, select_shutdown, announcements_closed, audio_init, give_up,
         inner_shutdown, init_recv, video_chunk, audio_chunk, chunk_end, press, send_shutdown,
         force_exit, playerVars, StartOrRetry
  <2> QED
    BY <1>0, <2>1, <2>2, AnnouncedFrame
<1> QED
  BY <1>1, <1>2, <1>3, <1>4, <1>5, <1>6
     DEF PlayerNext, Monitor, MainAlone, StreamAnswers, Handler

\* The streams main has subscribed to are those its publisher announced, up to
\* some announcement, in order and without a gap, however long announcements
\* wait for a stream that is played (client.rs:97-115).
THEOREM AnnouncementsAlwaysInOrder == PlayerSpec => []AnnouncementsInOrder
<1>1. AnnouncedInv => AnnouncementsInOrder
  BY DEF AnnouncedInv
<1> QED
  BY <1>1, PlayerInitAnnounced, PlayerNextAnnounced, PTL DEF PlayerSpec

-----------------------------------------------------------------------------
(* The recording is kept.                                                  *)

\* What a flush leaves in the buffer follows what is on disk.
LEMMA FlushKeeps ==
  ASSUME NEW S, NEW file \in Seq(S), NEW pending \in Seq(S), NEW n \in 0..Len(pending)
  PROVE  /\ file \o SubSeq(pending, 1, n) \in Seq(S)
         /\ SubSeq(pending, n + 1, Len(pending)) \in Seq(S)
         /\ (file \o SubSeq(pending, 1, n)) \o SubSeq(pending, n + 1, Len(pending))
              = file \o pending
<1> DEFINE first == SubSeq(pending, 1, n)
           rest == SubSeq(pending, n + 1, Len(pending))
<1>1. first \in Seq(S) /\ rest \in Seq(S)
  BY SubSeqProperties
<1>2. first \o rest = pending
  <2>1. Len(pending) \in Nat
    BY LenProperties
  <2>2. 1 \in 1..Len(pending) + 1 /\ n \in (1 - 1)..Len(pending) /\ Len(pending) \in n..Len(pending)
    BY <2>1
  <2>3. first \o rest = SubSeq(pending, 1, Len(pending))
    BY <2>2, ConcatAdjacentSubSeq
  <2> QED
    BY <2>3, SubSeqFull
<1> HIDE DEF first, rest
<1>3. (file \o first) \o rest = file \o (first \o rest)
  <2>1. \A t, u \in Seq(S) : (file \o t) \o u = file \o (t \o u)
    BY ConcatAssociative, SMTT(30)
  <2> QED
    BY <1>1, <2>1, Zenon
<1>4. /\ file \o first \in Seq(S) /\ rest \in Seq(S)
      /\ (file \o first) \o rest = file \o pending
  BY <1>1, <1>2, <1>3
<1> QED
  BY <1>4 DEF first, rest

\* A chunk goes after what was recorded, wherever it is flushed.
LEMMA ChunkAdded ==
  ASSUME RecordingTypes, recording = "open", NEW item \in Items,
         item[1] \in {"key", "delta", "tiny"}, add_chunk_streaming(item)
  PROVE  /\ disk' \in Seq(Items) /\ buffered' \in Seq(Items)
         /\ disk' \o buffered' = IF item[1] = "tiny" THEN disk \o buffered
                                 ELSE Append(disk \o buffered, item)
<1> USE DEF RecordingTypes
<1>1. CASE item[1] = "tiny"
  BY <1>1 DEF add_chunk_streaming
<1>2. CASE item[1] # "tiny"
  <2> DEFINE pending == Append(buffered, item)
  <2>1. pending \in Seq(Items) /\ Len(pending) = Len(buffered) + 1 /\ Len(buffered) \in Nat
    BY AppendProperties
  <2>2. PICK n \in {0, Len(buffered), Len(pending)} :
          /\ disk' = disk \o SubSeq(pending, 1, n)
          /\ buffered' = SubSeq(pending, n + 1, Len(pending))
    BY <1>2 DEF add_chunk_streaming
  <2>3. n \in 0..Len(pending)
    BY <2>1, <2>2
  <2> HIDE DEF pending
  <2>4. disk' \in Seq(Items) /\ buffered' \in Seq(Items) /\ disk' \o buffered' = disk \o pending
    <3>1. disk \in Seq(Items)
      OBVIOUS
    <3>2. \A file \in Seq(Items), s \in Seq(Items) : \A k \in 0..Len(s) :
            /\ file \o SubSeq(s, 1, k) \in Seq(Items)
            /\ SubSeq(s, k + 1, Len(s)) \in Seq(Items)
            /\ (file \o SubSeq(s, 1, k)) \o SubSeq(s, k + 1, Len(s)) = file \o s
      BY FlushKeeps
    <3>3. /\ disk \o SubSeq(pending, 1, n) \in Seq(Items)
          /\ SubSeq(pending, n + 1, Len(pending)) \in Seq(Items)
          /\ (disk \o SubSeq(pending, 1, n)) \o SubSeq(pending, n + 1, Len(pending))
               = disk \o pending
      BY <2>1, <2>3, <3>1, <3>2, Zenon
    <3> QED
      BY <2>2, <3>3, Zenon
  <2>5. pending = buffered \o <<item>>
    BY AppendIsConcat DEF pending
  <2>6. disk \o pending = (disk \o buffered) \o <<item>>
    BY <2>5, ConcatAssociative
  <2>7. disk \o pending = Append(disk \o buffered, item)
    BY <2>6, AppendIsConcat, ConcatProperties
  <2> QED
    BY <1>2, <2>4, <2>7
<1> QED
  BY <1>1, <1>2

LEMMA StopTypes ==
  ASSUME RecordingTypes, stop
  PROVE  /\ disk' \in Seq(Items) /\ buffered' = <<>> /\ disk' = disk \o buffered
         /\ saver_init' = saver_init /\ recording' # "open"
         /\ recording = "none" => recording' = "none"
         /\ recording' = "closed" => recording \in {"open", "closed"}
BY DEF RecordingTypes, stop

LEMMA StartTypes ==
  ASSUME NEW init, init \in Nat, start_streaming(init)
  PROVE  /\ disk' \in Seq(Items) /\ buffered' = <<>> /\ saver_init' \in Nat
         /\ recording' = "open"
         /\ restarted' = (restarted \/ ctrl_c # "waiting")
         /\ init # NoStream => disk' = <<<<"init", init>>>>
<1>1. <<"init", init>> \in Items
  BY DEF Items
<1> QED
  BY <1>1 DEF start_streaming

LEMMA PlayerInitRecording == PlayerInit => RecordingInv
<1> SUFFICES ASSUME PlayerInit PROVE RecordingInv
  OBVIOUS
<1>1. MonitorTypes
  BY PlayerInitAnnounced DEF AnnouncedInv
<1>2. RecordingTypes
  BY DEF PlayerInit, RecordingTypes, NoStream
<1> QED
  BY <1>1, <1>2 DEF PlayerInit, RecordingInv, OpenWhilePlaying, FileInv, HasInit

\* Steps that touch neither the file nor what was received.
Elsewhere ==
    \/ monitor_next \/ monitor_send \/ monitor_lagged \/ monitor_ends \/ select_announcement
    \/ give_up \/ press \/ send_shutdown \/ force_exit \/ UNCHANGED playerVars

\* Steps that stop the recording.
Stops ==
    select_shutdown \/ announcements_closed \/ inner_shutdown \/ chunk_end

LEMMA PlayerSteps ==
  [PlayerNext]_playerVars =>
    \/ Elsewhere \/ Stops
    \/ subscribe \/ audio_init \/ init_recv \/ video_chunk \/ audio_chunk
BY DEF PlayerNext, Monitor, MainAlone, StreamAnswers, Handler, Elsewhere, Stops

LEMMA ElsewhereUnchanged ==
  Elsewhere => UNCHANGED <<media, received, saver_init, recording, disk, buffered, restarted>>
BY DEF Elsewhere, monitor_next, monitor_send, monitor_lagged, monitor_ends,
       select_announcement, give_up, press,
       send_shutdown, force_exit, playerVars, fileVars

LEMMA StopsStop ==
  Stops => stop /\ UNCHANGED <<media, received>>
BY DEF Stops, select_shutdown, announcements_closed, inner_shutdown, chunk_end

\* What init_recv leaves: a saver that has just started, or no file.
LEMMA InitReceived ==
  ASSUME RecordingInv, init_recv
  PROVE  /\ \/ /\ disk' \in Seq(Items) /\ buffered' = <<>> /\ recording' = "open"
               /\ restarted' = (restarted \/ ctrl_c # "waiting") /\ main' = "playing"
            \/ /\ disk' = <<>> /\ buffered' = <<>> /\ recording' = "none"
               /\ restarted' = restarted /\ main' = "giving_up"
         /\ saver_init' \in Nat
         /\ \/ received' = <<>>
            \/ /\ received' = <<<<"init", current>>>> /\ current # NoStream
               /\ recording' = "open" => disk' = <<<<"init", current>>>>
            \/ received' = <<<<"init", current>>>> /\ current = NoStream
         /\ UNCHANGED <<media, shutdown, ctrl_c>>
<1>1. current \in Nat /\ saver_init \in Nat /\ NoStream \in Nat
  BY DEF RecordingInv, MonitorTypes, RecordingTypes, NoStream
<1>2. ASSUME NEW first \in Nat, NEW second \in Nat, StartOrRetry(first, second)
      PROVE  /\ \/ /\ disk' \in Seq(Items) /\ buffered' = <<>> /\ recording' = "open"
                   /\ restarted' = (restarted \/ ctrl_c # "waiting") /\ main' = "playing"
                   /\ \/ first # NoStream /\ disk' = <<<<"init", first>>>>
                      \/ second # NoStream /\ disk' = <<<<"init", second>>>>
                      \/ first = NoStream \/ second = NoStream
                \/ /\ disk' = <<>> /\ buffered' = <<>> /\ recording' = "none"
                   /\ restarted' = restarted /\ main' = "giving_up"
             /\ saver_init' \in Nat
  <2>1. CASE start_streaming(first) /\ main' = "playing"
    BY <2>1, StartTypes
  <2>2. CASE start_streaming(second) /\ main' = "playing"
    BY <2>2, StartTypes
  <2>3. CASE /\ main' = "giving_up"
             /\ recording' = "none" /\ disk' = <<>> /\ buffered' = <<>> /\ saver_init' = second
             /\ UNCHANGED restarted
    BY <2>3
  <2> QED
    BY <1>2, <2>1, <2>2, <2>3 DEF StartOrRetry
<1>3. UNCHANGED <<media, shutdown, ctrl_c>>
  BY DEF init_recv, signalVars
<1>4. CASE received' = <<<<"init", current>>>> /\ StartOrRetry(current, current)
  BY <1>1, <1>2, <1>3, <1>4
<1>5. CASE received' = <<>> /\ StartOrRetry(saver_init, NoStream)
  BY <1>1, <1>2, <1>3, <1>5
<1> QED
  BY <1>4, <1>5 DEF init_recv

LEMMA RecordingTypesNext == RecordingInv /\ [PlayerNext]_playerVars => RecordingTypes'
<1> SUFFICES ASSUME RecordingInv, [PlayerNext]_playerVars PROVE RecordingTypes'
  OBVIOUS
<1>0. RecordingTypes /\ current \in Nat
  BY DEF RecordingInv, MonitorTypes
<1>i. <<<<"init", current>>>> \in Seq(Items) /\ <<>> \in Seq(Items)
  <2>1. <<"init", current>> \in Items
    BY <1>0 DEF Items
  <2>2. \A x \in Items : <<x>> \in Seq(Items)
    OBVIOUS
  <2> QED
    BY <2>1, <2>2
<1>1. CASE Elsewhere
  <2>1. shutdown' \in Nat
    BY <1>0, <1>1 DEF Elsewhere, monitor_next, monitor_send, monitor_lagged, monitor_ends,
       select_announcement,
         give_up, press, send_shutdown, force_exit, playerVars, signalVars, RecordingTypes
  <2> QED
    BY <1>0, <1>1, <2>1, ElsewhereUnchanged DEF RecordingTypes
<1>2. CASE Stops
  <2>1. shutdown' \in Nat
    BY <1>0, <1>2 DEF Stops, select_shutdown, announcements_closed, inner_shutdown, chunk_end,
         signalVars, RecordingTypes
  <2>2. disk' \in Seq(Items) /\ buffered' \in Seq(Items) /\ saver_init' = saver_init
    BY <1>0, <1>2, StopsStop, StopTypes
  <2> QED
    BY <1>0, <1>2, <2>1, <2>2, StopsStop DEF RecordingTypes
<1>3. CASE subscribe
  BY <1>0, <1>3 DEF subscribe, fileVars, signalVars, RecordingTypes
<1>4. CASE audio_init
  <2>1. received' \in Seq(Items)
    BY <1>i, <1>4 DEF audio_init
  <2> QED
    BY <1>0, <1>4, <2>1 DEF audio_init, fileVars, signalVars, RecordingTypes
<1>5. CASE init_recv
  <2>1. received' \in Seq(Items)
    BY <1>i, <1>5, InitReceived
  <2>2. disk' \in Seq(Items) /\ buffered' \in Seq(Items)
    BY <1>i, <1>5, InitReceived
  <2>3. saver_init' \in Nat /\ UNCHANGED <<media, shutdown>>
    BY <1>5, InitReceived
  <2> QED
    BY <1>0, <2>1, <2>2, <2>3 DEF RecordingTypes
<1>6. CASE video_chunk
  <2>1. recording = "open"
    BY <1>6 DEF video_chunk, RecordingInv, OpenWhilePlaying
  <2>2. PICK kind \in {"key", "delta", "tiny"} :
          /\ received' = Append(received, <<kind, current>>)
          /\ add_chunk_streaming(<<kind, current>>)
    BY <1>6 DEF video_chunk
  <2>3. <<kind, current>> \in Items /\ <<kind, current>>[1] = kind
    BY <1>0 DEF Items
  <2>4. disk' \in Seq(Items) /\ buffered' \in Seq(Items)
    BY <1>0, <2>1, <2>2, <2>3, ChunkAdded
  <2>5. received' \in Seq(Items) /\ saver_init' = saver_init
    BY <1>0, <2>2, <2>3 DEF RecordingTypes, add_chunk_streaming
  <2> QED
    BY <1>0, <1>6, <2>4, <2>5 DEF RecordingTypes, video_chunk, signalVars
<1>7. CASE audio_chunk
  <2>1. <<"key", current>> \in Items
    BY <1>0 DEF Items
  <2> QED
    BY <1>0, <1>7, <2>1 DEF audio_chunk, fileVars, RecordingTypes
<1> QED
  BY <1>1, <1>2, <1>3, <1>4, <1>5, <1>6, <1>7, PlayerSteps

LEMMA OpenWhilePlayingNext == RecordingInv /\ [PlayerNext]_playerVars => OpenWhilePlaying'
<1> SUFFICES ASSUME RecordingInv, [PlayerNext]_playerVars PROVE OpenWhilePlaying'
  OBVIOUS
<1>0. RecordingTypes /\ OpenWhilePlaying
  BY DEF RecordingInv
<1>1. CASE Elsewhere
  <2>1. UNCHANGED <<media, recording, restarted>>
    BY <1>1, ElsewhereUnchanged
  <2>2. CASE monitor_next \/ monitor_send \/ monitor_lagged \/ monitor_ends \/ UNCHANGED playerVars
    <3>1. UNCHANGED <<main, ctrl_c, shutdown>>
      BY <2>2 DEF monitor_next, monitor_send, monitor_lagged, monitor_ends, playerVars, signalVars
    <3> QED
      BY <1>0, <2>1, <3>1 DEF OpenWhilePlaying
  <2>3. CASE select_announcement \/ give_up
    <3>1. recording # "open" /\ main' # "playing"
      BY <1>0, <2>3 DEF select_announcement, give_up, OpenWhilePlaying
    <3> QED
      BY <1>0, <2>1, <3>1 DEF OpenWhilePlaying
  <2>4. CASE press \/ send_shutdown
    <3>1. main' = main /\ main # "exited" /\ (ctrl_c' = "sleeping" => shutdown' # 0)
      BY <2>4 DEF press, send_shutdown
    <3> QED
      BY <1>0, <2>1, <3>1 DEF OpenWhilePlaying
  <2>5. CASE force_exit
    <3>1. recording = "open" => main = "playing" /\ shutdown = 0 /\ ctrl_c = "sleeping"
      BY <1>0, <2>5 DEF force_exit, OpenWhilePlaying, RecordingTypes
    <3>2. recording = "open" => restarted
      BY <1>0, <3>1 DEF OpenWhilePlaying
    <3>3. main' = "exited"
      BY <2>5 DEF force_exit
    <3> QED
      BY <1>0, <2>1, <3>2, <3>3 DEF OpenWhilePlaying
  <2> QED
    BY <1>1, <2>2, <2>3, <2>4, <2>5 DEF Elsewhere
<1>2. CASE Stops
  <2>1. main' # "playing"
    BY <1>2 DEF Stops, select_shutdown, announcements_closed, inner_shutdown, chunk_end
  <2>2. recording' # "open" /\ (recording = "none" => recording' = "none") /\ media' = media
    BY <1>0, <1>2, StopsStop, StopTypes
  <2> QED
    BY <1>0, <2>1, <2>2 DEF OpenWhilePlaying
<1>3. CASE subscribe
  <2>1. recording # "open" /\ main' # "playing" /\ UNCHANGED <<media, recording>>
    BY <1>0, <1>3 DEF subscribe, fileVars, OpenWhilePlaying
  <2> QED
    BY <1>0, <2>1 DEF OpenWhilePlaying
<1>4. CASE audio_init
  <2>1. media' = "audio" /\ recording' = "none"
    BY <1>0, <1>4 DEF audio_init, fileVars, OpenWhilePlaying
  <2> QED
    BY <2>1 DEF OpenWhilePlaying
<1>5. CASE init_recv
  <2>1. media = "video" /\ media' = media /\ ctrl_c' = ctrl_c
    BY <1>5, InitReceived DEF init_recv
  <2>2. \/ /\ recording' = "open" /\ main' = "playing"
           /\ restarted' = (restarted \/ ctrl_c # "waiting")
        \/ recording' = "none" /\ main' = "giving_up"
    BY <1>5, InitReceived
  <2> QED
    BY <2>1, <2>2 DEF OpenWhilePlaying
<1>6. CASE video_chunk
  <2>1. UNCHANGED <<media, main, ctrl_c, shutdown, recording, restarted>>
    BY <1>6 DEF video_chunk, add_chunk_streaming, signalVars
  <2> QED
    BY <1>0, <2>1 DEF OpenWhilePlaying
<1>7. CASE audio_chunk
  <2>1. media' = "audio" /\ recording' = "none"
    BY <1>0, <1>7 DEF audio_chunk, fileVars, OpenWhilePlaying
  <2> QED
    BY <2>1 DEF OpenWhilePlaying
<1> QED
  BY <1>1, <1>2, <1>3, <1>4, <1>5, <1>6, <1>7, PlayerSteps

\* The file after one item: nothing, or an init segment that came first.
LEMMA RecordedFirst ==
  ASSUME received' = <<<<"init", current>>>>, current \in Nat,
         disk' = <<<<"init", current>>>>, buffered' = <<>>
  PROVE  Recorded(disk \o buffered)'
<1> DEFINE item == <<"init", current>>
           one == <<item>>
<1>1. item \in Items
  BY DEF Items
<1>2. Picks(<<>>, one, {})
  BY PicksNothing
<1>3. Append(<<>>, item) = one /\ <<>> \in Seq(Items) /\ one[1] = item /\ item[1] = "init"
  BY <1>1
<1>4. Picks(one, one, {} \cup {1})
  <2> HIDE DEF one, item
  <2>1. Picks(Append(<<>>, item), one, {} \cup {1})
    BY <1>1, <1>2, <1>3, PicksAppend
  <2> QED
    BY <1>3, <2>1
<1>5. {i \in 1..Len(received') : received'[i][1] # "tiny"} = {} \cup {1}
  BY <1>3
<1>6. disk' \o buffered' = one
  BY <1>1
<1> HIDE DEF one
<1>7. received' = one
  BY DEF one
<1>8. Picks(disk' \o buffered', received', {i \in 1..Len(received') : received'[i][1] # "tiny"})
  BY <1>4, <1>5, <1>6, <1>7
<1> QED
  BY <1>8 DEF Recorded

\* A chunk that is received and added to what was recorded.
LEMMA RecordedChunk ==
  ASSUME received \in Seq(Items), disk \in Seq(Items), buffered \in Seq(Items),
         Recorded(disk \o buffered),
         NEW item \in Items, received' = Append(received, item),
         disk' \o buffered' = IF item[1] = "tiny" THEN disk \o buffered
                              ELSE Append(disk \o buffered, item)
  PROVE  Recorded(disk \o buffered)'
<1> DEFINE n == Len(received)
           more == Append(received, item)
           places == {i \in 1..n : received[i][1] # "tiny"}
           file == disk \o buffered
<1>1. /\ n \in Nat /\ Len(more) = n + 1 /\ more[n + 1] = item
      /\ \A i \in 1..n : more[i] = received[i]
  BY AppendProperties
<1>2. file \in Seq(Items)
  BY ConcatProperties
<1>3. Picks(file, received, places)
  BY DEF Recorded
<1>4. places \in SUBSET Nat /\ \A p \in places : p < n + 1 /\ more[p] = received[p]
  BY <1>1
<1> HIDE DEF file
<1>5. Picks(file, more, places)
  BY <1>3, <1>4, PicksSame
<1>6. CASE item[1] = "tiny"
  <2>1. {i \in 1..Len(more) : more[i][1] # "tiny"} = places
    BY <1>1, <1>6
  <2>2. disk' \o buffered' = file
    BY <1>6 DEF file
  <2>3. Picks(disk' \o buffered', received', {i \in 1..Len(received') : received'[i][1] # "tiny"})
    BY <1>5, <2>1, <2>2
  <2> QED
    BY <2>3 DEF Recorded
<1>7. CASE item[1] # "tiny"
  <2>1. {i \in 1..Len(more) : more[i][1] # "tiny"} = places \cup {n + 1}
    BY <1>1, <1>7
  <2>2. disk' \o buffered' = Append(file, item)
    BY <1>7 DEF file
  <2>3. n + 1 \in Nat /\ item = more[n + 1]
    BY <1>1
  <2> HIDE DEF more, n, places
  <2>4. Picks(Append(file, item), more, places \cup {n + 1})
    BY <1>2, <1>4, <1>5, <2>3, PicksAppend
  <2>5. received' = more
    BY DEF more
  <2>6. Picks(disk' \o buffered', received', {i \in 1..Len(received') : received'[i][1] # "tiny"})
    BY <2>1, <2>2, <2>4, <2>5
  <2> QED
    BY <2>6 DEF Recorded
<1> QED
  BY <1>6, <1>7

LEMMA FileNext == RecordingInv /\ [PlayerNext]_playerVars => FileInv'
<1> SUFFICES ASSUME RecordingInv, [PlayerNext]_playerVars PROVE FileInv'
  OBVIOUS
<1>0. RecordingTypes /\ OpenWhilePlaying /\ FileInv /\ current \in Nat
  BY DEF RecordingInv, MonitorTypes
<1>1. CASE Elsewhere
  <2>1. UNCHANGED <<received, recording, disk, buffered>>
    BY <1>1, ElsewhereUnchanged
  <2> QED
    BY <1>0, <2>1 DEF FileInv, HasInit, Recorded
<1>2. CASE Stops
  <2>1. stop /\ received' = received
    BY <1>2, StopsStop
  <2>2. ASSUME HasInit', recording' = "closed" PROVE Recorded(disk)'
    <3>1. HasInit
      BY <2>1, <2>2 DEF HasInit
    <3>2. CASE recording = "open"
      <4>1. Recorded(disk \o buffered) /\ disk' = disk \o buffered
        BY <1>0, <2>1, <3>1, <3>2, StopTypes DEF FileInv
      <4> QED
        BY <2>1, <4>1 DEF Recorded
    <3>3. CASE recording = "closed"
      <4>1. Recorded(disk)
        BY <1>0, <3>1, <3>3 DEF FileInv
      <4>2. disk' = disk
        BY <1>0, <2>1, <3>3 DEF stop, FileInv, RecordingTypes
      <4> QED
        BY <2>1, <4>1, <4>2 DEF Recorded
    <3> QED
      BY <1>0, <2>1, <2>2, <3>2, <3>3, StopTypes
  <2>3. recording' # "open" /\ buffered' = <<>>
    BY <1>0, <2>1, StopTypes
  <2> QED
    BY <2>2, <2>3 DEF FileInv
<1>3. CASE subscribe
  BY <1>0, <1>3 DEF subscribe, fileVars, FileInv, HasInit
<1>4. CASE audio_init
  <2>1. recording' = "none"
    BY <1>0, <1>4 DEF audio_init, fileVars, OpenWhilePlaying
  <2> QED
    BY <2>1 DEF FileInv
<1>5. CASE init_recv
  <2>1. recording' # "closed" /\ buffered' = <<>>
    BY <1>5, InitReceived
  <2>2. ASSUME HasInit', recording' = "open" PROVE Recorded(disk \o buffered)'
    <3>1. received' = <<<<"init", current>>>>
      BY <1>5, <2>2, InitReceived DEF HasInit
    <3>2. current # NoStream
      BY <1>5 DEF RecordingInv, MonitorTypes, init_recv
    <3>3. disk' = <<<<"init", current>>>>
      BY <1>5, <2>2, <3>1, <3>2, InitReceived
    <3> QED
      BY <1>0, <2>1, <3>1, <3>3, RecordedFirst
  <2> QED
    BY <2>1, <2>2 DEF FileInv
<1>6. CASE video_chunk
  <2>1. recording = "open" /\ recording' = "open"
    BY <1>0, <1>6 DEF video_chunk, OpenWhilePlaying, add_chunk_streaming
  <2>2. PICK kind \in {"key", "delta", "tiny"} :
          /\ received' = Append(received, <<kind, current>>)
          /\ add_chunk_streaming(<<kind, current>>)
    BY <1>6 DEF video_chunk
  <2> DEFINE item == <<kind, current>>
  <2>3. item \in Items /\ item[1] = kind
    BY <1>0 DEF Items
  <2>4. received \in Seq(Items) /\ disk \in Seq(Items) /\ buffered \in Seq(Items)
    BY <1>0 DEF RecordingTypes
  <2>5. ASSUME HasInit' PROVE Recorded(disk \o buffered)'
    <3>1. HasInit
      <4>1. CASE received = <<>>
        <5>1. received' = <<item>>
          BY <2>2, <4>1
        <5> QED
          BY <2>3, <2>5, <5>1 DEF HasInit
      <4>2. CASE received # <<>>
        <5>1. received'[1] = received[1]
          BY <2>2, <2>3, <2>4, <4>2
        <5> QED
          BY <2>5, <4>2, <5>1 DEF HasInit
      <4> QED
        BY <4>1, <4>2
    <3>2. Recorded(disk \o buffered)
      BY <1>0, <2>1, <3>1 DEF FileInv
    <3>3. disk' \o buffered' = IF item[1] = "tiny" THEN disk \o buffered
                               ELSE Append(disk \o buffered, item)
      BY <1>0, <2>1, <2>2, <2>3, ChunkAdded
    <3> QED
      BY <2>2, <2>3, <2>4, <3>2, <3>3, RecordedChunk
  <2> QED
    BY <2>1, <2>5 DEF FileInv
<1>7. CASE audio_chunk
  <2>1. recording' = "none"
    BY <1>0, <1>7 DEF audio_chunk, fileVars, OpenWhilePlaying
  <2> QED
    BY <2>1 DEF FileInv
<1> QED
  BY <1>1, <1>2, <1>3, <1>4, <1>5, <1>6, <1>7, PlayerSteps

\* The file of the video player holds the stream that is recorded and nothing
\* of the one before; when the program ends, by whichever way, all that was
\* received is in it, unless another stream was started after Ctrl+C
\* (examples/subscriber.rs:142-247, 361-419, 551-566).
THEOREM RecordingAlwaysKept == PlayerSpec => []RecordingKept
<1>1. RecordingInv /\ [PlayerNext]_playerVars => RecordingInv'
  BY RecordingTypesNext, OpenWhilePlayingNext, FileNext, PlayerNextMonitorTypes DEF RecordingInv
<1>2. RecordingInv => RecordingKept
  BY DEF RecordingInv, OpenWhilePlaying, FileInv, HasInit, RecordingKept
<1> QED
  BY <1>1, <1>2, PlayerInitRecording, PTL DEF PlayerSpec
=============================================================================
