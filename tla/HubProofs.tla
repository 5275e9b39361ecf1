------------------------------ MODULE HubProofs ------------------------------
(* Proofs about Hub, for every value of its constants. *)
EXTENDS Hub, SequenceTheorems, TLAPS

(***************************************************************************)
(* Types.                                                                  *)
(***************************************************************************)

\* The parts of HubTypeOK.
RoomTypes ==
    /\ loop \in [Rooms -> {"none", "spawned", "running", "done"}]
    /\ cancelled \in [Rooms -> BOOLEAN]
    /\ members \in [Rooms -> SUBSET Clients]
    /\ inbox \in [Rooms -> Seq(Message)]
    /\ lastOut \in [Rooms -> Message]
WayTypes ==
    /\ fwd \in [Rooms -> [Sources -> {"none", "starting", "idle", "send", "done"}]]
    /\ held \in [Rooms -> [Sources -> Message]]
    /\ feed \in [Rooms -> [Sources -> Seq(Message)]]
ClientTypes ==
    /\ room \in [Clients -> Rooms \cup {NoRoom}]
    /\ conn \in [Clients -> {"none", "register", "open", "closed"}]
    /\ reader \in [Clients -> {"none", "reading", "leaving", "gone"}]
    /\ writer \in [Clients -> {"none", "writing", "gone"}]
    /\ initial \in [Clients -> {"none", "fetch", "send", "sent", "failed"}]
QueueTypes ==
    /\ sendQ \in [Clients -> Seq(Message)]
    /\ sendClosed \in [Clients -> BOOLEAN]
    /\ handed \in [Clients -> Message] /\ latest \in [Clients -> Message]
OtherTypes ==
    /\ hubRoom \in Rooms \cup {NoRoom} /\ timers \in Nat
    /\ published \in Message /\ pubTo \subseteq Results \X Rooms
    /\ notice \in [Notices -> {"idle", "done"} \cup Rooms]
    /\ panicked \subseteq {"init", "cleanup", "publish"}

LEMMA TypeParts ==
    HubTypeOK <=> RoomTypes /\ WayTypes /\ ClientTypes /\ QueueTypes /\ OtherTypes
BY DEF HubTypeOK, RoomTypes, WayTypes, ClientTypes, QueueTypes, OtherTypes

LEMMA NewTypeParts ==
    ASSUME RoomTypes', WayTypes', ClientTypes', QueueTypes', OtherTypes'
    PROVE  HubTypeOK'
BY DEF HubTypeOK, RoomTypes, WayTypes, ClientTypes, QueueTypes, OtherTypes

LEMMA Messages ==
    /\ 0 \in Message /\ Message \subseteq Nat
    /\ published \in Message /\ published < MaxResults => published + 1 \in Message
BY HubAssumption DEF Message

LEMMA OneOfMany ==
    ASSUME NEW S, NEW T, NEW U, NEW f \in [S -> [T -> U]], NEW x \in S, NEW y \in T, NEW v \in U
    PROVE  [f EXCEPT ![x][y] = v] \in [S -> [T -> U]]
OBVIOUS

\* A connection that is not open yet has no traces in the rooms, and one that was made
\* has a room.
Newcomers ==
    \A c \in Clients :
        /\ conn[c] \in {"none", "register"} =>
              /\ ~sendClosed[c] /\ reader[c] = "none"
              /\ \A r \in Rooms : c \notin members[r]
        /\ conn[c] # "none" => room[c] \in Rooms

LEMMA RoomOf ==
    ASSUME HubTypeOK, Newcomers, NEW c \in Clients,
           conn[c] = "register" \/ reader[c] # "none"
    PROVE  room[c] \in Rooms
BY DEF HubTypeOK, Newcomers

\* Nothing but the ways of results changes.
WayStep(r) == \/ Subscribe(r) \/ \E m \in Results : SendLocal(m, r)
              \/ \E s \in Sources : Take(r, s) \/ Put(r, s) \/ StopForwarder(r, s)

LEMMA JoinTypes ==
    ASSUME HubTypeOK, NEW c \in Clients, Join(c)
    PROVE  HubTypeOK'
<1> USE DEF Join
<1>1. RoomTypes'
  BY DEF HubTypeOK, RoomTypes
<1>2. WayTypes' /\ QueueTypes'
  BY DEF HubTypeOK, WayTypes, QueueTypes
<1>3. ClientTypes'
  BY DEF HubTypeOK, ClientTypes
<1>4. OtherTypes'
  BY DEF HubTypeOK, OtherTypes
<1> QED BY <1>1, <1>2, <1>3, <1>4, NewTypeParts

LEMMA ViewerCountTypes ==
    ASSUME QueueTypes, NEW to
    PROVE  ViewerCount(sendQ, to) \in [Clients -> Seq(Message)]
BY Messages DEF QueueTypes, ViewerCount

LEMMA RegisterTypes ==
    ASSUME HubTypeOK, Newcomers, NEW c \in Clients, Register(c)
    PROVE  HubTypeOK'
<1> USE DEF Register
<1>1. room[c] \in Rooms
  BY RoomOf
<1>2. RoomTypes'
  BY <1>1 DEF HubTypeOK, RoomTypes
<1>3. WayTypes' /\ OtherTypes'
  BY DEF HubTypeOK, WayTypes, OtherTypes, otherVars
<1>4. ClientTypes'
  BY DEF HubTypeOK, ClientTypes
<1>5. QueueTypes'
  <2>1. sendQ' \in [Clients -> Seq(Message)]
    BY ViewerCountTypes, TypeParts
  <2>2. lastOut[room[c]] \in Message
    BY <1>1 DEF HubTypeOK
  <2> QED BY <2>1, <2>2 DEF HubTypeOK, QueueTypes
<1> QED BY <1>2, <1>3, <1>4, <1>5, NewTypeParts

LEMMA InitialTypes ==
    ASSUME HubTypeOK, NEW c \in Clients, FetchInitial(c) \/ SendInitial(c)
    PROVE  HubTypeOK'
<1>1. CASE FetchInitial(c)
  BY <1>1 DEF FetchInitial, HubTypeOK, roomVars, otherVars
<1>2. CASE SendInitial(c)
  <2>1. sendQ' \in [Clients -> Seq(Message)]
    <3>1. sendQ \in [Clients -> Seq(Message)] /\ Append(sendQ[c], 0) \in Seq(Message)
      BY Messages DEF HubTypeOK
    <3>2. sendQ' = sendQ \/ sendQ' = [sendQ EXCEPT ![c] = Append(sendQ[c], 0)]
      BY <1>2 DEF SendInitial
    <3> QED BY <3>1, <3>2
  <2>2. ClientTypes' /\ OtherTypes'
    BY <1>2 DEF SendInitial, HubTypeOK, ClientTypes, OtherTypes
  <2>3. RoomTypes' /\ WayTypes' /\ QueueTypes'
    BY <1>2, <2>1 DEF SendInitial, HubTypeOK, RoomTypes, WayTypes, QueueTypes, roomVars
  <2> QED BY <2>2, <2>3, NewTypeParts
<1> QED BY <1>1, <1>2

LEMMA LoopTypes ==
    ASSUME HubTypeOK, NEW r \in Rooms, StartRoom(r) \/ StopRoom(r)
    PROVE  HubTypeOK'
<1>1. CASE StartRoom(r)
  <2> USE <1>1 DEF StartRoom
  <2>1. RoomTypes'
    BY DEF HubTypeOK, RoomTypes
  <2>2. WayTypes'
    <3>1. [redis |-> IF "redis" \in Via THEN "starting" ELSE "done", local |-> "idle"]
             \in [Sources -> {"none", "starting", "idle", "send", "done"}]
      BY DEF Sources
    <3> QED BY <3>1 DEF HubTypeOK, WayTypes
  <2>3. ClientTypes' /\ QueueTypes' /\ OtherTypes'
    BY DEF HubTypeOK, ClientTypes, QueueTypes, OtherTypes, clientVars, otherVars
  <2> QED BY <2>1, <2>2, <2>3, NewTypeParts
<1>2. CASE StopRoom(r)
  BY <1>2 DEF StopRoom, HubTypeOK, clientVars, otherVars
<1> QED BY <1>1, <1>2

LEMMA DeliverTypes ==
    ASSUME HubTypeOK, NEW r \in Rooms, Deliver(r)
    PROVE  HubTypeOK'
<1> USE DEF Deliver, HandOut
<1>1. Head(inbox[r]) \in Message /\ Tail(inbox[r]) \in Seq(Message)
  BY DEF HubTypeOK
<1>2. RoomTypes'
  BY <1>1 DEF HubTypeOK, RoomTypes
<1>3. WayTypes' /\ ClientTypes' /\ OtherTypes'
  BY DEF HubTypeOK, WayTypes, ClientTypes, OtherTypes, otherVars
<1>4. QueueTypes'
  BY <1>1 DEF HubTypeOK, QueueTypes
<1> QED BY <1>2, <1>3, <1>4, NewTypeParts

LEMMA UnregisterTypes ==
    ASSUME HubTypeOK, Newcomers, NEW c \in Clients, Unregister(c)
    PROVE  HubTypeOK'
<1> USE DEF Unregister
<1>1. room[c] \in Rooms
  BY RoomOf
<1>2. RoomTypes'
  BY <1>1 DEF HubTypeOK, RoomTypes
<1>3. WayTypes'
  BY DEF HubTypeOK, WayTypes
<1>4. ClientTypes'
  BY DEF HubTypeOK, ClientTypes
<1>5. OtherTypes'
  BY DEF HubTypeOK, OtherTypes
<1>6. QueueTypes'
  <2>1. sendQ' \in [Clients -> Seq(Message)]
    BY ViewerCountTypes, TypeParts DEF HubTypeOK
  <2> QED BY <2>1 DEF HubTypeOK, QueueTypes
<1> QED BY <1>2, <1>3, <1>4, <1>5, <1>6, NewTypeParts

LEMMA CleanupTypes ==
    ASSUME HubTypeOK, Cleanup
    PROVE  HubTypeOK'
<1> USE DEF Cleanup
<1>1. RoomTypes'
  BY DEF HubTypeOK, RoomTypes, HubRoomEmpty
<1>2. OtherTypes'
  <2>1. timers' \in Nat /\ UNCHANGED <<published, pubTo, notice>>
    BY DEF HubTypeOK
  <2>2. hubRoom' \in Rooms \cup {NoRoom} /\ panicked' \subseteq {"init", "cleanup", "publish"}
    BY DEF HubTypeOK
  <2> QED BY <2>1, <2>2 DEF HubTypeOK, OtherTypes
<1>3. WayTypes' /\ ClientTypes' /\ QueueTypes'
  BY DEF HubTypeOK, WayTypes, ClientTypes, QueueTypes, clientVars
<1> QED BY <1>1, <1>2, <1>3, NewTypeParts

LEMMA WayStepTypes ==
    ASSUME HubTypeOK, NEW r \in Rooms, WayStep(r)
    PROVE  HubTypeOK'
<1>1. CASE Subscribe(r)
  <2>1. WayTypes'
    BY <1>1 DEF Subscribe, HubTypeOK, WayTypes, Sources
  <2> QED BY <1>1, <2>1, NewTypeParts DEF Subscribe, HubTypeOK, RoomTypes, ClientTypes, QueueTypes,
             OtherTypes, clientVars, otherVars
<1>2. ASSUME NEW m \in Results, SendLocal(m, r) PROVE HubTypeOK'
  <2>1. WayTypes'
    <3>1. /\ feed \in [Rooms -> [Sources -> Seq(Message)]] /\ "local" \in Sources
          /\ Append(feed[r]["local"], m) \in Seq(Message)
      BY DEF HubTypeOK, Sources, Results, Message
    <3>2. \/ feed' = feed
          \/ feed' = [feed EXCEPT ![r]["local"] = Append(feed[r]["local"], m)]
      BY <1>2, <3>1 DEF SendLocal
    <3>3. [feed EXCEPT ![r]["local"] = Append(feed[r]["local"], m)]
             \in [Rooms -> [Sources -> Seq(Message)]]
      BY <3>1, OneOfMany
    <3>4. feed' \in [Rooms -> [Sources -> Seq(Message)]]
      BY <3>1, <3>2, <3>3, Zenon
    <3> QED BY <1>2, <3>4 DEF SendLocal, HubTypeOK, WayTypes
  <2>2. OtherTypes'
    BY <1>2 DEF SendLocal, HubTypeOK, OtherTypes
  <2> QED BY <1>2, <2>1, <2>2, NewTypeParts DEF SendLocal, HubTypeOK, RoomTypes, ClientTypes,
             QueueTypes, clientVars
<1>3. ASSUME NEW s \in Sources, Take(r, s) PROVE HubTypeOK'
  <2>1. Head(feed[r][s]) \in Message /\ Tail(feed[r][s]) \in Seq(Message)
    BY <1>3 DEF Take, HubTypeOK
  <2>2. WayTypes'
    BY <1>3, <2>1 DEF Take, HubTypeOK, WayTypes
  <2> QED BY <1>3, <2>2, NewTypeParts DEF Take, HubTypeOK, RoomTypes, ClientTypes, QueueTypes,
             OtherTypes, clientVars, otherVars
<1>4. ASSUME NEW s \in Sources, Put(r, s) PROVE HubTypeOK'
  <2>1. WayTypes'
    BY <1>4, Messages DEF Put, HubTypeOK, WayTypes
  <2>2. RoomTypes'
    BY <1>4 DEF Put, HubTypeOK, RoomTypes
  <2> QED BY <1>4, <2>1, <2>2, NewTypeParts DEF Put, HubTypeOK, ClientTypes, QueueTypes,
             OtherTypes, clientVars, otherVars
<1>5. ASSUME NEW s \in Sources, StopForwarder(r, s) PROVE HubTypeOK'
  <2>1. WayTypes'
    BY <1>5 DEF StopForwarder, HubTypeOK, WayTypes
  <2> QED BY <1>5, <2>1, NewTypeParts DEF StopForwarder, HubTypeOK, RoomTypes, ClientTypes,
             QueueTypes, OtherTypes, clientVars, otherVars
<1> QED BY <1>1, <1>2, <1>3, <1>4, <1>5 DEF WayStep

LEMMA PublishTypes ==
    ASSUME HubTypeOK, PublishRedis \/ CopySubscribers
    PROVE  HubTypeOK'
<1>1. CASE PublishRedis
  <2>1. published + 1 \in Message
    BY <1>1, Messages DEF PublishRedis, HubTypeOK
  <2>2. feed' \in [Rooms -> [Sources -> Seq(Message)]]
    <3>1. \A r \in Rooms : feed'[r] \in [Sources -> Seq(Message)]
      BY <1>1, <2>1 DEF PublishRedis, HubTypeOK, Sources
    <3> QED BY <1>1, <3>1 DEF PublishRedis
  <2>3. WayTypes'
    BY <1>1, <2>2 DEF PublishRedis, HubTypeOK, WayTypes
  <2> QED BY <1>1, <2>1, <2>3, NewTypeParts DEF PublishRedis, HubTypeOK, RoomTypes, ClientTypes,
             QueueTypes, OtherTypes, clientVars
<1>2. CASE CopySubscribers
  <2>1. published + 1 \in Message /\ published + 1 \in Results
    BY <1>2, Messages, HubAssumption DEF CopySubscribers, HubTypeOK, Message, Results
  <2>2. pubTo' \subseteq Results \X Rooms
    BY <1>2, <2>1 DEF CopySubscribers, HubTypeOK
  <2> QED BY <1>2, <2>1, <2>2 DEF CopySubscribers, HubTypeOK, roomVars, clientVars
<1> QED BY <1>1, <1>2

LEMMA NoticeTypes ==
    ASSUME HubTypeOK, NEW n \in Notices, LookUpRoom(n) \/ SendStatus(n)
    PROVE  HubTypeOK'
<1>1. CASE LookUpRoom(n)
  BY <1>1 DEF LookUpRoom, HubTypeOK, roomVars, clientVars
<1>2. CASE SendStatus(n)
  <2>1. inbox' \in [Rooms -> Seq(Message)]
    BY <1>2, Messages DEF SendStatus, HubTypeOK
  <2> QED BY <1>2, <2>1, NewTypeParts DEF SendStatus, HubTypeOK, RoomTypes, WayTypes, ClientTypes,
             QueueTypes, OtherTypes, clientVars
<1> QED BY <1>1, <1>2

LEMMA ConnectionTypes ==
    ASSUME HubTypeOK, NEW c \in Clients,
           Write(c) \/ StopWriter(c) \/ StopReader(c) \/ Disconnect(c)
    PROVE  HubTypeOK'
<1>1. CASE Write(c)
  <2>1. <<>> \in Seq(Message) /\ Head(sendQ[c]) \in Message
    BY <1>1 DEF Write, HubTypeOK
  <2>2. QueueTypes'
    BY <1>1, <2>1 DEF Write, HubTypeOK, QueueTypes
  <2> QED BY <1>1, <2>2, NewTypeParts DEF Write, HubTypeOK, RoomTypes, WayTypes, ClientTypes,
             OtherTypes, roomVars, otherVars
<1>2. CASE StopWriter(c)
  BY <1>2 DEF StopWriter, HubTypeOK, roomVars, otherVars
<1>3. CASE StopReader(c)
  BY <1>3 DEF StopReader, HubTypeOK, roomVars, otherVars
<1>4. CASE Disconnect(c)
  BY <1>4 DEF Disconnect, HubTypeOK, roomVars, otherVars
<1> QED BY <1>1, <1>2, <1>3, <1>4

(***************************************************************************)
(* Rooms and their clients.                                                *)
(***************************************************************************)

\* A room that was not created cannot have been cancelled.
FreshRooms == \A r \in Rooms : loop[r] = "none" => ~cancelled[r]

HubInv == HubTypeOK /\ Newcomers /\ FreshRooms /\ MembersCanReceive /\ OneLiveRoom /\ NoSilentGap

LEMMA InitInv ==
    ASSUME HubInit
    PROVE  HubInv
<1>1. 0 \in Message /\ Sources = {"redis", "local"}
  BY Messages DEF Sources
<1>2. RoomTypes /\ WayTypes
  BY <1>1 DEF HubInit, RoomTypes, WayTypes
<1>3. ClientTypes /\ QueueTypes /\ OtherTypes
  BY <1>1 DEF HubInit, ClientTypes, QueueTypes, OtherTypes
<1>4. Newcomers /\ FreshRooms /\ MembersCanReceive /\ NoSilentGap
  BY DEF HubInit, Newcomers, FreshRooms, MembersCanReceive, NoSilentGap
<1>5. OneLiveRoom
  BY HubAssumption DEF HubInit, OneLiveRoom
<1> QED BY <1>2, <1>3, <1>4, <1>5, TypeParts DEF HubInv

\* What the other parts of the invariant look at.
inView == <<hubRoom, loop, cancelled, members, lastOut, room, conn, reader, sendClosed, handed>>

LEMMA OutOfView ==
    ASSUME HubInv, HubTypeOK', UNCHANGED inView
    PROVE  HubInv'
BY DEF HubInv, inView, Newcomers, FreshRooms, MembersCanReceive, OneLiveRoom, NoSilentGap

LEMMA JoinInv ==
    ASSUME HubInv, NEW c \in Clients, Join(c)
    PROVE  HubInv'
<1> USE DEF HubInv
<1>1. PICK r \in Rooms :
          /\ room' = [room EXCEPT ![c] = r]
          /\ hubRoom' = r
          /\ \/ hubRoom = r /\ UNCHANGED loop
             \/ /\ hubRoom = NoRoom /\ loop[r] = "none"
                /\ loop' = [loop EXCEPT ![r] = "spawned"]
  BY DEF Join
<1>2. HubTypeOK'
  BY JoinTypes
<1>3. /\ conn[c] = "none" /\ conn' = [conn EXCEPT ![c] = "register"]
      /\ UNCHANGED <<cancelled, members, lastOut, reader, sendClosed, handed>>
  BY DEF Join
<1>4. Newcomers'
  BY <1>1, <1>3 DEF HubTypeOK, Newcomers
<1>5. FreshRooms'
  BY <1>1, <1>3 DEF HubTypeOK, FreshRooms
<1>6. MembersCanReceive'
  BY <1>1, <1>3 DEF HubTypeOK, Newcomers, MembersCanReceive
<1>7. OneLiveRoom'
  <2>1. CASE hubRoom = r
    BY <2>1, <1>1, <1>3, HubAssumption DEF OneLiveRoom
  <2>2. CASE hubRoom = NoRoom /\ loop[r] = "none"
    BY <2>2, <1>1, <1>3, HubAssumption DEF OneLiveRoom, FreshRooms, HubTypeOK
  <2> QED BY <2>1, <2>2, <1>1
<1>8. NoSilentGap'
  BY <1>3 DEF NoSilentGap
<1> QED BY <1>2, <1>4, <1>5, <1>6, <1>7, <1>8

LEMMA RegisterInv ==
    ASSUME HubInv, NEW c \in Clients, Register(c)
    PROVE  HubInv'
<1> USE DEF HubInv
<1> DEFINE r == room[c]
<1>1. r \in Rooms /\ ~sendClosed[c]
  BY DEF Register, Newcomers
<1>2. HubTypeOK'
  BY RegisterTypes
<1>3. /\ members' = [members EXCEPT ![r] = @ \cup {c}]
      /\ handed' = [handed EXCEPT ![c] = lastOut[r]]
      /\ conn' = [conn EXCEPT ![c] = "open"]
      /\ reader' = [reader EXCEPT ![c] = "reading"]
      /\ UNCHANGED <<loop, cancelled, lastOut, room, sendClosed, hubRoom>>
  BY DEF Register, otherVars
<1>4. Newcomers'
  <2> SUFFICES ASSUME NEW d \in Clients
               PROVE  /\ conn'[d] \in {"none", "register"} =>
                            /\ ~sendClosed[d] /\ reader'[d] = "none"
                            /\ \A q \in Rooms : d \notin members'[q]
                      /\ conn'[d] # "none" => room[d] \in Rooms
    BY <1>3 DEF Newcomers
  <2>1. CASE d = c
    BY <2>1, <1>1, <1>3 DEF HubTypeOK
  <2>2. CASE d # c
    <3>1. conn'[d] = conn[d] /\ reader'[d] = reader[d]
      BY <2>2, <1>3 DEF HubTypeOK
    <3>2. \A q \in Rooms : d \in members'[q] => d \in members[q]
      BY <2>2, <1>1, <1>3 DEF HubTypeOK
    <3> QED BY <3>1, <3>2 DEF Newcomers
  <2> QED BY <2>1, <2>2
<1> HIDE DEF r
<1>5. FreshRooms' /\ OneLiveRoom'
  BY <1>3 DEF FreshRooms, OneLiveRoom
<1>6. MembersCanReceive'
  BY <1>1, <1>3 DEF HubTypeOK, MembersCanReceive, r
<1>7. NoSilentGap'
  <2> SUFFICES ASSUME NEW q \in Rooms, NEW d \in members'[q]
               PROVE  handed'[d] = lastOut[q]
    BY <1>3 DEF NoSilentGap
  <2>1. CASE d = c
    <3>1. q = r
      BY <2>1, <1>6, <1>3 DEF MembersCanReceive, r
    <3> QED BY <2>1, <3>1, <1>3 DEF HubTypeOK
  <2>2. CASE d # c
    BY <2>2, <1>3 DEF HubTypeOK, NoSilentGap
  <2> QED BY <2>1, <2>2
<1> QED BY <1>2, <1>4, <1>5, <1>6, <1>7

LEMMA LoopInv ==
    ASSUME HubInv, NEW r \in Rooms, StartRoom(r) \/ StopRoom(r)
    PROVE  HubInv'
<1>1. HubTypeOK'
  BY LoopTypes DEF HubInv
<1>2. /\ \A q \in Rooms : loop'[q] = "none" <=> loop[q] = "none"
      /\ UNCHANGED <<hubRoom, cancelled, members, lastOut, clientVars>>
  BY DEF HubInv, HubTypeOK, StartRoom, StopRoom, otherVars
<1> QED BY <1>1, <1>2 DEF HubInv, clientVars, Newcomers, FreshRooms, MembersCanReceive, OneLiveRoom,
           NoSilentGap

LEMMA DeliverInv ==
    ASSUME HubInv, NEW r \in Rooms, Deliver(r)
    PROVE  HubInv'
<1> USE DEF HubInv
<1> DEFINE m == Head(inbox[r])
           stay == members[r] \ Slow(r)
<1>1. HubTypeOK'
  BY DeliverTypes
<1>2. /\ lastOut' = [lastOut EXCEPT ![r] = IF m = 0 THEN @ ELSE m]
      /\ members' = [members EXCEPT ![r] = stay]
      /\ handed' = [c \in Clients |-> IF c \in stay /\ m # 0 THEN m ELSE handed[c]]
      /\ sendClosed' = [c \in Clients |-> sendClosed[c] \/ c \in Slow(r)]
      /\ UNCHANGED <<loop, cancelled, room, conn, reader, hubRoom>>
  BY DEF Deliver, HandOut, otherVars
<1>3. stay \subseteq members[r] /\ Slow(r) \subseteq members[r] /\ stay \cap Slow(r) = {}
  BY DEF Slow
<1> HIDE DEF m, stay
<1>4. Newcomers'
  BY <1>2, <1>3 DEF HubTypeOK, Newcomers
<1>5. FreshRooms' /\ OneLiveRoom'
  BY <1>2 DEF FreshRooms, OneLiveRoom
<1>6. \A q \in Rooms \ {r} : members'[q] = members[q] /\ members[q] \cap members[r] = {}
  BY <1>2 DEF HubTypeOK, MembersCanReceive
<1>7. MembersCanReceive'
  BY <1>2, <1>3, <1>6 DEF HubTypeOK, MembersCanReceive
<1>8. NoSilentGap'
  <2> SUFFICES ASSUME NEW q \in Rooms, NEW c \in members'[q]
               PROVE  handed'[c] = lastOut'[q]
    BY DEF NoSilentGap
  <2>1. c \in Clients
    BY <1>1 DEF HubTypeOK
  <2>2. CASE q = r
    BY <2>1, <2>2, <1>2, <1>3 DEF HubTypeOK, NoSilentGap
  <2>3. CASE q # r
    BY <2>1, <2>3, <1>2, <1>3, <1>6 DEF HubTypeOK, NoSilentGap
  <2> QED BY <2>2, <2>3
<1> QED BY <1>1, <1>4, <1>5, <1>7, <1>8

LEMMA UnregisterInv ==
    ASSUME HubInv, NEW c \in Clients, Unregister(c)
    PROVE  HubInv'
<1> USE DEF HubInv
<1> DEFINE r == room[c]
<1>1. r \in Rooms /\ conn[c] \notin {"none", "register"}
  BY RoomOf DEF Unregister, Newcomers
<1>2. HubTypeOK'
  BY UnregisterTypes
<1>3. /\ members' = [members EXCEPT ![r] = @ \ {c}]
      /\ sendClosed' = [sendClosed EXCEPT ![c] = TRUE] \/ sendClosed' = sendClosed
      /\ reader' = [reader EXCEPT ![c] = "gone"]
      /\ conn' = [conn EXCEPT ![c] = "closed"]
      /\ UNCHANGED <<loop, cancelled, lastOut, room, handed, hubRoom>>
  BY DEF Unregister
<1> HIDE DEF r
<1>4. Newcomers'
  BY <1>1, <1>3 DEF HubTypeOK, Newcomers
<1>5. FreshRooms' /\ OneLiveRoom'
  BY <1>3 DEF FreshRooms, OneLiveRoom
<1>6. \A q \in Rooms : members'[q] \subseteq members[q] \ {c}
  BY <1>1, <1>3 DEF HubTypeOK, MembersCanReceive, r
<1>7. MembersCanReceive' /\ NoSilentGap'
  BY <1>3, <1>6 DEF HubTypeOK, MembersCanReceive, NoSilentGap
<1> QED BY <1>2, <1>4, <1>5, <1>7

LEMMA CleanupInv ==
    ASSUME HubInv, Cleanup
    PROVE  HubInv'
<1> USE DEF HubInv
<1>1. HubTypeOK'
  BY CleanupTypes
<1>2. UNCHANGED <<loop, members, lastOut, clientVars>>
  BY DEF Cleanup
<1>3. Newcomers' /\ MembersCanReceive' /\ NoSilentGap'
  BY <1>2 DEF clientVars, Newcomers, MembersCanReceive, NoSilentGap
<1>4. CASE UNCHANGED <<hubRoom, cancelled>>
  BY <1>1, <1>2, <1>3, <1>4 DEF FreshRooms, OneLiveRoom
<1>5. CASE /\ hubRoom \in Rooms /\ hubRoom' = NoRoom
           /\ cancelled' = [cancelled EXCEPT ![hubRoom] = TRUE]
  <2>1. loop[hubRoom] # "none"
    BY <1>5 DEF OneLiveRoom
  <2>2. FreshRooms'
    BY <1>2, <1>5, <2>1 DEF HubTypeOK, FreshRooms
  <2>3. OneLiveRoom'
    BY <1>2, <1>5, HubAssumption DEF HubTypeOK, OneLiveRoom
  <2> QED BY <1>1, <1>3, <2>2, <2>3
<1> QED BY <1>4, <1>5 DEF Cleanup, HubRoomEmpty

LEMMA WayInv ==
    ASSUME HubInv, NEW r \in Rooms, WayStep(r)
    PROVE  HubInv'
<1>1. HubTypeOK'
  BY WayStepTypes DEF HubInv
<1>2. UNCHANGED inView
  BY DEF WayStep, Subscribe, SendLocal, Take, Put, StopForwarder, inView, clientVars, otherVars
<1> QED BY <1>1, <1>2, OutOfView

LEMMA ConnectionInv ==
    ASSUME HubInv, NEW c \in Clients,
           Write(c) \/ StopWriter(c) \/ StopReader(c) \/ Disconnect(c)
    PROVE  HubInv'
<1>1. HubTypeOK'
  BY ConnectionTypes DEF HubInv
<1>2. CASE Write(c)
  BY <1>1, <1>2, OutOfView DEF Write, inView, roomVars, otherVars
<1>3. CASE StopReader(c)
  BY <1>1, <1>3 DEF StopReader, HubInv, HubTypeOK, roomVars, otherVars, Newcomers, FreshRooms,
     MembersCanReceive, OneLiveRoom, NoSilentGap
<1>4. CASE StopWriter(c) \/ Disconnect(c)
  <2>1. /\ conn[c] \notin {"none", "register"} /\ conn' = [conn EXCEPT ![c] = "closed"]
        /\ UNCHANGED <<roomVars, room, reader, sendClosed, handed, hubRoom>>
    BY <1>4 DEF StopWriter, Disconnect, HubInv, Newcomers, roomVars, otherVars
  <2>2. Newcomers'
    BY <2>1 DEF HubInv, HubTypeOK, Newcomers, roomVars
  <2> QED BY <1>1, <2>1, <2>2 DEF HubInv, roomVars, FreshRooms, MembersCanReceive, OneLiveRoom,
             NoSilentGap
<1> QED BY <1>2, <1>3, <1>4

LEMMA StepInv ==
    ASSUME HubInv, [HubNext]_hubVars
    PROVE  HubInv'
<1>1. CASE UNCHANGED hubVars
  BY <1>1 DEF hubVars, roomVars, clientVars, otherVars, HubInv, HubTypeOK, Newcomers, FreshRooms,
     MembersCanReceive, OneLiveRoom, NoSilentGap
<1>2. ASSUME NEW c \in Clients, Join(c) \/ Disconnect(c) \/ ClientStep(c)
      PROVE  HubInv'
  <2>1. CASE FetchInitial(c) \/ SendInitial(c)
    <3>1. UNCHANGED inView
      BY <2>1 DEF FetchInitial, SendInitial, inView, roomVars, otherVars
    <3> QED BY <2>1, <3>1, InitialTypes, OutOfView DEF HubInv
  <2> QED BY <1>2, <2>1, JoinInv, RegisterInv, UnregisterInv, ConnectionInv DEF ClientStep
<1>3. ASSUME NEW r \in Rooms, RoomStep(r)
      PROVE  HubInv'
  BY <1>3, LoopInv, DeliverInv, WayInv DEF RoomStep, WayStep
<1>4. CASE PublishRedis \/ CopySubscribers
  <2>1. UNCHANGED inView
    BY <1>4 DEF PublishRedis, CopySubscribers, inView, roomVars, clientVars
  <2> QED BY <1>4, <2>1, PublishTypes, OutOfView DEF HubInv
<1>5. ASSUME NEW n \in Notices, LookUpRoom(n) \/ SendStatus(n)
      PROVE  HubInv'
  <2>1. UNCHANGED inView
    BY <1>5 DEF LookUpRoom, SendStatus, inView, roomVars, clientVars
  <2> QED BY <1>5, <2>1, NoticeTypes, OutOfView DEF HubInv
<1> QED BY <1>1, <1>2, <1>3, <1>4, <1>5, CleanupInv DEF HubNext

LEMMA Invariant == HubSpec => []HubInv
BY InitInv, StepInv, PTL DEF HubSpec

(***************************************************************************)
(* Queues.                                                                 *)
(***************************************************************************)

\* The results in a queue against one number, and all of a queue.
Below(queue, m) == \A i \in DOMAIN queue : queue[i] # 0 => queue[i] < m
Above(queue, m) == \A i \in DOMAIN queue : queue[i] # 0 => m < queue[i]
Under(queue, m) == \A i \in DOMAIN queue : queue[i] < m

LEMMA Joined ==
    ASSUME NEW q \in Seq(Nat), NEW t \in Seq(Nat)
    PROVE  /\ q \o t \in Seq(Nat) /\ Len(q \o t) = Len(q) + Len(t)
           /\ \A i \in 1 .. Len(q) + Len(t) :
                 \/ i \in 1 .. Len(q) /\ (q \o t)[i] = q[i]
                 \/ i - Len(q) \in 1 .. Len(t) /\ (q \o t)[i] = t[i - Len(q)]
OBVIOUS

LEMMA Seqs ==
    ASSUME NEW q \in Seq(Nat)
    PROVE  /\ Len(q) \in Nat /\ DOMAIN q = 1 .. Len(q)
           /\ \A i \in 1 .. Len(q) : q[i] \in Nat
OBVIOUS

LEMMA JoinedInOrder ==
    ASSUME NEW q \in Seq(Nat), NEW t \in Seq(Nat), InOrder(q), InOrder(t),
           \A i \in DOMAIN q : Above(t, q[i])
    PROVE  InOrder(q \o t)
<1> DEFINE v == q \o t
<1>1. /\ v \in Seq(Nat) /\ DOMAIN v = 1 .. Len(q) + Len(t)
      /\ \A i \in 1 .. Len(q) + Len(t) :
            \/ i \in 1 .. Len(q) /\ v[i] = q[i]
            \/ i - Len(q) \in 1 .. Len(t) /\ v[i] = t[i - Len(q)]
  BY Joined
<1> HIDE DEF v
<1> SUFFICES ASSUME NEW i \in 1 .. Len(q) + Len(t), NEW j \in 1 .. Len(q) + Len(t), i < j,
                    v[i] # 0, v[j] # 0
             PROVE  v[i] < v[j]
  BY <1>1 DEF InOrder, v
<1>2. Len(q) \in Nat /\ Len(t) \in Nat /\ DOMAIN q = 1 .. Len(q) /\ DOMAIN t = 1 .. Len(t)
  OBVIOUS
<1>3. CASE i \in 1 .. Len(q) /\ v[i] = q[i] /\ j \in 1 .. Len(q) /\ v[j] = q[j]
  BY <1>2, <1>3 DEF InOrder
<1>4. CASE /\ i \in 1 .. Len(q) /\ v[i] = q[i]
           /\ j - Len(q) \in 1 .. Len(t) /\ v[j] = t[j - Len(q)]
  BY <1>2, <1>4 DEF Above
<1>5. CASE /\ i - Len(q) \in 1 .. Len(t) /\ v[i] = t[i - Len(q)]
           /\ j - Len(q) \in 1 .. Len(t) /\ v[j] = t[j - Len(q)]
  <2>1. i - Len(q) < j - Len(q)
    BY <1>2
  <2> QED BY <1>2, <1>5, <2>1 DEF InOrder
<1>6. ~(i - Len(q) \in 1 .. Len(t) /\ j \in 1 .. Len(q))
  BY <1>2
<1>7. /\ \/ i \in 1 .. Len(q) /\ v[i] = q[i]
         \/ i - Len(q) \in 1 .. Len(t) /\ v[i] = t[i - Len(q)]
      /\ \/ j \in 1 .. Len(q) /\ v[j] = q[j]
         \/ j - Len(q) \in 1 .. Len(t) /\ v[j] = t[j - Len(q)]
  BY <1>1, Zenon
<1> QED BY <1>3, <1>4, <1>5, <1>6, <1>7, Zenon

LEMMA JoinedAbove ==
    ASSUME NEW q \in Seq(Nat), NEW t \in Seq(Nat), NEW n \in Nat, Above(q, n), Above(t, n)
    PROVE  Above(q \o t, n)
BY Joined DEF Above

LEMMA JoinedUnder ==
    ASSUME NEW q \in Seq(Nat), NEW t \in Seq(Nat), NEW u \in Seq(Nat),
           \A i \in DOMAIN q : Above(u, q[i]),
           \A i \in DOMAIN t : Above(u, t[i])
    PROVE  \A i \in DOMAIN (q \o t) : Above(u, (q \o t)[i])
<1>1. DOMAIN (q \o t) = 1 .. Len(q) + Len(t)
  BY Joined
<1> HIDE DEF Above
<1> QED BY <1>1, Joined

LEMMA One ==
    ASSUME NEW m \in Nat
    PROVE  /\ << m >> \in Seq(Nat) /\ InOrder(<< m >>)
           /\ \A n \in Nat : (m # 0 => n < m) => Above(<< m >>, n)
           /\ \A t : Above(t, m) => \A i \in DOMAIN << m >> : Above(t, << m >>[i])
BY DEF InOrder, Above
LEMMA Taken ==
    ASSUME NEW q \in Seq(Nat), q # <<>>, InOrder(q)
    PROVE  /\ InOrder(Tail(q))
           /\ Head(q) # 0 => Above(Tail(q), Head(q))
<1>1. /\ Tail(q) \in Seq(Nat) /\ DOMAIN Tail(q) = 1 .. Len(q) - 1
      /\ DOMAIN q = 1 .. Len(q) /\ Len(q) \in Nat \ {0}
  OBVIOUS
<1>2. /\ Head(q) = q[1]
      /\ \A i \in 1 .. Len(q) - 1 : Tail(q)[i] = q[i + 1]
  OBVIOUS
<1>3. \A i \in 1 .. Len(q) - 1 : i + 1 \in 1 .. Len(q) /\ 1 < i + 1 /\ 1 \in 1 .. Len(q)
  BY <1>1
<1>4. InOrder(Tail(q))
  BY <1>1, <1>2, <1>3 DEF InOrder
<1> QED BY <1>1, <1>2, <1>3, <1>4 DEF InOrder, Above

LEMMA Appended ==
    ASSUME NEW q \in Seq(Nat), NEW m \in Nat, InOrder(q), m # 0 => Below(q, m)
    PROVE  InOrder(Append(q, m))
BY DEF InOrder, Below

LEMMA AppendedUnder ==
    ASSUME NEW q \in Seq(Nat), NEW m \in Nat, NEW t \in Seq(Nat),
           \A i \in DOMAIN q : Above(t, q[i]), Above(t, m)
    PROVE  \A i \in DOMAIN Append(q, m) : Above(t, Append(q, m)[i])
<1>1. \A i \in DOMAIN Append(q, m) :
         Append(q, m)[i] = m \/ (i \in DOMAIN q /\ Append(q, m)[i] = q[i])
  OBVIOUS
<1> QED BY <1>1, Zenon

LEMMA AppendedBounds ==
    ASSUME NEW q \in Seq(Nat), NEW m \in Nat, NEW n \in Nat
    PROVE  /\ Below(q, n) /\ (m # 0 => m < n) => Below(Append(q, m), n)
           /\ Above(q, n) /\ (m # 0 => n < m) => Above(Append(q, m), n)
           /\ Under(q, n) /\ m < n => Under(Append(q, m), n)
BY DEF Below, Above, Under

LEMMA TakenBounds ==
    ASSUME NEW q \in Seq(Nat), q # <<>>, NEW n \in Nat
    PROVE  /\ Below(q, n) => Below(Tail(q), n) /\ (Head(q) # 0 => Head(q) < n)
           /\ Above(q, n) => Above(Tail(q), n) /\ (Head(q) # 0 => n < Head(q))
           /\ Under(q, n) => Under(Tail(q), n) /\ Head(q) < n
BY DEF Below, Above, Under

\* A result, a queue, a result and a queue, one after the other.
LEMMA Chained ==
    ASSUME NEW a \in Nat, NEW q \in Seq(Nat), NEW b \in Nat, NEW t \in Seq(Nat),
           InOrder(q), InOrder(t), Above(q, a), Above(t, a), Above(t, b),
           b # 0 => a < b /\ Below(q, b),
           \A i \in DOMAIN q : Above(t, q[i])
    PROVE  InOrder(<< a >> \o q \o << b >> \o t)
<1> DEFINE u == << a >> \o q
           v == u \o << b >>
<1>1. u \in Seq(Nat) /\ v \in Seq(Nat)
  OBVIOUS
<1>2. InOrder(u)
  BY One, JoinedInOrder
<1>3. \A i \in DOMAIN q : Above(<< b >>, q[i])
  BY One DEF Below
<1>4. \A i \in DOMAIN u : Above(<< b >>, u[i])
  <2>1. \A i \in DOMAIN << a >> : Above(<< b >>, << a >>[i])
    BY One
  <2> QED BY <1>3, <2>1, JoinedUnder
<1> HIDE DEF u
<1>5. InOrder(v)
  BY <1>1, <1>2, <1>4, One, JoinedInOrder
<1>6. \A i \in DOMAIN u : Above(t, u[i])
  <2>1. \A i \in DOMAIN << a >> : Above(t, << a >>[i])
    BY One
  <2> QED BY <2>1, JoinedUnder DEF u
<1>7. \A i \in DOMAIN v : Above(t, v[i])
  <2>1. \A i \in DOMAIN << b >> : Above(t, << b >>[i])
    BY One
  <2> QED BY <1>1, <1>6, <2>1, JoinedUnder
<1> HIDE DEF v
<1>8. InOrder(v \o t)
  BY <1>1, <1>5, <1>7, JoinedInOrder
<1> QED BY <1>8 DEF v, u

\* What a room has of one way: the last result out, the inbox, the result under way and
\* the channel that it comes from.
WayOrder(last, queue, h, channel) ==
    /\ InOrder(queue) /\ InOrder(channel)
    /\ Above(queue, last) /\ Above(channel, last) /\ Above(channel, h)
    /\ h # 0 => last < h /\ Below(queue, h)
    /\ \A i \in DOMAIN queue : Above(channel, queue[i])

\* All of it is older than result m.
Older(last, queue, h, channel, m) ==
    last < m /\ h < m /\ Under(queue, m) /\ Under(channel, m)

LEMMA OlderToo ==
    ASSUME NEW a \in Nat, NEW q \in Seq(Nat), NEW b \in Nat, NEW t \in Seq(Nat),
           NEW m \in Nat, NEW n \in Nat, m <= n, Older(a, q, b, t, m)
    PROVE  Older(a, q, b, t, n)
BY DEF Older, Under

LEMMA OrderOut ==
    ASSUME NEW a \in Nat, NEW q \in Seq(Nat), NEW b \in Nat, NEW t \in Seq(Nat),
           WayOrder(a, q, b, t), q # <<>>
    PROVE  LET last == IF Head(q) = 0 THEN a ELSE Head(q) IN
           /\ WayOrder(last, Tail(q), b, t)
           /\ \A n \in Nat : Older(a, q, b, t, n) => Older(last, Tail(q), b, t, n)
<1>1. /\ Tail(q) \in Seq(Nat) /\ Head(q) \in Nat /\ 1 \in DOMAIN q /\ Head(q) = q[1]
      /\ \A i \in DOMAIN Tail(q) : i + 1 \in DOMAIN q /\ Tail(q)[i] = q[i + 1]
  OBVIOUS
<1>2. \A i \in DOMAIN Tail(q) : Above(t, Tail(q)[i])
  BY <1>1 DEF WayOrder
<1>3. Head(q) # 0 => a < Head(q) /\ Above(t, Head(q)) /\ Above(Tail(q), Head(q))
  BY <1>1, Taken, TakenBounds DEF WayOrder
<1>4. b # 0 => Below(Tail(q), b) /\ (Head(q) # 0 => Head(q) < b)
  BY <1>1, TakenBounds DEF WayOrder
<1>5. InOrder(Tail(q)) /\ Above(Tail(q), a)
  BY Taken, TakenBounds DEF WayOrder
<1>6. \A n \in Nat : Under(q, n) => Under(Tail(q), n) /\ Head(q) < n
  BY TakenBounds
<1> QED BY <1>2, <1>3, <1>4, <1>5, <1>6 DEF WayOrder, Older

LEMMA OrderTake ==
    ASSUME NEW a \in Nat, NEW q \in Seq(Nat), NEW t \in Seq(Nat),
           WayOrder(a, q, 0, t), t # <<>>
    PROVE  /\ WayOrder(a, q, Head(t), Tail(t))
           /\ \A n \in Nat : Older(a, q, 0, t, n) => Older(a, q, Head(t), Tail(t), n)
<1>1. /\ Tail(t) \in Seq(Nat) /\ Head(t) \in Nat
      /\ \A i \in DOMAIN q : q[i] \in Nat
  OBVIOUS
<1>2. \A i \in DOMAIN q : Above(Tail(t), q[i]) /\ (Head(t) # 0 => q[i] < Head(t))
  BY <1>1, TakenBounds DEF WayOrder
<1>3. Head(t) # 0 => a < Head(t) /\ Below(q, Head(t))
  BY <1>2, TakenBounds DEF WayOrder, Below
<1>4. InOrder(Tail(t)) /\ Above(Tail(t), a) /\ Above(Tail(t), Head(t))
  <2>1. Above(Tail(t), 0)
    BY <1>1 DEF Above
  <2> QED BY <2>1, Taken, TakenBounds DEF WayOrder
<1>5. \A n \in Nat : Under(t, n) => Under(Tail(t), n) /\ Head(t) < n
  BY TakenBounds
<1> QED BY <1>2, <1>3, <1>4, <1>5 DEF WayOrder, Older

LEMMA OrderPut ==
    ASSUME NEW a \in Nat, NEW q \in Seq(Nat), NEW b \in Nat, NEW t \in Seq(Nat),
           WayOrder(a, q, b, t)
    PROVE  /\ WayOrder(a, Append(q, b), 0, t)
           /\ \A n \in Nat : Older(a, q, b, t, n) => Older(a, Append(q, b), 0, t, n)
<1>1. InOrder(Append(q, b)) /\ Above(Append(q, b), a)
  BY Appended, AppendedBounds DEF WayOrder
<1>2. \A i \in DOMAIN Append(q, b) : Above(t, Append(q, b)[i])
  BY AppendedUnder DEF WayOrder
<1>3. Above(t, 0)
  BY DEF Above
<1>4. \A n \in Nat : Under(q, n) /\ b < n => Under(Append(q, b), n)
  BY AppendedBounds
<1> QED BY <1>1, <1>2, <1>3, <1>4 DEF WayOrder, Older

\* A status is put into the inbox.
LEMMA OrderStatus ==
    ASSUME NEW a \in Nat, NEW q \in Seq(Nat), NEW b \in Nat, NEW t \in Seq(Nat),
           WayOrder(a, q, b, t)
    PROVE  /\ WayOrder(a, Append(q, 0), b, t)
           /\ \A n \in Nat : Older(a, q, b, t, n) => Older(a, Append(q, 0), b, t, n)
<1>1. InOrder(Append(q, 0)) /\ Above(Append(q, 0), a) /\ (b # 0 => Below(Append(q, 0), b))
  BY Appended, AppendedBounds DEF WayOrder
<1>2. \A i \in DOMAIN Append(q, 0) : Above(t, Append(q, 0)[i])
  <2>1. Above(t, 0)
    BY DEF Above
  <2> QED BY <2>1, AppendedUnder DEF WayOrder
<1>3. ASSUME NEW n \in Nat, Older(a, q, b, t, n)
      PROVE  Under(Append(q, 0), n)
  <2>1. 0 < n /\ Under(q, n)
    BY <1>3 DEF Older
  <2> QED BY <2>1, AppendedBounds
<1> QED BY <1>1, <1>2, <1>3 DEF WayOrder, Older

LEMMA OrderPublish ==
    ASSUME NEW a \in Nat, NEW q \in Seq(Nat), NEW b \in Nat, NEW t \in Seq(Nat), NEW m \in Nat,
           WayOrder(a, q, b, t), Older(a, q, b, t, m)
    PROVE  /\ WayOrder(a, q, b, Append(t, m))
           /\ Older(a, q, b, Append(t, m), m + 1)
<1>1. \A i \in DOMAIN q : Above(Append(t, m), q[i])
  <2>1. \A i \in DOMAIN q : q[i] \in Nat /\ q[i] < m /\ Above(t, q[i])
    BY DEF WayOrder, Older, Under
  <2> QED BY <2>1, AppendedBounds
<1>2. InOrder(Append(t, m))
  BY Appended DEF WayOrder, Older, Below, Under
<1>3. Above(Append(t, m), a) /\ Above(Append(t, m), b)
  BY AppendedBounds DEF WayOrder, Older
<1>4. Older(a, q, b, t, m + 1)
  BY OlderToo
<1>5. Under(Append(t, m), m + 1)
  BY <1>4, AppendedBounds DEF Older
<1> QED BY <1>1, <1>2, <1>3, <1>4, <1>5 DEF WayOrder, Older

(***************************************************************************)
(* The order of results that come through Redis.                           *)
(***************************************************************************)

RoomOrder(r) == WayOrder(lastOut[r], inbox[r], held[r]["redis"], feed[r]["redis"])
RoomOlder(r) == Older(lastOut[r], inbox[r], held[r]["redis"], feed[r]["redis"], published + 1)

LEMMA Ways == Sources = {"redis", "local"} /\ "redis" \in Sources /\ "local" \in Sources
BY DEF Sources

\* A forwarder has a result only while it sends it, and the local channels have none.
QuietWays ==
    /\ pubTo = {}
    /\ \A r \in Rooms :
          /\ loop[r] \in {"none", "spawned"} => \A s \in Sources : fwd[r][s] = "none"
          /\ \A s \in Sources : fwd[r][s] # "send" => held[r][s] = 0
          /\ held[r]["local"] = 0 /\ feed[r]["local"] = <<>>

\* What a room has is in order, and of what was published.
OrderedRooms == \A r \in Rooms : RoomOrder(r) /\ RoomOlder(r)

\* Nothing is sent to a viewer before the loop has taken it.
Unstarted == \A c \in Clients : conn[c] \in {"none", "register"} => initial[c] = "none"

\* What a viewer has got, and what waits for it, is not newer than what it was handed.
OrderedViewers ==
    \A c \in Clients :
        /\ conn[c] \in {"none", "register"} => sendQ[c] = <<>> /\ latest[c] = 0
        /\ InOrder(sendQ[c]) /\ Above(sendQ[c], latest[c])
        /\ Under(sendQ[c], handed[c] + 1) /\ latest[c] <= handed[c]

OrderInv == HubInv /\ QuietWays /\ OrderedRooms /\ Unstarted /\ OrderedViewers

LEMMA NumbersOnly ==
    ASSUME NEW q \in Seq(Message)
    PROVE  q \in Seq(Nat)
BY Messages, SeqMonotonic

\* The states of a room and of a viewer are made of numbers.
LEMMA RoomNumbers ==
    ASSUME HubTypeOK, NEW w \in Sources, NEW r \in Rooms
    PROVE  /\ lastOut[r] \in Nat /\ inbox[r] \in Seq(Nat) /\ published \in Nat
           /\ held[r][w] \in Nat /\ feed[r][w] \in Seq(Nat)
<1>1. /\ lastOut[r] \in Message /\ inbox[r] \in Seq(Message) /\ published \in Message
      /\ held[r][w] \in Message /\ feed[r][w] \in Seq(Message)
  BY DEF HubTypeOK
<1> QED BY <1>1, Messages, NumbersOnly

LEMMA ViewerNumbers ==
    ASSUME HubTypeOK, NEW c \in Clients
    PROVE  sendQ[c] \in Seq(Nat) /\ latest[c] \in Nat /\ handed[c] \in Nat
BY Messages, NumbersOnly DEF HubTypeOK

LEMMA OrderInit ==
    ASSUME HubInit
    PROVE  OrderInv
<1>1. /\ InOrder(<<>>) /\ \A m : Above(<<>>, m) /\ Below(<<>>, m) /\ Under(<<>>, m)
  BY DEF InOrder, Above, Below, Under
<1>2. WayOrder(0, <<>>, 0, <<>>) /\ Older(0, <<>>, 0, <<>>, 0 + 1)
  BY <1>1 DEF WayOrder, Older
<1>3. OrderedRooms
  <2> SUFFICES ASSUME NEW r \in Rooms
               PROVE  RoomOrder(r) /\ RoomOlder(r)
    BY DEF HubInit, OrderedRooms
  <2>1. lastOut[r] = 0 /\ inbox[r] = <<>> /\ held[r]["redis"] = 0 /\ feed[r]["redis"] = <<>> /\ published = 0
    BY Ways DEF HubInit
  <2> QED BY <2>1, <1>2 DEF RoomOrder, RoomOlder
<1>4. OrderedViewers
  BY <1>1 DEF HubInit, OrderedViewers
<1>5. QuietWays /\ Unstarted
  BY Ways DEF HubInit, QuietWays, Unstarted
<1> QED BY <1>3, <1>4, <1>5, InitInv DEF OrderInv

\* A viewer gets messages that carry no result.
LEMMA ViewerNoted ==
    ASSUME HubTypeOK, OrderedViewers, NEW c \in Clients
    PROVE  LET q == Append(sendQ[c], 0) IN
           InOrder(q) /\ Above(q, latest[c]) /\ Under(q, handed[c] + 1)
<1>1. sendQ[c] \in Seq(Nat) /\ latest[c] \in Nat /\ handed[c] + 1 \in Nat /\ 0 < handed[c] + 1
  BY ViewerNumbers
<1> QED BY <1>1, Appended, AppendedBounds DEF OrderedViewers

LEMMA CountsNoted ==
    ASSUME HubTypeOK, OrderedViewers, NEW to, NEW c \in Clients
    PROVE  LET q == ViewerCount(sendQ, to)[c] IN
           InOrder(q) /\ Above(q, latest[c]) /\ Under(q, handed[c] + 1)
<1>1. ViewerCount(sendQ, to)[c] \in {sendQ[c], Append(sendQ[c], 0)}
  BY DEF ViewerCount
<1> QED BY <1>1, ViewerNoted DEF OrderedViewers

(* The steps that viewers take. *)

LEMMA ViewersKept ==
    ASSUME OrderedViewers, UNCHANGED <<conn, sendQ, latest, handed>>
    PROVE  OrderedViewers'
BY DEF OrderedViewers

LEMMA RegisterViewers ==
    ASSUME HubInv, OrderedViewers, NEW c \in Clients, Register(c)
    PROVE  OrderedViewers'
<1> SUFFICES ASSUME NEW d \in Clients
             PROVE  /\ conn'[d] \in {"none", "register"} => sendQ'[d] = <<>> /\ latest'[d] = 0
                    /\ InOrder(sendQ'[d]) /\ Above(sendQ'[d], latest'[d])
                    /\ Under(sendQ'[d], handed'[d] + 1) /\ latest'[d] <= handed'[d]
  BY DEF OrderedViewers
<1>1. /\ HubTypeOK /\ room[c] \in Rooms
      /\ sendQ' = ViewerCount(sendQ, members[room[c]] \cup {c})
      /\ handed' = [handed EXCEPT ![c] = lastOut[room[c]]]
      /\ conn' = [conn EXCEPT ![c] = "open"] /\ conn[c] = "register" /\ latest' = latest
  BY RoomOf DEF Register, HubInv
<1>2. InOrder(sendQ'[d]) /\ Above(sendQ'[d], latest'[d]) /\ Under(sendQ'[d], handed[d] + 1)
  BY <1>1, CountsNoted
<1>3. CASE d = c
  <2>1. sendQ[c] = <<>> /\ latest[c] = 0 /\ sendQ'[c] \in {<<>>, Append(<<>>, 0)}
    BY <1>1 DEF OrderedViewers, ViewerCount
  <2>2. lastOut[room[c]] \in Nat /\ handed'[c] = lastOut[room[c]] /\ conn'[c] = "open"
    BY <1>1, Messages DEF HubTypeOK
  <2>3. Under(sendQ'[c], handed'[c] + 1)
    BY <2>1, <2>2 DEF Under
  <2> QED BY <1>1, <1>2, <1>3, <2>1, <2>2, <2>3
<1>4. CASE d # c
  <2>1. handed'[d] = handed[d] /\ conn'[d] = conn[d]
    BY <1>1, <1>4 DEF HubTypeOK
  <2>2. conn[d] \in {"none", "register"} => d \notin members[room[c]]
    BY <1>1 DEF HubInv, Newcomers
  <2>3. conn[d] \in {"none", "register"} => sendQ'[d] = sendQ[d]
    BY <1>1, <1>4, <2>2 DEF ViewerCount
  <2> QED BY <1>1, <1>2, <2>1, <2>3 DEF OrderedViewers
<1> QED BY <1>3, <1>4

LEMMA UnregisterViewers ==
    ASSUME HubInv, OrderedViewers, NEW c \in Clients, Unregister(c)
    PROVE  OrderedViewers'
<1> SUFFICES ASSUME NEW d \in Clients
             PROVE  /\ conn'[d] \in {"none", "register"} => sendQ'[d] = <<>> /\ latest'[d] = 0
                    /\ InOrder(sendQ'[d]) /\ Above(sendQ'[d], latest'[d])
                    /\ Under(sendQ'[d], handed'[d] + 1) /\ latest'[d] <= handed'[d]
  BY DEF OrderedViewers
<1> DEFINE rest == members[room[c]] \ {c}
<1>1. /\ HubTypeOK /\ room[c] \in Rooms
      /\ sendQ' = ViewerCount(sendQ, rest) \/ sendQ' = sendQ
      /\ conn' = [conn EXCEPT ![c] = "closed"] /\ UNCHANGED <<latest, handed>>
  BY RoomOf DEF Unregister, HubInv
<1>2. InOrder(sendQ'[d]) /\ Above(sendQ'[d], latest'[d]) /\ Under(sendQ'[d], handed[d] + 1)
  BY <1>1, CountsNoted DEF OrderedViewers
<1>3. conn[d] \in {"none", "register"} => d \notin rest
  BY <1>1 DEF HubInv, Newcomers
<1>4. conn[d] \in {"none", "register"} => sendQ'[d] = sendQ[d]
  BY <1>1, <1>3 DEF ViewerCount
<1>5. conn'[d] \in {"none", "register"} => conn[d] = conn'[d]
  BY <1>1 DEF HubTypeOK
<1> QED BY <1>1, <1>2, <1>4, <1>5 DEF OrderedViewers

LEMMA SendInitialViewers ==
    ASSUME HubInv, OrderedViewers, Unstarted, NEW c \in Clients, SendInitial(c)
    PROVE  OrderedViewers'
<1>1. /\ HubTypeOK /\ conn[c] \notin {"none", "register"}
      /\ sendQ' = sendQ \/ sendQ' = [sendQ EXCEPT ![c] = Append(sendQ[c], 0)]
      /\ UNCHANGED <<conn, latest, handed>>
  BY DEF SendInitial, HubInv, Unstarted
<1>2. ASSUME sendQ' = [sendQ EXCEPT ![c] = Append(sendQ[c], 0)]
      PROVE  OrderedViewers'
  <2>1. sendQ'[c] = Append(sendQ[c], 0) /\ \A d \in Clients \ {c} : sendQ'[d] = sendQ[d]
    BY <1>1, <1>2 DEF HubTypeOK
  <2> QED BY <1>1, <2>1, ViewerNoted DEF OrderedViewers
<1> QED BY <1>1, <1>2 DEF OrderedViewers

LEMMA WriteViewers ==
    ASSUME HubInv, OrderedViewers, NEW c \in Clients, Write(c)
    PROVE  OrderedViewers'
<1>1. /\ HubTypeOK /\ conn[c] = "open" /\ sendQ[c] # <<>>
      /\ latest' = [latest EXCEPT ![c] = IF Len(sendQ[c]) = 1 /\ Head(sendQ[c]) # 0
                                         THEN Head(sendQ[c]) ELSE @]
      /\ sendQ' = [sendQ EXCEPT ![c] = <<>>]
      /\ UNCHANGED <<conn, handed>>
  BY DEF Write, HubInv
<1>2. \A d \in Clients \ {c} : sendQ'[d] = sendQ[d] /\ latest'[d] = latest[d]
  BY <1>1 DEF HubTypeOK
<1>3. sendQ'[c] = <<>> /\ latest'[c] \in {latest[c], Head(sendQ[c])}
  BY <1>1 DEF HubTypeOK
<1>4. sendQ[c] \in Seq(Nat) /\ latest[c] \in Nat /\ handed[c] \in Nat
  BY <1>1, ViewerNumbers
<1>5. Head(sendQ[c]) \in Nat /\ Head(sendQ[c]) <= handed[c]
  <2>1. Head(sendQ[c]) < handed[c] + 1 /\ Head(sendQ[c]) \in Nat
    BY <1>1, <1>4, TakenBounds DEF OrderedViewers
  <2> QED BY <1>4, <2>1
<1>6. InOrder(<<>>) /\ Above(<<>>, latest'[c]) /\ Under(<<>>, handed[c] + 1)
  BY DEF InOrder, Above, Under
<1>7. latest'[c] <= handed[c]
  BY <1>3, <1>5 DEF OrderedViewers
<1> QED BY <1>1, <1>2, <1>3, <1>6, <1>7 DEF OrderedViewers

LEMMA DeliverViewers ==
    ASSUME HubInv, OrderedViewers, OrderedRooms, NEW r \in Rooms, Deliver(r)
    PROVE  OrderedViewers'
<1> DEFINE m == Head(inbox[r])
           stay == members[r] \ Slow(r)
<1>1. /\ HubTypeOK /\ inbox[r] # <<>> /\ UNCHANGED <<conn, latest>>
      /\ sendQ' = [c \in Clients |-> IF c \in stay THEN Append(sendQ[c], m) ELSE sendQ[c]]
      /\ handed' = [c \in Clients |-> IF c \in stay /\ m # 0 THEN m ELSE handed[c]]
  BY DEF Deliver, HandOut, HubInv
<1>2. inbox[r] \in Seq(Nat) /\ lastOut[r] \in Nat /\ m \in Nat /\ (m # 0 => lastOut[r] < m)
  BY <1>1, Ways, RoomNumbers, TakenBounds DEF OrderedRooms, RoomOrder, WayOrder
<1>3. stay \subseteq members[r]
  OBVIOUS
<1> HIDE DEF m, stay
<1> SUFFICES ASSUME NEW c \in Clients
             PROVE  /\ conn[c] \in {"none", "register"} => sendQ'[c] = <<>> /\ latest[c] = 0
                    /\ InOrder(sendQ'[c]) /\ Above(sendQ'[c], latest[c])
                    /\ Under(sendQ'[c], handed'[c] + 1) /\ latest[c] <= handed'[c]
  BY <1>1 DEF OrderedViewers
<1>4. CASE c \notin stay
  BY <1>1, <1>4 DEF OrderedViewers
<1>5. CASE c \in stay
  <2>1. /\ conn[c] \notin {"none", "register"} /\ handed[c] = lastOut[r]
        /\ sendQ'[c] = Append(sendQ[c], m) /\ handed'[c] = IF m # 0 THEN m ELSE handed[c]
    BY <1>1, <1>3, <1>5 DEF HubInv, Newcomers, NoSilentGap
  <2>2. sendQ[c] \in Seq(Nat) /\ latest[c] \in Nat /\ handed[c] \in Nat
    BY <1>1, ViewerNumbers
  <2>3. CASE m = 0
    BY <1>1, <2>1, <2>3, ViewerNoted DEF OrderedViewers
  <2>4. CASE m # 0
    <3>1. /\ InOrder(sendQ[c]) /\ Above(sendQ[c], latest[c])
          /\ Under(sendQ[c], handed[c] + 1) /\ latest[c] <= handed[c]
      BY DEF OrderedViewers
    <3>2. handed[c] < m /\ handed'[c] = m /\ latest[c] < m
      BY <1>2, <2>1, <2>2, <2>4, <3>1
    <3>3. Below(sendQ[c], m) /\ Under(sendQ[c], m + 1)
      BY <1>2, <2>2, <3>1, <3>2 DEF Below, Under
    <3>4. InOrder(Append(sendQ[c], m))
      BY <1>2, <2>2, <3>1, <3>3, Appended
    <3>5. Above(Append(sendQ[c], m), latest[c])
      BY <1>2, <2>2, <3>1, <3>2, AppendedBounds
    <3>6. Under(Append(sendQ[c], m), m + 1)
      <4>1. m + 1 \in Nat /\ m < m + 1
        BY <1>2
      <4> QED BY <1>2, <2>2, <3>3, <4>1, AppendedBounds
    <3>7. sendQ'[c] = Append(sendQ[c], m)
      BY <2>1
    <3>8. conn[c] \notin {"none", "register"} /\ latest[c] <= handed'[c]
      BY <1>2, <2>1, <2>2, <3>2
    <3> QED BY <3>2, <3>4, <3>5, <3>6, <3>7, <3>8
  <2> QED BY <2>3, <2>4
<1> QED BY <1>4, <1>5

(* The steps that rooms take. *)

LEMMA RoomsKept ==
    ASSUME OrderedRooms,
           UNCHANGED <<lastOut, inbox, held, feed, published>>
    PROVE  OrderedRooms'
BY DEF OrderedRooms, RoomOrder, RoomOlder

LEMMA RoomChanged ==
    ASSUME OrderedRooms, NEW r \in Rooms,
           \A q \in Rooms \ {r} : /\ lastOut'[q] = lastOut[q] /\ inbox'[q] = inbox[q]
                                 /\ held'[q]["redis"] = held[q]["redis"] /\ feed'[q]["redis"] = feed[q]["redis"],
           published' = published, RoomOrder(r)', RoomOlder(r)'
    PROVE  OrderedRooms'
<1> SUFFICES ASSUME NEW q \in Rooms
             PROVE  /\ RoomOrder(q)' /\ RoomOlder(q)'
  BY DEF OrderedRooms
<1>1. CASE q = r
  BY <1>1
<1>2. CASE q # r
  BY <1>2 DEF OrderedRooms, RoomOrder, RoomOlder
<1> QED BY <1>1, <1>2

LEMMA DeliverRooms ==
    ASSUME HubInv, OrderedRooms, NEW r \in Rooms, Deliver(r)
    PROVE  OrderedRooms'
<1> DEFINE m == Head(inbox[r])
           last == IF m = 0 THEN lastOut[r] ELSE m
<1>1. /\ HubTypeOK /\ inbox[r] # <<>> /\ UNCHANGED <<held, feed, published>>
      /\ inbox' = [inbox EXCEPT ![r] = Tail(inbox[r])]
      /\ lastOut' = [lastOut EXCEPT ![r] = last]
  BY DEF Deliver, HandOut, HubInv, otherVars
<1>2. /\ inbox'[r] = Tail(inbox[r]) /\ lastOut'[r] = last
      /\ \A q \in Rooms \ {r} : inbox'[q] = inbox[q] /\ lastOut'[q] = lastOut[q]
  BY <1>1, Ways DEF HubTypeOK
<1>3. /\ WayOrder(lastOut[r], inbox[r], held[r]["redis"], feed[r]["redis"])
      /\ Older(lastOut[r], inbox[r], held[r]["redis"], feed[r]["redis"], published + 1)
  BY DEF OrderedRooms, RoomOrder, RoomOlder
<1>4. /\ lastOut[r] \in Nat /\ inbox[r] \in Seq(Nat) /\ published \in Nat
      /\ held[r]["redis"] \in Nat /\ feed[r]["redis"] \in Seq(Nat) /\ published + 1 \in Nat
  BY <1>1, Ways, RoomNumbers
<1>5. /\ WayOrder(last, Tail(inbox[r]), held[r]["redis"], feed[r]["redis"])
      /\ \A n \in Nat : Older(lastOut[r], inbox[r], held[r]["redis"], feed[r]["redis"], n)
            => Older(last, Tail(inbox[r]), held[r]["redis"], feed[r]["redis"], n)
  BY <1>1, <1>3, <1>4, OrderOut
<1> HIDE DEF last
<1>6. RoomOrder(r)' /\ RoomOlder(r)'
  BY <1>1, <1>2, <1>3, <1>4, <1>5 DEF RoomOrder, RoomOlder
<1> QED BY <1>1, <1>2, <1>6, RoomChanged

LEMMA TakeRooms ==
    ASSUME HubInv, OrderedRooms, QuietWays,
           NEW r \in Rooms, NEW s \in Sources, Take(r, s)
    PROVE  OrderedRooms'
<1>1. /\ HubTypeOK /\ s = "redis" /\ feed[r]["redis"] # <<>> /\ held[r]["redis"] = 0
      /\ UNCHANGED <<lastOut, inbox, published>>
      /\ held' = [held EXCEPT ![r]["redis"] = Head(feed[r]["redis"])]
      /\ feed' = [feed EXCEPT ![r]["redis"] = Tail(feed[r]["redis"])]
  BY Ways DEF Take, HubInv, QuietWays, otherVars
<1>2. /\ held'[r]["redis"] = Head(feed[r]["redis"]) /\ feed'[r]["redis"] = Tail(feed[r]["redis"])
      /\ \A q \in Rooms \ {r} : held'[q] = held[q] /\ feed'[q] = feed[q]
  BY <1>1, Ways DEF HubTypeOK
<1>3. /\ WayOrder(lastOut[r], inbox[r], 0, feed[r]["redis"])
      /\ Older(lastOut[r], inbox[r], 0, feed[r]["redis"], published + 1)
  BY <1>1 DEF OrderedRooms, RoomOrder, RoomOlder
<1>4. /\ lastOut[r] \in Nat /\ inbox[r] \in Seq(Nat) /\ published \in Nat
      /\ feed[r]["redis"] \in Seq(Nat) /\ published + 1 \in Nat
  BY <1>1, Ways, RoomNumbers
<1>5. /\ WayOrder(lastOut[r], inbox[r], Head(feed[r]["redis"]), Tail(feed[r]["redis"]))
      /\ \A n \in Nat : Older(lastOut[r], inbox[r], 0, feed[r]["redis"], n)
            => Older(lastOut[r], inbox[r], Head(feed[r]["redis"]), Tail(feed[r]["redis"]), n)
  BY <1>1, <1>3, <1>4, OrderTake
<1>6. RoomOrder(r)' /\ RoomOlder(r)'
  BY <1>1, <1>2, <1>3, <1>4, <1>5 DEF RoomOrder, RoomOlder
<1> QED BY <1>1, <1>2, <1>6, RoomChanged

LEMMA PutRooms ==
    ASSUME HubInv, OrderedRooms, QuietWays,
           NEW r \in Rooms, NEW s \in Sources, Put(r, s)
    PROVE  OrderedRooms'
<1>1. /\ HubTypeOK /\ UNCHANGED <<lastOut, feed, published>>
      /\ inbox' = [inbox EXCEPT ![r] = Append(inbox[r], held[r][s])]
      /\ held' = [held EXCEPT ![r][s] = 0]
      /\ s # "redis" => held[r][s] = 0
  BY Ways DEF Put, HubInv, QuietWays, otherVars
<1>2. /\ inbox'[r] = Append(inbox[r], held[r][s])
      /\ held'[r]["redis"] = IF s = "redis" THEN 0 ELSE held[r]["redis"]
      /\ \A q \in Rooms \ {r} : held'[q] = held[q] /\ inbox'[q] = inbox[q]
  BY <1>1, Ways DEF HubTypeOK
<1>3. /\ WayOrder(lastOut[r], inbox[r], held[r]["redis"], feed[r]["redis"])
      /\ Older(lastOut[r], inbox[r], held[r]["redis"], feed[r]["redis"], published + 1)
  BY DEF OrderedRooms, RoomOrder, RoomOlder
<1>4. /\ lastOut[r] \in Nat /\ inbox[r] \in Seq(Nat) /\ published \in Nat
      /\ held[r]["redis"] \in Nat /\ feed[r]["redis"] \in Seq(Nat) /\ published + 1 \in Nat
  BY <1>1, Ways, RoomNumbers
<1>5. /\ WayOrder(lastOut[r], inbox'[r], held'[r]["redis"], feed[r]["redis"])
      /\ \A n \in Nat : Older(lastOut[r], inbox[r], held[r]["redis"], feed[r]["redis"], n)
            => Older(lastOut[r], inbox'[r], held'[r]["redis"], feed[r]["redis"], n)
  <2>1. CASE s = "redis"
    BY <1>2, <1>3, <1>4, <2>1, OrderPut
  <2>2. CASE s # "redis"
    <3>1. inbox'[r] = Append(inbox[r], 0) /\ held'[r]["redis"] = held[r]["redis"]
      BY <1>1, <1>2, <2>2
    <3> QED BY <1>3, <1>4, <3>1, OrderStatus
  <2> QED BY <2>1, <2>2
<1>6. RoomOrder(r)' /\ RoomOlder(r)'
  BY <1>1, <1>3, <1>4, <1>5 DEF RoomOrder, RoomOlder
<1> QED BY <1>1, <1>2, <1>6, RoomChanged

LEMMA SendStatusRooms ==
    ASSUME HubInv, OrderedRooms, NEW n \in Notices, SendStatus(n)
    PROVE  OrderedRooms'
<1> DEFINE r == notice[n]
<1>1. /\ HubTypeOK /\ r \in Rooms /\ UNCHANGED <<lastOut, held, feed, published>>
      /\ inbox' = [inbox EXCEPT ![r] = Append(inbox[r], 0)]
  BY DEF SendStatus, HubInv
<1> HIDE DEF r
<1>2. /\ inbox'[r] = Append(inbox[r], 0) /\ \A q \in Rooms \ {r} : inbox'[q] = inbox[q]
  BY <1>1, Ways DEF HubTypeOK
<1>3. /\ WayOrder(lastOut[r], inbox[r], held[r]["redis"], feed[r]["redis"])
      /\ Older(lastOut[r], inbox[r], held[r]["redis"], feed[r]["redis"], published + 1)
  BY <1>1 DEF OrderedRooms, RoomOrder, RoomOlder
<1>4. /\ lastOut[r] \in Nat /\ inbox[r] \in Seq(Nat) /\ published \in Nat
      /\ held[r]["redis"] \in Nat /\ feed[r]["redis"] \in Seq(Nat) /\ published + 1 \in Nat
  BY <1>1, Ways, RoomNumbers
<1>5. /\ WayOrder(lastOut[r], inbox'[r], held[r]["redis"], feed[r]["redis"])
      /\ \A k \in Nat : Older(lastOut[r], inbox[r], held[r]["redis"], feed[r]["redis"], k)
            => Older(lastOut[r], inbox'[r], held[r]["redis"], feed[r]["redis"], k)
  BY <1>2, <1>3, <1>4, OrderStatus
<1>6. WayOrder(lastOut'[r], inbox'[r], held'[r]["redis"], feed'[r]["redis"])
  BY <1>1, <1>5
<1>7. /\ Older(lastOut'[r], inbox'[r], held'[r]["redis"], feed'[r]["redis"], published' + 1)
  BY <1>1, <1>3, <1>4, <1>5
<1>8. \A q \in Rooms \ {r} : /\ lastOut'[q] = lastOut[q] /\ inbox'[q] = inbox[q]
                             /\ held'[q]["redis"] = held[q]["redis"] /\ feed'[q]["redis"] = feed[q]["redis"]
  BY <1>1, <1>2
<1> QED
  <2>1. \A q \in Rooms : /\ RoomOrder(q)' /\ RoomOlder(q)'
    BY <1>1, <1>6, <1>7, <1>8 DEF OrderedRooms, RoomOrder, RoomOlder
  <2> QED BY <2>1 DEF OrderedRooms

LEMMA PublishRooms ==
    ASSUME HubInv, OrderedRooms, PublishRedis
    PROVE  OrderedRooms'
<1> SUFFICES ASSUME NEW r \in Rooms
             PROVE  /\ RoomOrder(r)' /\ RoomOlder(r)'
  BY DEF OrderedRooms
<1>1. HubTypeOK /\ UNCHANGED <<lastOut, inbox, held>> /\ published' = published + 1
  BY DEF HubInv, PublishRedis
<1>2. /\ WayOrder(lastOut[r], inbox[r], held[r]["redis"], feed[r]["redis"])
      /\ Older(lastOut[r], inbox[r], held[r]["redis"], feed[r]["redis"], published + 1)
  BY DEF OrderedRooms, RoomOrder, RoomOlder
<1>3. /\ lastOut[r] \in Nat /\ inbox[r] \in Seq(Nat) /\ published \in Nat
      /\ held[r]["redis"] \in Nat /\ feed[r]["redis"] \in Seq(Nat) /\ published + 1 \in Nat
      /\ published + 1 + 1 \in Nat /\ published + 1 <= published + 1 + 1
  BY <1>1, Ways, RoomNumbers
<1>4. Older(lastOut[r], inbox[r], held[r]["redis"], feed[r]["redis"], published + 1 + 1)
  BY <1>2, <1>3, OlderToo
<1>5. feed'[r]["redis"] \in {feed[r]["redis"], Append(feed[r]["redis"], published + 1)}
  <2>1. feed'[r] \in {feed[r], [feed[r] EXCEPT !["redis"] = Append(@, published + 1)]}
    BY DEF PublishRedis
  <2> QED BY <1>1, <2>1, Ways DEF HubTypeOK
<1>6. /\ WayOrder(lastOut[r], inbox[r], held[r]["redis"], Append(feed[r]["redis"], published + 1))
      /\ Older(lastOut[r], inbox[r], held[r]["redis"], Append(feed[r]["redis"], published + 1), published + 1 + 1)
  BY <1>2, <1>3, OrderPublish
<1> QED BY <1>1, <1>2, <1>4, <1>5, <1>6 DEF RoomOrder, RoomOlder

(* The other parts. *)

LEMMA StepQuiet ==
    ASSUME HubInv, Via \subseteq {"redis"}, QuietWays, HubNext
    PROVE  QuietWays'
<1> USE DEF QuietWays
<1>0. HubTypeOK /\ Sources = {"redis", "local"}
  BY Ways DEF HubInv
<1>1. ASSUME UNCHANGED <<fwd, held, feed, pubTo>>,
             \A r \in Rooms : loop'[r] \in {"none", "spawned"} => loop[r] \in {"none", "spawned"}
      PROVE  QuietWays'
  BY <1>1
<1>2. ASSUME NEW c \in Clients, Join(c) \/ Disconnect(c) \/ ClientStep(c)
      PROVE  QuietWays'
  <2>1. UNCHANGED <<fwd, held, feed, pubTo>>
    BY <1>2 DEF Join, Disconnect, ClientStep, Register, FetchInitial, SendInitial, Unregister,
       Write, StopWriter, StopReader, roomVars, otherVars
  <2>2. \A r \in Rooms : loop'[r] \in {"none", "spawned"} => loop[r] \in {"none", "spawned"}
    BY <1>0, <1>2 DEF Join, Disconnect, ClientStep, Register, FetchInitial, SendInitial, Unregister,
       Write, StopWriter, StopReader, roomVars, otherVars, HubTypeOK
  <2> QED BY <1>1, <2>1, <2>2
<1>3. ASSUME NEW r \in Rooms, StartRoom(r)
      PROVE  QuietWays'
  <2>1. /\ loop[r] = "spawned" /\ UNCHANGED <<held, feed, pubTo>>
        /\ loop' = [loop EXCEPT ![r] = "running"]
        /\ \A q \in Rooms \ {r} : fwd'[q] = fwd[q]
    BY <1>0, <1>3 DEF StartRoom, otherVars, HubTypeOK
  <2>2. \A q \in Rooms : loop'[q] \in {"none", "spawned"} => q # r /\ loop[q] \in {"none", "spawned"}
    BY <1>0, <2>1 DEF HubTypeOK
  <2>3. \A s \in Sources : held[r][s] = 0
    BY <2>1
  <2> QED BY <2>1, <2>2, <2>3
<1>4. ASSUME NEW r \in Rooms, Deliver(r) \/ StopRoom(r)
      PROVE  QuietWays'
  <2>1. /\ UNCHANGED <<fwd, held, feed, pubTo>>
        /\ loop' = loop \/ loop' = [loop EXCEPT ![r] = "done"]
    BY <1>4 DEF Deliver, HandOut, StopRoom, otherVars
  <2> QED BY <1>0, <1>1, <2>1 DEF HubTypeOK
<1>5. ASSUME NEW r \in Rooms, Subscribe(r)
      PROVE  QuietWays'
  <2>1. /\ fwd[r]["redis"] = "starting" /\ UNCHANGED <<loop, held, feed, pubTo>>
        /\ fwd' = [fwd EXCEPT ![r]["redis"] = "idle"]
    BY <1>5 DEF Subscribe, otherVars
  <2>2. loop[r] \notin {"none", "spawned"} /\ held[r]["redis"] = 0
    BY <1>0, <2>1
  <2>3. \A q \in Rooms, s \in Sources : fwd'[q][s] = IF q = r /\ s = "redis" THEN "idle" ELSE fwd[q][s]
    BY <1>0, <2>1 DEF HubTypeOK
  <2> QED BY <1>0, <2>1, <2>2, <2>3
<1>6. ASSUME NEW r \in Rooms, NEW m \in Results
      PROVE  ~SendLocal(m, r)
  BY DEF SendLocal
<1>7. ASSUME NEW r \in Rooms, NEW s \in Sources, Take(r, s) \/ Put(r, s) \/ StopForwarder(r, s)
      PROVE  QuietWays'
  <2>1. fwd[r][s] # "none" /\ UNCHANGED <<loop, pubTo>>
    BY <1>7 DEF Take, Put, StopForwarder, otherVars
  <2>2. loop[r] \notin {"none", "spawned"}
    BY <2>1
  <2>3. CASE Take(r, s)
    <3>1. s = "redis"
      BY <1>0, <2>3 DEF Take
    <3>2. \A q \in Rooms, t \in Sources :
             (q # r \/ t # s) => /\ held'[q][t] = held[q][t] /\ feed'[q][t] = feed[q][t]
                                 /\ fwd'[q][t] = fwd[q][t]
      BY <1>0, <2>3 DEF Take, HubTypeOK
    <3>3. fwd'[r][s] = "send"
      BY <1>0, <2>3 DEF Take, HubTypeOK
    <3> QED BY <1>0, <2>1, <2>2, <3>1, <3>2, <3>3
  <2>4. CASE Put(r, s) \/ StopForwarder(r, s)
    <3>1. \A q \in Rooms, t \in Sources :
             /\ held'[q][t] = held[q][t] \/ (q = r /\ t = s /\ held'[q][t] = 0)
             /\ (q # r \/ t # s) => fwd'[q][t] = fwd[q][t]
      BY <1>0, <2>4 DEF Put, StopForwarder, HubTypeOK
    <3>2. held'[r][s] = 0 /\ UNCHANGED feed
      BY <1>0, <2>4 DEF Put, StopForwarder, HubTypeOK
    <3> QED BY <1>0, <2>1, <2>2, <3>1, <3>2
  <2> QED BY <1>7, <2>3, <2>4
<1>8. CASE PublishRedis
  <2>1. /\ UNCHANGED <<loop, fwd, held, pubTo>>
        /\ \A q \in Rooms : feed'[q] \in {feed[q], [feed[q] EXCEPT !["redis"] = Append(@, published + 1)]}
    BY <1>8 DEF PublishRedis
  <2>2. ASSUME NEW q \in Rooms
        PROVE  feed'[q]["local"] = feed[q]["local"]
    <3>1. feed[q] \in [Sources -> Seq(Message)]
      BY <1>0 DEF HubTypeOK
    <3>2. feed'[q] = feed[q] \/ feed'[q] = [feed[q] EXCEPT !["redis"] = Append(@, published + 1)]
      BY <2>1
    <3> QED BY <1>0, <3>1, <3>2
  <2> QED BY <2>1, <2>2
<1>9. CASE Cleanup \/ \E n \in Notices : LookUpRoom(n) \/ SendStatus(n)
  BY <1>1, <1>9 DEF Cleanup, LookUpRoom, SendStatus, roomVars
<1>10. ~CopySubscribers
  BY DEF CopySubscribers
<1> QED BY <1>2, <1>3, <1>4, <1>5, <1>6, <1>7, <1>8, <1>9, <1>10 DEF HubNext, RoomStep

LEMMA StepUnstarted ==
    ASSUME HubInv, Unstarted, HubNext
    PROVE  Unstarted'
<1>1. CASE UNCHANGED <<conn, initial>>
  BY <1>1 DEF Unstarted
<1>2. ASSUME NEW c \in Clients, Join(c) \/ Register(c)
      PROVE  Unstarted'
  BY <1>2 DEF Join, Register, Unstarted, HubInv, HubTypeOK
<1>3. ASSUME NEW c \in Clients, FetchInitial(c) \/ SendInitial(c)
      PROVE  Unstarted'
  BY <1>3 DEF FetchInitial, SendInitial, Unstarted, HubInv, HubTypeOK
<1>4. ASSUME NEW c \in Clients, Disconnect(c) \/ Unregister(c) \/ StopWriter(c) \/ Write(c) \/ StopReader(c)
      PROVE  Unstarted'
  <2>1. UNCHANGED initial /\ (conn' = conn \/ conn' = [conn EXCEPT ![c] = "closed"])
    BY <1>4 DEF Disconnect, Unregister, StopWriter, Write, StopReader
  <2> QED BY <2>1 DEF Unstarted, HubInv, HubTypeOK
<1>5. ASSUME NEW r \in Rooms, RoomStep(r)
      PROVE  UNCHANGED <<conn, initial>>
  BY <1>5 DEF RoomStep, StartRoom, Deliver, HandOut, StopRoom, Subscribe, SendLocal, Take, Put,
     StopForwarder, clientVars
<1>6. ASSUME Cleanup \/ PublishRedis \/ CopySubscribers \/ \E n \in Notices : LookUpRoom(n) \/ SendStatus(n)
      PROVE  UNCHANGED <<conn, initial>>
  BY <1>6 DEF Cleanup, PublishRedis, CopySubscribers, LookUpRoom, SendStatus, clientVars
<1> QED BY <1>1, <1>2, <1>3, <1>4, <1>5, <1>6 DEF HubNext, ClientStep

LEMMA StepOrder ==
    ASSUME Via \subseteq {"redis"}, OrderInv, [HubNext]_hubVars
    PROVE  OrderInv'
<1> USE DEF OrderInv
<1>1. HubInv'
  BY StepInv
<1>2. CASE UNCHANGED hubVars
  <2>1. UNCHANGED <<roomVars, clientVars, otherVars>>
    BY <1>2 DEF hubVars
  <2>2. OrderedRooms' /\ OrderedViewers'
    BY <2>1, RoomsKept, ViewersKept DEF roomVars, clientVars, otherVars
  <2>3. QuietWays' /\ Unstarted'
    BY <2>1 DEF QuietWays, Unstarted, roomVars, clientVars, otherVars
  <2> QED BY <1>1, <2>2, <2>3
<1>3. ASSUME HubNext
      PROVE  OrderedRooms' /\ OrderedViewers'
  <2>1. ASSUME NEW c \in Clients, Join(c) \/ Disconnect(c) \/ ClientStep(c)
        PROVE  OrderedRooms' /\ OrderedViewers'
    <3>1. OrderedRooms'
      <4>1. UNCHANGED <<lastOut, inbox, held, feed, published>>
        BY <2>1 DEF Join, Disconnect, ClientStep, Register, FetchInitial, SendInitial, Unregister,
           Write, StopWriter, StopReader, roomVars, otherVars
      <4> QED BY <4>1, RoomsKept
    <3>2. CASE Join(c)
      BY <3>1, <3>2 DEF Join, OrderedViewers, HubInv, HubTypeOK
    <3>3. CASE Disconnect(c) \/ StopWriter(c)
      <4>1. UNCHANGED <<sendQ, latest, handed>> /\ conn' = [conn EXCEPT ![c] = "closed"]
        BY <3>3 DEF Disconnect, StopWriter
      <4> QED BY <3>1, <4>1 DEF OrderedViewers, HubInv, HubTypeOK
    <3>4. CASE FetchInitial(c) \/ StopReader(c)
      BY <3>1, <3>4, ViewersKept DEF FetchInitial, StopReader
    <3> QED BY <2>1, <3>1, <3>2, <3>3, <3>4, RegisterViewers, UnregisterViewers, SendInitialViewers,
               WriteViewers DEF ClientStep
  <2>2. ASSUME NEW r \in Rooms, RoomStep(r)
        PROVE  OrderedRooms' /\ OrderedViewers'
    <3>1. CASE Deliver(r)
      BY <3>1, DeliverRooms, DeliverViewers
    <3>2. CASE ~Deliver(r)
      <4>1. UNCHANGED <<conn, sendQ, latest, handed>>
        BY <2>2, <3>2 DEF RoomStep, StartRoom, StopRoom, Subscribe, SendLocal, Take, Put,
           StopForwarder, clientVars
      <4>2. ASSUME StartRoom(r) \/ StopRoom(r) \/ Subscribe(r) \/ \E s \in Sources : StopForwarder(r, s)
            PROVE  OrderedRooms'
        BY <4>2, RoomsKept DEF StartRoom, StopRoom, Subscribe, StopForwarder, otherVars
      <4>3. \A m \in Results : ~SendLocal(m, r)
        BY DEF SendLocal, QuietWays
      <4> QED BY <2>2, <3>2, <4>1, <4>2, <4>3, ViewersKept, TakeRooms, PutRooms DEF RoomStep
    <3> QED BY <3>1, <3>2
  <2>3. CASE PublishRedis
    <3>1. UNCHANGED <<conn, sendQ, latest, handed>>
      BY <2>3 DEF PublishRedis, clientVars
    <3> QED BY <2>3, <3>1, ViewersKept, PublishRooms
  <2>4. CASE Cleanup
    BY <2>4, ViewersKept, RoomsKept DEF Cleanup, clientVars
  <2>6. ~CopySubscribers
    BY DEF CopySubscribers
  <2>5. ASSUME NEW n \in Notices, LookUpRoom(n) \/ SendStatus(n)
        PROVE  OrderedRooms' /\ OrderedViewers'
    <3>1. UNCHANGED <<conn, sendQ, latest, handed>>
      BY <2>5 DEF LookUpRoom, SendStatus, clientVars
    <3>2. LookUpRoom(n) => OrderedRooms'
      BY RoomsKept DEF LookUpRoom, roomVars
    <3> QED BY <2>5, <3>1, <3>2, ViewersKept, SendStatusRooms
  <2> QED BY <1>3, <2>1, <2>2, <2>3, <2>4, <2>5, <2>6 DEF HubNext
<1> QED BY <1>1, <1>2, <1>3, StepQuiet, StepUnstarted

LEMMA OrderImplied ==
    ASSUME OrderInv
    PROVE  OrderKept
<1> USE DEF OrderInv
<1>1. HubTypeOK
  BY DEF HubInv
<1>2. ASSUME NEW r \in Rooms, NEW s \in Sources
      PROVE  InOrder(<< lastOut[r] >> \o inbox[r] \o << held[r][s] >> \o feed[r][s])
  <2>1. WayOrder(lastOut[r], inbox[r], held[r]["redis"], feed[r]["redis"])
    BY DEF OrderedRooms, RoomOrder
  <2>2. WayOrder(lastOut[r], inbox[r], 0, <<>>)
    BY <2>1 DEF WayOrder, InOrder, Above
  <2>3. s # "redis" => held[r][s] = 0 /\ feed[r][s] = <<>>
    BY Ways DEF QuietWays
  <2>4. WayOrder(lastOut[r], inbox[r], held[r][s], feed[r][s])
    BY <2>1, <2>2, <2>3
  <2> QED BY <1>1, <2>4, RoomNumbers, Chained DEF WayOrder
<1>3. ASSUME NEW c \in Clients
      PROVE  InOrder(<< latest[c] >> \o sendQ[c])
  <2>1. sendQ[c] \in Seq(Nat) /\ latest[c] \in Nat
    BY <1>1, ViewerNumbers
  <2> QED BY <2>1, One, JoinedInOrder DEF OrderedViewers
<1> QED BY <1>2, <1>3 DEF OrderKept

(***************************************************************************)
(* Theorems.                                                               *)
(***************************************************************************)

\* The state of the hub, of its rooms and of its clients has its types.
THEOREM HubTypeCorrect == HubSpec => []HubTypeOK
<1>1. HubInv => HubTypeOK
  BY DEF HubInv
<1> QED BY <1>1, Invariant, PTL

\* hub.go:92 to 128, the loop of a room sends to and closes open channels only, however
\* its clients come, are dropped and leave.
THEOREM LoopNeverPanics == HubSpec => []MembersCanReceive
<1>1. HubInv => MembersCanReceive
  BY DEF HubInv
<1> QED BY <1>1, Invariant, PTL

\* hub.go:40 to 60 and 105 to 115, at any time one room of a poll gets its results.
THEOREM ViewersTogether == HubSpec => []OneLiveRoom
<1>1. HubInv => OneLiveRoom
  BY DEF HubInv
<1> QED BY <1>1, Invariant, PTL

\* hub.go:118 to 126, a client that stays in a room has had each result that the loop took.
THEOREM ResultsHandedOut == HubSpec => []NoSilentGap
<1>1. HubInv => NoSilentGap
  BY DEF HubInv
<1> QED BY <1>1, Invariant, PTL

\* vote_service.go:125 to 130, hub.go:73 to 158, results that come through Redis reach every
\* viewer in the order in which they were published, none of them twice.
THEOREM ResultsInOrder ==
    ASSUME Via \subseteq {"redis"}
    PROVE  HubSpec => []OrderKept
<1>1. HubInit => OrderInv
  BY OrderInit
<1>2. OrderInv /\ [HubNext]_hubVars => OrderInv'
  BY StepOrder
<1>3. OrderInv => OrderKept
  BY OrderImplied
<1> QED BY <1>1, <1>2, <1>3, PTL DEF HubSpec
=============================================================================
