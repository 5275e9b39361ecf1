--------------------------------- MODULE Hub ---------------------------------
(***************************************************************************)
(* The WebSocket hub for one poll: backend/internal/websocket/hub.go and   *)
(* client.go, with the upgrade handler of handlers/ws_handler.go and the   *)
(* local channels of vote_service.go that feed it.                         *)
(*                                                                         *)
(* A room is an object with a loop (runRoom) that owns its client map, and *)
(* two forwarders that bring published results into its Broadcast channel. *)
(* When a room has emptied, a timer may remove it from the hub, and the    *)
(* next viewer gets a new object: Rooms are the objects of one poll.       *)
(* Clients are connections; a page that reconnects is another client.      *)
(*                                                                         *)
(* Data abstractions: a message is the number of the published result it   *)
(* carries, and 0 when it carries none (viewer counts, status changes, the *)
(* initial state).  Sleeping timers are counted; pings are left out, their *)
(* failure being a disconnection.                                          *)
(***************************************************************************)
EXTENDS Naturals, Sequences

CONSTANTS
    Rooms, Clients,
    Notices,        \* calls of BroadcastPollStatus
    NoRoom,
    MaxResults,     \* bound on the published results
    InboxCap,       \* capacity of Room.Broadcast: 32 in the code
    SendCap,        \* capacity of Client.Send: 64
    LocalCap,       \* capacity of a channel of SubscribeLocal: 10
    Via,            \* the ways by which votes send their results, see Sources
    UseMongo        \* GetPoll obeys the context of the request

\* A vote publishes its result to Redis, or to the local channels when Redis did not
\* answer its PING; both happen in one process when Redis comes and goes.
Sources == {"redis", "local"}

ASSUME HubAssumption ==
    /\ NoRoom \notin Rooms
    /\ MaxResults \in Nat
    /\ InboxCap \in Nat \ {0} /\ SendCap \in Nat \ {0} /\ LocalCap \in Nat \ {0}
    /\ Via \subseteq Sources /\ UseMongo \in BOOLEAN

VARIABLES
    hubRoom,    \* h.rooms[pollID], or NoRoom
    timers,     \* cleanup goroutines that are asleep
    \* per room
    loop,       \* runRoom; CancelSub is nil before it is "running"
    cancelled,  \* whether the context of the room is done
    members,    \* room.Clients
    inbox,      \* room.Broadcast
    fwd,        \* fwd[r][s]: the goroutine that forwards from source s
    held,       \* held[r][s]: what it is sending to the inbox
    feed,       \* feed[r][s]: the channel it reads
    lastOut,    \* history: the last result that the loop handed out
    \* per client
    room,       \* Client.Room
    conn,       \* the connection and its handler
    reader, writer, initial,    \* ReadPump, WritePump, the goroutine for "init"
    sendQ, sendClosed,          \* Client.Send
    handed,     \* history: the last result put into sendQ, or missed by coming later
    latest,     \* the last result that the page has made its liveData
    \* publishing
    published,  \* results published so far
    pubTo,      \* results with local channels that broadcastLocal has copied and not
                \* yet served
    notice,     \* notice[n]: the room that a BroadcastPollStatus call sends to
    panicked    \* what has panicked

roomVars   == <<loop, cancelled, members, inbox, fwd, held, feed, lastOut>>
clientVars == <<room, conn, reader, writer, initial, sendQ, sendClosed, handed, latest>>
otherVars  == <<hubRoom, timers, published, pubTo, notice, panicked>>
hubVars    == <<roomVars, clientVars, otherVars>>

Results == 1 .. MaxResults
Message == 0 .. MaxResults

HubInit ==
    /\ hubRoom = NoRoom /\ timers = 0
    /\ loop = [r \in Rooms |-> "none"]
    /\ cancelled = [r \in Rooms |-> FALSE]
    /\ members = [r \in Rooms |-> {}]
    /\ inbox = [r \in Rooms |-> <<>>]
    /\ fwd = [r \in Rooms |-> [s \in Sources |-> "none"]]
    /\ held = [r \in Rooms |-> [s \in Sources |-> 0]]
    /\ feed = [r \in Rooms |-> [s \in Sources |-> <<>>]]
    /\ lastOut = [r \in Rooms |-> 0]
    /\ room = [c \in Clients |-> NoRoom]
    /\ conn = [c \in Clients |-> "none"]
    /\ reader = [c \in Clients |-> "none"]
    /\ writer = [c \in Clients |-> "none"]
    /\ initial = [c \in Clients |-> "none"]
    /\ sendQ = [c \in Clients |-> <<>>]
    /\ sendClosed = [c \in Clients |-> FALSE]
    /\ handed = [c \in Clients |-> 0]
    /\ latest = [c \in Clients |-> 0]
    /\ published = 0 /\ pubTo = {}
    /\ notice = [n \in Notices |-> "idle"]
    /\ panicked = {}

-----------------------------------------------------------------------------
(* HandleWebSocket *)

\* GetOrCreateRoom, under h.mu, and the start of the send to room.Register.
Join(c) ==
    /\ conn[c] = "none"
    /\ \E r \in Rooms :
          /\ room' = [room EXCEPT ![c] = r]
          /\ hubRoom' = r
          /\ \/ hubRoom = r /\ UNCHANGED loop
             \/ /\ hubRoom = NoRoom /\ loop[r] = "none"
                /\ loop' = [loop EXCEPT ![r] = "spawned"]
    /\ conn' = [conn EXCEPT ![c] = "register"]
    /\ UNCHANGED <<timers, cancelled, members, inbox, fwd, held, feed, lastOut,
                   reader, writer, initial, sendQ, sendClosed, handed, latest,
                   published, pubTo, notice, panicked>>

\* broadcastViewerCount: a full channel is skipped.
ViewerCount(queues, to) ==
    [c \in Clients |-> IF c \in to /\ Len(queues[c]) < SendCap
                       THEN Append(queues[c], 0) ELSE queues[c]]

\* The loop takes the client from room.Register; the handler starts its goroutines.
Register(c) ==
    LET r == room[c] IN
    /\ conn[c] = "register"
    /\ loop[r] = "running"
    /\ members' = [members EXCEPT ![r] = @ \cup {c}]
    /\ sendQ' = ViewerCount(sendQ, members[r] \cup {c})
    /\ handed' = [handed EXCEPT ![c] = lastOut[r]]
    /\ conn' = [conn EXCEPT ![c] = "open"]
    /\ reader' = [reader EXCEPT ![c] = "reading"]
    /\ writer' = [writer EXCEPT ![c] = "writing"]
    /\ initial' = [initial EXCEPT ![c] = "fetch"]
    /\ UNCHANGED <<loop, cancelled, inbox, fwd, held, feed, lastOut, room,
                   sendClosed, latest, otherVars>>

\* GetLiveResults of the initial state, under the context of the request.  net/http
\* cancels that when the handler returns, although the connection has been taken over;
\* the handler has nothing left to do, so it may have returned by now.
FetchInitial(c) ==
    /\ initial[c] = "fetch"
    /\ \/ initial' = [initial EXCEPT ![c] = "send"]
       \/ UseMongo /\ initial' = [initial EXCEPT ![c] = "failed"]
    /\ UNCHANGED <<roomVars, room, conn, reader, writer, sendQ, sendClosed, handed,
                   latest, otherVars>>

\* Sending on a closed channel panics, also in a select with a default.
SendInitial(c) ==
    /\ initial[c] = "send"
    /\ \/ /\ sendClosed[c]
          /\ panicked' = panicked \cup {"init"}
          /\ initial' = [initial EXCEPT ![c] = "failed"]
          /\ UNCHANGED sendQ
       \/ /\ ~sendClosed[c] /\ Len(sendQ[c]) < SendCap
          /\ sendQ' = [sendQ EXCEPT ![c] = Append(@, 0)]
          /\ initial' = [initial EXCEPT ![c] = "sent"]
          /\ UNCHANGED panicked
       \/ /\ ~sendClosed[c] /\ Len(sendQ[c]) = SendCap
          /\ initial' = [initial EXCEPT ![c] = "failed"]
          /\ UNCHANGED <<sendQ, panicked>>
    /\ UNCHANGED <<roomVars, room, conn, reader, writer, sendClosed, handed,
                   latest, hubRoom, timers, published, pubTo, notice>>

-----------------------------------------------------------------------------
(* runRoom *)

\* CancelSub is set, the listener started, the local channel subscribed to, and the
\* goroutine that reads it started.
StartRoom(r) ==
    /\ loop[r] = "spawned"
    /\ loop' = [loop EXCEPT ![r] = "running"]
    /\ fwd' = [fwd EXCEPT ![r] = [redis |-> IF "redis" \in Via THEN "starting" ELSE "done",
                                  local |-> "idle"]]
    /\ UNCHANGED <<cancelled, members, inbox, held, feed, lastOut, clientVars, otherVars>>

\* The loop takes a message of room.Broadcast, puts it into the channels of the clients
\* in gets, closes those of the clients in shut, and keeps the clients in stay.
HandOut(r, gets, shut, stay) ==
    LET m == Head(inbox[r]) IN
    /\ loop[r] = "running"
    /\ inbox[r] # <<>>
    /\ inbox' = [inbox EXCEPT ![r] = Tail(@)]
    /\ lastOut' = [lastOut EXCEPT ![r] = IF m = 0 THEN @ ELSE m]
    /\ members' = [members EXCEPT ![r] = stay]
    /\ sendQ' = [c \in Clients |-> IF c \in gets THEN Append(sendQ[c], m) ELSE sendQ[c]]
    /\ handed' = [c \in Clients |-> IF c \in gets /\ m # 0 THEN m ELSE handed[c]]
    /\ sendClosed' = [c \in Clients |-> sendClosed[c] \/ c \in shut]
    /\ UNCHANGED <<loop, cancelled, fwd, held, feed, room, conn, reader, writer, initial,
                   latest, otherVars>>

Slow(r) == {c \in members[r] : Len(sendQ[c]) >= SendCap}

\* (Mutants of Deliver: a slow client is closed and stays in the map; it stays and just
\* misses the message; messages wait until somebody is in the room.)
DeliverKeepsSlow(r) == HandOut(r, members[r] \ Slow(r), Slow(r), members[r])
DeliverSkipsSlow(r) == HandOut(r, members[r] \ Slow(r), {}, members[r])
DeliverToSome(r) ==
    members[r] # {} /\ HandOut(r, members[r] \ Slow(r), Slow(r), members[r] \ Slow(r))

\* Every client gets the message; one whose channel is full is closed and dropped.
Deliver(r) == HandOut(r, members[r] \ Slow(r), Slow(r), members[r] \ Slow(r))

\* The loop takes the client from room.Unregister, and a timer is started when it was
\* the last one.  ReadPump then closes the connection.
Unregister(c) ==
    LET r    == room[c]
        rest == members[r] \ {c}
    IN
    /\ reader[c] = "leaving"
    /\ loop[r] = "running"
    /\ members' = [members EXCEPT ![r] = rest]
    /\ \/ /\ c \in members[r]
          /\ sendClosed' = [sendClosed EXCEPT ![c] = TRUE]
          /\ sendQ' = ViewerCount(sendQ, rest)
          /\ timers' = IF rest = {} THEN timers + 1 ELSE timers
       \/ /\ c \notin members[r]
          /\ UNCHANGED <<sendClosed, sendQ, timers>>
    /\ reader' = [reader EXCEPT ![c] = "gone"]
    /\ conn' = [conn EXCEPT ![c] = "closed"]
    /\ UNCHANGED <<loop, cancelled, inbox, fwd, held, feed, lastOut, room, writer,
                   initial, handed, latest, hubRoom, published, pubTo, notice,
                   panicked>>

\* The context is done: the loop returns and closes its local channel.
StopRoom(r) ==
    /\ loop[r] = "running" /\ cancelled[r]
    /\ loop' = [loop EXCEPT ![r] = "done"]
    /\ UNCHANGED <<cancelled, members, inbox, fwd, held, feed, lastOut, clientVars,
                   otherVars>>

HubRoomEmpty == hubRoom \in Rooms /\ members[hubRoom] = {}

\* (Mutant of Cleanup: the room stays in the hub.)
CleanupKeepsRoom ==
    /\ timers > 0
    /\ timers' = timers - 1
    /\ cancelled' = IF HubRoomEmpty THEN [cancelled EXCEPT ![hubRoom] = TRUE] ELSE cancelled
    /\ UNCHANGED <<loop, members, inbox, fwd, held, feed, lastOut, clientVars, hubRoom,
                   published, pubTo, notice, panicked>>

\* A timer wakes up: it looks at the room that the hub has now.
Cleanup ==
    /\ timers > 0
    /\ timers' = timers - 1
    /\ \/ /\ HubRoomEmpty /\ loop[hubRoom] # "spawned"
          /\ cancelled' = [cancelled EXCEPT ![hubRoom] = TRUE]
          /\ hubRoom' = NoRoom
          /\ UNCHANGED panicked
       \/ /\ HubRoomEmpty /\ loop[hubRoom] = "spawned"
          /\ panicked' = panicked \cup {"cleanup"}
          /\ UNCHANGED <<cancelled, hubRoom>>
       \/ ~HubRoomEmpty /\ UNCHANGED <<cancelled, hubRoom, panicked>>
    /\ UNCHANGED <<loop, members, inbox, fwd, held, feed, lastOut, clientVars, published,
                   pubTo, notice>>

-----------------------------------------------------------------------------
(* Results on their way to the room *)

\* listenRedisPubSub subscribes, some time after the room was started.
Subscribe(r) ==
    /\ fwd[r]["redis"] = "starting"
    /\ fwd' = [fwd EXCEPT ![r]["redis"] = "idle"]
    /\ UNCHANGED <<loop, cancelled, members, inbox, held, feed, lastOut, clientVars,
                   otherVars>>

\* A forwarder takes a result and then sends it to the inbox, which may block it.
Take(r, s) ==
    /\ fwd[r][s] = "idle"
    /\ feed[r][s] # <<>>
    /\ fwd' = [fwd EXCEPT ![r][s] = "send"]
    /\ held' = [held EXCEPT ![r][s] = Head(feed[r][s])]
    /\ feed' = [feed EXCEPT ![r][s] = Tail(@)]
    /\ UNCHANGED <<loop, cancelled, members, inbox, lastOut, clientVars, otherVars>>

\* (Mutant of Put: it goes in front.)
PutFirst(r, s) ==
    /\ fwd[r][s] = "send"
    /\ Len(inbox[r]) < InboxCap
    /\ inbox' = [inbox EXCEPT ![r] = <<held[r][s]>> \o @]
    /\ held' = [held EXCEPT ![r][s] = 0]
    /\ fwd' = [fwd EXCEPT ![r][s] = "idle"]
    /\ UNCHANGED <<loop, cancelled, members, feed, lastOut, clientVars, otherVars>>

Put(r, s) ==
    /\ fwd[r][s] = "send"
    /\ Len(inbox[r]) < InboxCap
    /\ inbox' = [inbox EXCEPT ![r] = Append(@, held[r][s])]
    /\ held' = [held EXCEPT ![r][s] = 0]
    /\ fwd' = [fwd EXCEPT ![r][s] = "idle"]
    /\ UNCHANGED <<loop, cancelled, members, feed, lastOut, clientVars, otherVars>>

\* A forwarder sees the context done.
StopForwarder(r, s) ==
    /\ fwd[r][s] = "idle" /\ cancelled[r]
    /\ fwd' = [fwd EXCEPT ![r][s] = "done"]
    /\ UNCHANGED <<loop, cancelled, members, inbox, held, feed, lastOut, clientVars,
                   otherVars>>

\* PUBLISH reaches the subscriptions that there are.
PublishRedis ==
    /\ "redis" \in Via
    /\ published < MaxResults
    /\ published' = published + 1
    /\ feed' = [r \in Rooms |->
                   IF fwd[r]["redis"] \in {"idle", "send"}
                   THEN [feed[r] EXCEPT !["redis"] = Append(@, published + 1)] ELSE feed[r]]
    /\ UNCHANGED <<loop, cancelled, members, inbox, fwd, held, lastOut, clientVars,
                   hubRoom, timers, pubTo, notice, panicked>>

\* broadcastLocal: the channels are copied under subMu and served after it is released,
\* while other votes copy and serve them too.
CopySubscribers ==
    /\ "local" \in Via
    /\ published < MaxResults
    /\ published' = published + 1
    /\ pubTo' = pubTo \cup ({published + 1} \X {r \in Rooms : loop[r] = "running"})
    /\ UNCHANGED <<roomVars, clientVars, hubRoom, timers, notice, panicked>>

\* A full channel is skipped; a closed one panics, and the vote request fails.
SendLocal(m, r) ==
    /\ <<m, r>> \in pubTo
    /\ \/ /\ loop[r] = "running"
          /\ feed' = IF Len(feed[r]["local"]) < LocalCap
                     THEN [feed EXCEPT ![r]["local"] = Append(@, m)] ELSE feed
          /\ pubTo' = pubTo \ {<<m, r>>}
          /\ UNCHANGED panicked
       \/ /\ loop[r] = "done"
          /\ panicked' = panicked \cup {"publish"}
          /\ pubTo' = pubTo \ ({m} \X Rooms)
          /\ UNCHANGED feed
    /\ UNCHANGED <<loop, cancelled, members, inbox, fwd, held, lastOut, clientVars, hubRoom,
                   timers, published, notice>>

\* (Mutant of LookUpRoom: whether there is a room is not checked.)
LookUpRoomUnchecked(n) ==
    /\ notice[n] = "idle"
    /\ notice' = [notice EXCEPT ![n] = hubRoom]
    /\ UNCHANGED <<roomVars, clientVars, hubRoom, timers, published, pubTo, panicked>>

\* BroadcastPollStatus: the room is looked up under h.mu and sent to after that.
LookUpRoom(n) ==
    /\ notice[n] = "idle"
    /\ notice' = [notice EXCEPT ![n] = IF hubRoom = NoRoom THEN "done" ELSE hubRoom]
    /\ UNCHANGED <<roomVars, clientVars, hubRoom, timers, published, pubTo, panicked>>

SendStatus(n) ==
    LET r == notice[n] IN
    /\ r \in Rooms
    /\ Len(inbox[r]) < InboxCap
    /\ inbox' = [inbox EXCEPT ![r] = Append(@, 0)]
    /\ notice' = [notice EXCEPT ![n] = "done"]
    /\ UNCHANGED <<loop, cancelled, members, fwd, held, feed, lastOut, clientVars, hubRoom,
                   timers, published, pubTo, panicked>>

-----------------------------------------------------------------------------
(* client.go, and the page at the other end *)

\* WritePump puts all that is queued into one frame, separated by newlines.  The page
\* parses the frame as one JSON value (usePollLiveResults.js), so it takes only a frame
\* of one message.
Write(c) ==
    /\ writer[c] = "writing"
    /\ conn[c] = "open"
    /\ sendQ[c] # <<>>
    /\ latest' = [latest EXCEPT ![c] = IF Len(sendQ[c]) = 1 /\ Head(sendQ[c]) # 0
                                       THEN Head(sendQ[c]) ELSE @]
    /\ sendQ' = [sendQ EXCEPT ![c] = <<>>]
    /\ UNCHANGED <<roomVars, room, conn, reader, writer, initial, sendClosed,
                   handed, otherVars>>

\* WritePump ends at a closed and drained channel or a broken connection, and closes
\* the connection.
StopWriter(c) ==
    /\ writer[c] = "writing"
    /\ conn[c] = "closed" \/ (sendClosed[c] /\ sendQ[c] = <<>>)
    /\ writer' = [writer EXCEPT ![c] = "gone"]
    /\ conn' = [conn EXCEPT ![c] = "closed"]
    /\ UNCHANGED <<roomVars, room, reader, initial, sendQ, sendClosed, handed,
                   latest, otherVars>>

\* ReadPump ends when the connection is closed, and sends to room.Unregister.
StopReader(c) ==
    /\ reader[c] = "reading" /\ conn[c] = "closed"
    /\ reader' = [reader EXCEPT ![c] = "leaving"]
    /\ UNCHANGED <<roomVars, room, conn, writer, initial, sendQ, sendClosed, handed,
                   latest, otherVars>>

\* The viewer leaves, or the network does.
Disconnect(c) ==
    /\ conn[c] = "open"
    /\ conn' = [conn EXCEPT ![c] = "closed"]
    /\ UNCHANGED <<roomVars, room, reader, writer, initial, sendQ, sendClosed,
                   handed, latest, otherVars>>

-----------------------------------------------------------------------------

ClientStep(c) ==
    \/ Register(c) \/ FetchInitial(c) \/ SendInitial(c)
    \/ Unregister(c) \/ Write(c) \/ StopWriter(c) \/ StopReader(c)

RoomStep(r) ==
    \/ StartRoom(r) \/ Deliver(r) \/ StopRoom(r) \/ Subscribe(r)
    \/ \E m \in Results : SendLocal(m, r)
    \/ \E s \in Sources : Take(r, s) \/ Put(r, s) \/ StopForwarder(r, s)

\* A panic in a goroutine of the hub ends the process; gin recovers one in a request.
Running == panicked \subseteq {"publish"}

HubNext ==
    /\ Running
    /\ \/ \E c \in Clients : Join(c) \/ Disconnect(c) \/ ClientStep(c)
       \/ \E r \in Rooms : RoomStep(r)
       \/ Cleanup
       \/ PublishRedis \/ CopySubscribers
       \/ \E n \in Notices : LookUpRoom(n) \/ SendStatus(n)

HubSpec == HubInit /\ [][HubNext]_hubVars

\* Every goroutine that can take a step takes one: a select picks among its ready cases
\* at random, the senders that wait on a channel are served in turn, a sleeping timer
\* wakes up, and a write to a connection returns within its deadline.  Viewers need not come
\* or leave, and votes and status changes need not be.
HubFairness ==
    /\ \A c \in Clients :
          /\ WF_hubVars(Running /\ Register(c))
          /\ WF_hubVars(Running /\ (FetchInitial(c) \/ SendInitial(c)))
          /\ WF_hubVars(Running /\ (Write(c) \/ StopWriter(c)))
          /\ WF_hubVars(Running /\ (StopReader(c) \/ Unregister(c)))
    /\ \A r \in Rooms :
          /\ WF_hubVars(Running /\ (StartRoom(r) \/ StopRoom(r)))
          /\ WF_hubVars(Running /\ Deliver(r))
          /\ \A m \in Results : WF_hubVars(Running /\ SendLocal(m, r))
          /\ WF_hubVars(Running /\ Subscribe(r))
          /\ \A s \in Sources : WF_hubVars(Running /\ (Take(r, s) \/ Put(r, s)))
    /\ \A n \in Notices : WF_hubVars(Running /\ SendStatus(n))
    /\ WF_hubVars(Running /\ Cleanup)

FairHubSpec == HubSpec /\ HubFairness

-----------------------------------------------------------------------------

HubTypeOK ==
    /\ hubRoom \in Rooms \cup {NoRoom} /\ timers \in Nat
    /\ loop \in [Rooms -> {"none", "spawned", "running", "done"}]
    /\ cancelled \in [Rooms -> BOOLEAN]
    /\ members \in [Rooms -> SUBSET Clients]
    /\ inbox \in [Rooms -> Seq(Message)]
    /\ fwd \in [Rooms -> [Sources -> {"none", "starting", "idle", "send", "done"}]]
    /\ held \in [Rooms -> [Sources -> Message]]
    /\ feed \in [Rooms -> [Sources -> Seq(Message)]]
    /\ lastOut \in [Rooms -> Message]
    /\ room \in [Clients -> Rooms \cup {NoRoom}]
    /\ conn \in [Clients -> {"none", "register", "open", "closed"}]
    /\ reader \in [Clients -> {"none", "reading", "leaving", "gone"}]
    /\ writer \in [Clients -> {"none", "writing", "gone"}]
    /\ initial \in [Clients -> {"none", "fetch", "send", "sent", "failed"}]
    /\ sendQ \in [Clients -> Seq(Message)]
    /\ sendClosed \in [Clients -> BOOLEAN]
    /\ handed \in [Clients -> Message] /\ latest \in [Clients -> Message]
    /\ published \in Message /\ pubTo \subseteq Results \X Rooms
    /\ notice \in [Notices -> {"idle", "done"} \cup Rooms]
    /\ panicked \subseteq {"init", "cleanup", "publish"}

\* The loop sends to, and closes, only channels that are open: a client leaves the map
\* in the step that closes its channel, whether it left or was too slow, and belongs to
\* one room for good.
MembersCanReceive ==
    \A r \in Rooms : \A c \in members[r] : room[c] = r /\ ~sendClosed[c]

\* Viewers are never split over two rooms that both get results: of the rooms that were
\* created only the one that the hub has is not cancelled.
OneLiveRoom ==
    \A r \in Rooms : loop[r] # "none" /\ ~cancelled[r] <=> hubRoom = r

\* A viewer in a room has been handed every result that the loop has taken since it
\* came; one that cannot keep up is dropped, and never just misses a result.
NoSilentGap ==
    \A r \in Rooms : \A c \in members[r] : handed[c] = lastOut[r]

\* The results in a queue come in the order in which they were published.
InOrder(queue) ==
    \A i, j \in DOMAIN queue :
        i < j /\ queue[i] # 0 /\ queue[j] # 0 => queue[i] < queue[j]

\* Results published to Redis keep the order in which they were published, through the
\* forwarder, the inbox, the loop and the queue of every viewer, and none comes twice.
\* (Via is {"redis"}: local channels are served by many requests at once, in any order,
\* and a room that gets results by both ways gets them in any order too.)
OrderKept ==
    /\ \A r \in Rooms, s \in Sources :
          InOrder(<<lastOut[r]>> \o inbox[r] \o <<held[r][s]>> \o feed[r][s])
    /\ \A c \in Clients : InOrder(<<latest[c]>> \o sendQ[c])

\* No viewer, slow or gone, holds up the others: what a forwarder has for a room that is
\* in use gets into its inbox.
ResultsGetThrough ==
    \A r \in Rooms, s \in Sources :
        fwd[r][s] = "send" ~> fwd[r][s] # "send" \/ cancelled[r] \/ ~Running

\* A status change gets into the inbox of its room, however many results it competes
\* with: the request that changed the status (hub.go:205 sends in its goroutine) does
\* not hang, unless the room was removed meanwhile.
StatusGetsThrough ==
    \A n \in Notices, r \in Rooms :
        notice[n] = r ~> notice[n] = "done" \/ cancelled[r] \/ ~Running

-----------------------------------------------------------------------------
(* Statements of the README and of comments that do not hold. *)

\* hub.go:105, "Cleanup empty room after delay if nobody is watching": a room that was
\* removed has no viewer, and none that is about to come in.
CleanupSparesViewers ==
    \A r \in Rooms : cancelled[r] =>
        members[r] = {} /\ \A c \in Clients : room[c] = r => conn[c] # "register"

\* The same comment: the cleanup of a room does not stop the server.
CleanupNeverPanics == "cleanup" \notin panicked

\* The same comment: an empty room is removed after a while, or has a viewer again.
EmptyRoomsGo ==
    \A r \in Rooms : hubRoom = r /\ loop[r] = "running" ~> hubRoom # r \/ members[r] # {}

\* ws_handler.go:50, "Send immediate initial poll state to newly connected client": it
\* is sent, unless the viewer has left again.
InitialStateArrives == \A c \in Clients : initial[c] = "failed" => conn[c] # "open"

\* README.md:41, "seamless WebSocket connection handling": a viewer that leaves early
\* does not stop the server.
InitialNeverPanics == "init" \notin panicked

\* The last result in a queue, or else the given one.
LastResult(queue, default) ==
    LET results == SelectSeq(queue, LAMBDA m : m # 0) IN
    IF results = <<>> THEN default ELSE results[Len(results)]

\* README.md:64, "Everyone on the results page sees vote counts and percentage bars
\* animate in real-time": what was written to a page is shown by it.
PageShowsWritten ==
    [][\A c \in Clients :
          sendQ[c] # <<>> /\ sendQ'[c] = <<>> => latest'[c] = LastResult(sendQ[c], latest[c])
      ]_hubVars

\* vote_service.go:134, "Broadcast to local memory channels": a vote does not fail over
\* a viewer channel.
PublishNeverPanics == "publish" \notin panicked
=============================================================================
