---------------------------- MODULE LivePageProofs ----------------------------
(* Proofs about LivePage, for every value of its constants. *)
EXTENDS LivePage, SequenceTheorems, FiniteSetTheorems, TLAPS

Socket == [state : SocketStates, effect : 1 .. MaxEffects, poll : Polls]
Fetch  == [poll : Polls, answer : Result \cup {None}]
Toggle == [poll : Polls, isActive : BOOLEAN, served : BOOLEAN]
Update == [result : Result, for : Sockets \cup {None}]

\* The counts grow with the acts of the voters, which are bounded.
VotesFit == \A p \in Polls : votes[p] <= acts

TypeInv == LivePageTypeOK /\ VotesFit

(***************************************************************************)
(* What the operators make.                                                *)
(***************************************************************************)

LEMMA Bounds ==
    /\ MaxActs \in Nat /\ MaxFailures \in Nat
    /\ MaxSockets \in Nat /\ MaxSockets > 0 /\ MaxEffects \in Nat /\ MaxEffects > 0
<1>1. MaxActs \in {MaxActs, MaxFailures} /\ MaxFailures \in {MaxActs, MaxFailures}
  OBVIOUS
<1>2. MaxSockets \in {MaxSockets, MaxEffects} /\ MaxEffects \in {MaxSockets, MaxEffects}
  OBVIOUS
<1> QED BY <1>1, <1>2, LivePageAssumption

LEMMA CurrentType ==
    ASSUME LivePageTypeOK, NEW p \in Polls
    PROVE  Current(p) \in Result
BY DEF LivePageTypeOK, Current, Result

LEMMA StartFetchType ==
    ASSUME LivePageTypeOK, NEW p \in Polls, StartFetchIfRoom(p)
    PROVE  fetch' \in [Fetches -> Fetch \cup {None}]
<1>1. fetch \in [Fetches -> Fetch \cup {None}]
  BY DEF LivePageTypeOK, Fetch
<1>2. [poll |-> p, answer |-> None] \in Fetch
  BY DEF Fetch
<1> QED BY <1>1, <1>2 DEF StartFetchIfRoom, StartFetch

\* connectWs uses one socket that is new and touches no other.
LEMMA ConnectParts ==
    ASSUME NEW sockets \in [Sockets -> Socket], NEW e \in 1 .. MaxEffects, NEW p \in Polls,
           Connect(e, p, sockets)
    PROVE  /\ sock' \in [Sockets -> Socket] /\ wsRef' \in Sockets
           /\ sockets[wsRef'].state = "new"
           /\ sock'[wsRef'].state = "connecting" /\ sock'[wsRef'].effect = e
           /\ \A s \in Sockets : s # wsRef' => sock'[s] = sockets[s]
<1>1. PICK s \in Sockets :
        /\ sockets[s].state = "new"
        /\ sock' = [sockets EXCEPT ![s] = [state |-> "connecting", effect |-> e, poll |-> p]]
        /\ wsRef' = s
  BY DEF Connect
<1> DEFINE new == [state |-> "connecting", effect |-> e, poll |-> p]
<1>2. new \in Socket /\ new.state = "connecting" /\ new.effect = e
  BY DEF Socket, SocketStates
<1> HIDE DEF new
<1>3. sock' = [sockets EXCEPT ![s] = new]
  BY <1>1 DEF new
<1> QED BY <1>1, <1>2, <1>3

\* A socket goes to another state.
LEMMA MoveParts ==
    ASSUME sock \in [Sockets -> Socket], NEW s \in Sockets, NEW st \in SocketStates
    PROVE  /\ [sock EXCEPT ![s].state = st] \in [Sockets -> Socket]
           /\ [sock EXCEPT ![s].state = st][s].state = st
           /\ [sock EXCEPT ![s].state = st][s].effect = sock[s].effect
           /\ [sock EXCEPT ![s].state = st][s].poll = sock[s].poll
           /\ \A u \in Sockets \ {s} : [sock EXCEPT ![s].state = st][u] = sock[u]
<1> DEFINE new == [sock[s] EXCEPT !.state = st]
<1>1. sock[s] \in Socket
  OBVIOUS
<1>2. new \in Socket /\ new.state = st /\ new.effect = sock[s].effect /\ new.poll = sock[s].poll
  BY <1>1 DEF Socket
<1>3. [sock EXCEPT ![s].state = st] = [sock EXCEPT ![s] = new]
  OBVIOUS
<1> HIDE DEF new
<1> QED BY <1>2, <1>3

\* close() closes what wsRef refers to, if that is not closed yet.
LEMMA CloseParts ==
    ASSUME sock \in [Sockets -> Socket], wsRef \in Sockets
    PROVE  /\ CloseCurrent \in [Sockets -> Socket]
           /\ \A s \in Sockets \ {wsRef} : CloseCurrent[s] = sock[s]
           /\ CloseCurrent[wsRef].effect = sock[wsRef].effect
           /\ CloseCurrent[wsRef].poll = sock[wsRef].poll
           /\ CloseCurrent[wsRef].state = IF sock[wsRef].state \in {"connecting", "open"}
                                          THEN "closing" ELSE sock[wsRef].state
<1>1. "closing" \in SocketStates
  BY DEF SocketStates
<1>2. CASE wsRef # None /\ sock[wsRef].state \in {"connecting", "open"}
  BY <1>1, <1>2, MoveParts DEF CloseCurrent
<1>3. CASE ~(wsRef # None /\ sock[wsRef].state \in {"connecting", "open"})
  <2>1. wsRef # None
    BY LivePageAssumption DEF Sockets
  <2> QED BY <1>3, <2>1 DEF CloseCurrent
<1> QED BY <1>2, <1>3

LEMMA InboxesType ==
    ASSUME inbox \in [Sockets -> Seq(Message)], NEW sockets
    PROVE  InboxesOf(sockets) \in [Sockets -> Seq(Message)]
<1>1. <<>> \in Seq(Message)
  OBVIOUS
<1> QED BY <1>1 DEF InboxesOf

LEMMA ShownType ==
    ASSUME LivePageTypeOK, NEW m \in Message
    PROVE  Shown(m) \in Result \cup {None}
<1>1. CASE m \in [result : Result]
  BY <1>1 DEF Shown
<1>2. CASE m \in [isActive : BOOLEAN]
  <2>1. "result" \notin DOMAIN m /\ m.isActive \in BOOLEAN
    BY <1>2
  <2> QED BY <2>1 DEF Shown, LivePageTypeOK, Result
<1> QED BY <1>1, <1>2 DEF Message

LEMMA SetStatusType ==
    ASSUME LivePageTypeOK, NEW p \in Polls, NEW active \in BOOLEAN, SetStatus(p, active)
    PROVE  isActive' \in [Polls -> BOOLEAN] /\ inbox' \in [Sockets -> Seq(Message)]
<1>1. isActive' \in [Polls -> BOOLEAN]
  BY DEF SetStatus, LivePageTypeOK
<1>2. [isActive |-> active] \in Message
  BY DEF Message
<1>3. inbox \in [Sockets -> Seq(Message)]
  BY DEF LivePageTypeOK
<1> DEFINE m == [isActive |-> active]
<1>4. inbox' = [s \in Sockets |-> IF sock[s].state = "open" /\ sock[s].poll = p
                                  THEN Append(inbox[s], m) ELSE inbox[s]]
  BY DEF SetStatus
<1>5. \A s \in Sockets : inbox[s] \in Seq(Message) /\ Append(inbox[s], m) \in Seq(Message)
  BY <1>2, <1>3
<1> HIDE DEF m
<1> QED BY <1>1, <1>4, <1>5

(***************************************************************************)
(* Types.                                                                  *)
(***************************************************************************)

\* The view, the button and the requests.
ViewType ==
    /\ mounted \in BOOLEAN /\ pollId \in Polls
    /\ liveData \in Result \cup {None}
    /\ connectionStatus \in Statuses /\ error \in BOOLEAN
    /\ toggle \in Toggle \cup {None}
    /\ fetch \in [Fetches -> Fetch \cup {None}]

\* The sockets.
SocketType ==
    /\ effect \in 1 .. MaxEffects
    /\ sock \in [Sockets -> Socket]
    /\ wsRef \in Sockets /\ timerRef \in Sockets \cup {None} /\ timers \subseteq Sockets

\* The server and the bounds.
ServerType ==
    /\ inbox \in [Sockets -> Seq(Message)]
    /\ votes \in [Polls -> 0 .. MaxActs] /\ isActive \in [Polls -> BOOLEAN]
    /\ updates \subseteq Update
    /\ acts \in 0 .. MaxActs /\ failures \in 0 .. MaxFailures
    /\ VotesFit

LEMMA TypeParts == TypeInv <=> ViewType /\ SocketType /\ ServerType
BY DEF TypeInv, LivePageTypeOK, ViewType, SocketType, ServerType, Socket, Fetch, Toggle, Update

LEMMA NextParts == ViewType' /\ SocketType' /\ ServerType' => TypeInv'
BY DEF TypeInv, LivePageTypeOK, ViewType, SocketType, ServerType, Socket, Fetch, Toggle, Update

LEMMA InitTypes ==
    ASSUME LivePageInit
    PROVE  TypeInv
<1>1. ViewType
  <2>1. PICK f \in Fetches : fetch = [g \in Fetches |->
                IF g = f THEN [poll |-> pollId, answer |-> None] ELSE None]
    BY DEF LivePageInit
  <2>2. pollId \in Polls
    BY DEF LivePageInit
  <2>3. [poll |-> pollId, answer |-> None] \in Fetch
    BY <2>2 DEF Fetch
  <2>4. fetch \in [Fetches -> Fetch \cup {None}]
    BY <2>1, <2>3
  <2>5. liveData = None /\ connectionStatus = "connecting" /\ error = FALSE /\ toggle = None
        /\ mounted = TRUE
    BY DEF LivePageInit
  <2> QED BY <2>2, <2>4, <2>5 DEF ViewType, Statuses
<1>2. SocketType
  BY Bounds DEF LivePageInit, SocketType, Socket, SocketStates, Sockets
<1>3. ServerType
  <2>1. \A s \in Sockets : <<>> \in Seq(Message)
    OBVIOUS
  <2> QED BY <2>1, Bounds DEF LivePageInit, ServerType, VotesFit
<1> QED BY <1>1, <1>2, <1>3, TypeParts

LEMMA FetchTypes ==
    ASSUME TypeInv, NEW f \in Fetches, FetchStep(f)
    PROVE  TypeInv'
<1>1. ViewType /\ SocketType /\ ServerType /\ LivePageTypeOK
  BY TypeParts DEF TypeInv
<1>2. UNCHANGED <<mounted, pollId, effect, toggle, sockVars, serverVars, acts>>
  BY DEF FetchStep, ServeFetch, FetchSucceeds, FetchFails, viewVars
<1>3. fetch[f] \in Fetch
  BY <1>1 DEF FetchStep, ServeFetch, FetchSucceeds, FetchFails, ViewType
<1>4. ViewType'
  <2>1. CASE ServeFetch(f)
    <3> DEFINE new == [fetch[f] EXCEPT !.answer = Current(fetch[f].poll)]
    <3>1. new \in Fetch
      BY <1>1, <1>3, CurrentType DEF Fetch
    <3>2. fetch' = [fetch EXCEPT ![f] = new] /\ UNCHANGED viewVars
      BY <2>1 DEF ServeFetch
    <3> HIDE DEF new
    <3> QED BY <1>1, <1>2, <3>1, <3>2 DEF ViewType, viewVars
  <2>2. CASE FetchSucceeds(f)
    <3>1. fetch[f].answer \in Result
      BY <1>3, <2>2 DEF FetchSucceeds, Fetch
    <3> QED BY <1>1, <1>2, <2>2, <3>1 DEF FetchSucceeds, ViewType
  <2>3. CASE FetchFails(f)
    <3>1. error' \in BOOLEAN
      BY <2>3, Zenon DEF FetchFails
    <3> QED BY <1>1, <1>2, <2>3, <3>1 DEF FetchFails, ViewType
  <2> QED BY <2>1, <2>2, <2>3 DEF FetchStep
<1>5. failures' \in 0 .. MaxFailures
  BY <1>1, Bounds DEF FetchStep, ServeFetch, FetchSucceeds, FetchFails, ServerType
<1>6. SocketType' /\ ServerType'
  BY <1>1, <1>2, <1>5 DEF SocketType, ServerType, VotesFit, sockVars, serverVars
<1> QED BY <1>4, <1>6, NextParts

LEMMA SocketTypes ==
    ASSUME TypeInv, NEW s \in Sockets, SocketStep(s)
    PROVE  TypeInv'
<1>1. ViewType /\ SocketType /\ ServerType /\ LivePageTypeOK
  BY TypeParts DEF TypeInv
<1>2. /\ UNCHANGED <<mounted, pollId, effect, toggle, fetch, votes, isActive, acts, failures>>
      /\ \A u \in updates' : u \in updates \/ \E p \in Polls : u.result = Current(p) /\ u \in Update
  <2>1. sock[s].poll \in Polls
    BY <1>1 DEF SocketType, Socket
  <2>2. Current(sock[s].poll) \in Result
    BY <1>1, <2>1, CurrentType
  <2>3. [result |-> Current(sock[s].poll), for |-> s] \in Update
    BY <2>2 DEF Update
  <2> QED BY <2>1, <2>3 DEF SocketStep, OnOpen, OnMessage, Break, OnClose, Reconnect, viewVars, serverVars
<1>3. connectionStatus' \in Statuses /\ error' \in BOOLEAN
  BY <1>1 DEF SocketStep, OnOpen, OnMessage, Break, OnClose, Reconnect, viewVars, ViewType, Statuses
<1>4. liveData' \in Result \cup {None}
  <2>1. CASE OnMessage(s)
    <3>1. Head(inbox[s]) \in Message
      BY <1>1, <2>1 DEF OnMessage, ServerType
    <3> QED BY <1>1, <2>1, <3>1, ShownType DEF OnMessage, ViewType
  <2>2. CASE ~OnMessage(s)
    BY <1>1, <2>2 DEF SocketStep, OnOpen, Break, OnClose, Reconnect, viewVars, ViewType
  <2> QED BY <2>1, <2>2
<1>5. inbox' \in [Sockets -> Seq(Message)]
  <2>1. CASE OnMessage(s)
    <3>1. Tail(inbox[s]) \in Seq(Message) /\ <<>> \in Seq(Message)
      BY <1>1, <2>1 DEF OnMessage, ServerType
    <3> QED BY <1>1, <2>1, <3>1 DEF OnMessage, ServerType
  <2>2. CASE ~OnMessage(s)
    <3>1. <<>> \in Seq(Message)
      OBVIOUS
    <3> QED BY <1>1, <2>2, <3>1 DEF SocketStep, OnOpen, Break, OnClose, Reconnect, ServerType
  <2> QED BY <2>1, <2>2
<1>6. SocketType'
  <2>1. CASE OnOpen(s) \/ Break(s) \/ OnClose(s)
    <3>1. PICK st \in SocketStates : sock' = [sock EXCEPT ![s].state = st]
      BY <2>1 DEF OnOpen, Break, OnClose, SocketStates
    <3>2. sock' \in [Sockets -> Socket]
      BY <1>1, <3>1, MoveParts DEF SocketType
    <3>3. wsRef' = wsRef /\ timers' \subseteq timers \cup {s} /\ timerRef' \in {timerRef, s}
      BY <2>1 DEF OnOpen, Break, OnClose
    <3> QED BY <1>1, <1>2, <3>2, <3>3 DEF SocketType
  <2>2. CASE OnMessage(s)
    BY <1>1, <1>2, <2>2 DEF OnMessage, SocketType
  <2>3. CASE Reconnect(s)
    <3>1. timers' \subseteq timers /\ timerRef' = timerRef
      BY <2>3 DEF Reconnect
    <3>2. CASE mounted
      <4>1. Connect(sock[s].effect, sock[s].poll, sock)
        BY <2>3, <3>2 DEF Reconnect
      <4>2. sock[s].effect \in 1 .. MaxEffects /\ sock[s].poll \in Polls
        BY <1>1 DEF SocketType, Socket
      <4> QED BY <1>1, <1>2, <3>1, <4>1, <4>2, ConnectParts DEF SocketType
    <3>3. CASE ~mounted
      BY <1>1, <1>2, <2>3, <3>1, <3>3 DEF Reconnect, SocketType
    <3> QED BY <3>2, <3>3
  <2> QED BY <2>1, <2>2, <2>3 DEF SocketStep
<1>7. ViewType'
  BY <1>1, <1>2, <1>3, <1>4 DEF ViewType
<1>8. ServerType'
  BY <1>1, <1>2, <1>5 DEF ServerType, VotesFit
<1> QED BY <1>6, <1>7, <1>8, NextParts

LEMMA PageTypes ==
    ASSUME TypeInv, Tick \/ (\E p \in Polls : ChangePoll(p)) \/ Unmount \/ ToggleStatus \/ ToggleEnds
    PROVE  TypeInv'
<1>1. ViewType /\ SocketType /\ ServerType /\ LivePageTypeOK
  BY TypeParts DEF TypeInv
<1>2. sock \in [Sockets -> Socket] /\ wsRef \in Sockets /\ inbox \in [Sockets -> Seq(Message)]
  BY <1>1 DEF SocketType, ServerType
<1>3. CloseCurrent \in [Sockets -> Socket] /\ InboxesOf(CloseCurrent) \in [Sockets -> Seq(Message)]
  BY <1>2, CloseParts, InboxesType
<1>4. CASE Tick
  <2>1. StartFetchIfRoom(pollId) /\ pollId \in Polls
    BY <1>1, <1>4 DEF Tick, StartFetchIfRoom, ViewType
  <2>2. fetch' \in [Fetches -> Fetch \cup {None}]
    BY <1>1, <2>1, StartFetchType
  <2>3. ViewType' /\ SocketType' /\ ServerType'
    BY <1>1, <1>4, <2>2 DEF Tick, ViewType, SocketType, ServerType, VotesFit, viewVars, sockVars, serverVars
  <2> QED BY <2>3, NextParts
<1>5. ASSUME NEW p \in Polls, ChangePoll(p)
      PROVE  TypeInv'
  <2>1. fetch' \in [Fetches -> Fetch \cup {None}]
    BY <1>1, <1>5, StartFetchType DEF ChangePoll
  <2>2. effect' \in 1 .. MaxEffects /\ effect' = effect + 1
    BY <1>1, <1>5, Bounds DEF ChangePoll, SocketType
  <2>3. sock' \in [Sockets -> Socket] /\ wsRef' \in Sockets
    BY <1>3, <1>5, <2>2, ConnectParts DEF ChangePoll
  <2>4. ViewType'
    BY <1>1, <1>5, <2>1 DEF ChangePoll, ViewType, viewVars
  <2>5. SocketType'
    BY <1>1, <1>5, <2>2, <2>3 DEF ChangePoll, SocketType
  <2>6. ServerType'
    BY <1>1, <1>3, <1>5 DEF ChangePoll, ServerType, VotesFit, serverVars
  <2> QED BY <2>4, <2>5, <2>6, NextParts
<1>6. CASE Unmount
  <2>1. ViewType' /\ SocketType' /\ ServerType'
    BY <1>1, <1>3, <1>6 DEF Unmount, ViewType, SocketType, ServerType, VotesFit, viewVars, serverVars
  <2> QED BY <2>1, NextParts
<1>7. CASE ToggleStatus
  <2>1. (~liveData.isActive) \in BOOLEAN
    BY Zenon
  <2> DEFINE active == ~liveData.isActive
  <2>2. toggle' = [poll |-> pollId, isActive |-> active, served |-> FALSE]
    BY <1>7 DEF ToggleStatus
  <2> HIDE DEF active
  <2>3. toggle' \in Toggle
    BY <1>1, <2>1, <2>2 DEF active, Toggle, ViewType
  <2>4. ViewType' /\ SocketType'
    BY <1>1, <1>7, <2>3 DEF ToggleStatus, ViewType, SocketType, viewVars, sockVars
  <2>5. ServerType'
    <3>1. acts' \in 0 .. MaxActs /\ acts <= acts'
      BY <1>1, <1>7, Bounds DEF ToggleStatus, ServerType
    <3>2. votes' = votes /\ inbox' = inbox /\ updates' = updates /\ isActive' = isActive /\ failures' = failures
      BY <1>7 DEF ToggleStatus, serverVars, sockVars
    <3>3. VotesFit'
      BY <1>1, <3>1, <3>2 DEF ServerType, VotesFit
    <3> QED BY <1>1, <3>1, <3>2, <3>3 DEF ServerType
  <2> QED BY <2>4, <2>5, NextParts
<1>8. CASE ToggleEnds
  <2>1. fetch' \in [Fetches -> Fetch \cup {None}]
    <3>1. CASE UNCHANGED fetch
      BY <1>1, <3>1 DEF ViewType
    <3>2. CASE StartFetchIfRoom(toggle.poll)
      <4>1. toggle.poll \in Polls
        BY <1>1, <1>8 DEF ToggleEnds, ViewType, Toggle
      <4> QED BY <1>1, <3>2, <4>1, StartFetchType
    <3> QED BY <1>8, <3>1, <3>2 DEF ToggleEnds
  <2>2. ViewType' /\ SocketType' /\ ServerType'
    BY <1>1, <1>8, <2>1 DEF ToggleEnds, ViewType, SocketType, ServerType, VotesFit, viewVars, sockVars, serverVars
  <2> QED BY <2>2, NextParts
<1> QED BY <1>4, <1>5, <1>6, <1>7, <1>8

LEMMA ServerTypes ==
    ASSUME TypeInv, ServerStep
    PROVE  TypeInv'
<1>1. ViewType /\ SocketType /\ ServerType /\ LivePageTypeOK
  BY TypeParts DEF TypeInv
<1>2. CASE ServeToggle
  <2>1. toggle \in Toggle
    BY <1>1, <1>2 DEF ServeToggle, ViewType
  <2>2. toggle.poll \in Polls /\ toggle.isActive \in BOOLEAN /\ [toggle EXCEPT !.served = TRUE] \in Toggle
    BY <2>1 DEF Toggle
  <2>3. isActive' \in [Polls -> BOOLEAN] /\ inbox' \in [Sockets -> Seq(Message)]
    BY <1>1, <1>2, <2>2, SetStatusType DEF ServeToggle
  <2>4. ViewType' /\ SocketType' /\ ServerType'
    BY <1>1, <1>2, <2>2, <2>3 DEF ServeToggle, ViewType, SocketType, ServerType, VotesFit, viewVars
  <2> QED BY <2>4, NextParts
<1>3. ASSUME NEW p \in Polls, CountVote(p)
      PROVE  TypeInv'
  <2>1. votes[p] \in Nat /\ votes[p] <= acts /\ acts \in Nat /\ acts < MaxActs /\ acts' = acts + 1
    BY <1>1, <1>3, Bounds DEF CountVote, ServerType, VotesFit
  <2>2. votes[p] + 1 \in 0 .. MaxActs /\ votes[p] + 1 <= acts' /\ acts' \in 0 .. MaxActs
    BY <2>1, Bounds
  <2> DEFINE more == votes[p] + 1
             new == [result |-> [Current(p) EXCEPT !.votes = more], for |-> None]
  <2>3. votes' = [votes EXCEPT ![p] = more] /\ updates' = updates \cup {new}
    <3>1. [Current(p) EXCEPT !.votes = @ + 1] = [Current(p) EXCEPT !.votes = more]
      BY DEF Current
    <3> QED BY <1>3, <3>1 DEF CountVote
  <2> HIDE DEF more
  <2>4. new \in Update
    <3>1. Current(p) \in Result
      BY <1>1, CurrentType
    <3>2. [Current(p) EXCEPT !.votes = more] \in Result
      BY <2>2, <3>1 DEF more, Result
    <3> QED BY <3>2 DEF Update
  <2> HIDE DEF new
  <2>5. ViewType' /\ SocketType'
    BY <1>1, <1>3 DEF CountVote, ViewType, SocketType, viewVars, sockVars
  <2>6. votes' \in [Polls -> 0 .. MaxActs] /\ updates' \subseteq Update
    BY <1>1, <2>2, <2>3, <2>4 DEF ServerType, more
  <2>7. VotesFit'
    <3>1. ASSUME NEW q \in Polls
          PROVE  votes'[q] <= acts'
      <4>1. votes[q] \in Nat /\ votes[q] <= acts
        BY <1>1, Bounds DEF ServerType, VotesFit
      <4>2. CASE q = p
        BY <1>1, <2>2, <2>3, <4>2 DEF ServerType, more
      <4>3. CASE q # p
        <5>1. votes'[q] = votes[q]
          BY <1>1, <2>3, <4>3 DEF ServerType
        <5> QED BY <2>1, <4>1, <5>1
      <4> QED BY <4>2, <4>3
    <3> QED BY <3>1 DEF VotesFit
  <2>8. inbox' = inbox /\ isActive' = isActive /\ failures' = failures
    BY <1>3 DEF CountVote, sockVars
  <2>9. ServerType'
    BY <1>1, <2>2, <2>6, <2>7, <2>8 DEF ServerType
  <2> QED BY <2>5, <2>9, NextParts
<1>4. ASSUME NEW u \in updates, SendUpdate(u)
      PROVE  TypeInv'
  <2>1. [result |-> u.result] \in Message
    BY <1>1 DEF ServerType, Update, Message
  <2> DEFINE m == [result |-> u.result]
  <2>2. inbox' = [s \in Sockets |->
                   IF sock[s].state = "open" /\ sock[s].poll = u.result.poll /\ u.for \in {s, None}
                   THEN Append(inbox[s], m) ELSE inbox[s]]
    BY <1>4 DEF SendUpdate
  <2>3. \A s \in Sockets : inbox[s] \in Seq(Message) /\ Append(inbox[s], m) \in Seq(Message)
    BY <1>1, <2>1 DEF ServerType
  <2> HIDE DEF m
  <2>4. inbox' \in [Sockets -> Seq(Message)]
    BY <2>2, <2>3
  <2>5. ViewType' /\ SocketType' /\ ServerType'
    BY <1>1, <1>4, <2>4 DEF SendUpdate, ViewType, SocketType, ServerType, VotesFit, viewVars
  <2> QED BY <2>5, NextParts
<1>5. ASSUME NEW p \in Polls, OthersSetStatus(p)
      PROVE  TypeInv'
  <2> DEFINE active == ~isActive[p]
  <2>1. active \in BOOLEAN
    BY Zenon
  <2>2. SetStatus(p, active) \/ (isActive' = [isActive EXCEPT ![p] = active] /\ UNCHANGED inbox)
    BY <1>5 DEF OthersSetStatus
  <2> HIDE DEF active
  <2>3. isActive' \in [Polls -> BOOLEAN] /\ inbox' \in [Sockets -> Seq(Message)]
    BY <1>1, <2>1, <2>2, SetStatusType DEF ServerType
  <2>4. ViewType' /\ SocketType'
    BY <1>1, <1>5 DEF OthersSetStatus, ViewType, SocketType, viewVars
  <2>5. acts' \in 0 .. MaxActs /\ acts <= acts' /\ votes' = votes /\ updates' = updates /\ failures' = failures
    BY <1>1, <1>5, Bounds DEF OthersSetStatus, ServerType
  <2>6. VotesFit'
    BY <1>1, <2>5 DEF ServerType, VotesFit
  <2>7. ServerType'
    BY <1>1, <2>3, <2>5, <2>6 DEF ServerType
  <2> QED BY <2>4, <2>7, NextParts
<1> QED BY <1>2, <1>3, <1>4, <1>5 DEF ServerStep

LEMMA StepTypes ==
    ASSUME TypeInv, [LivePageNext]_livePageVars
    PROVE  TypeInv'
<1>1. CASE UNCHANGED livePageVars
  BY <1>1 DEF livePageVars, viewVars, sockVars, serverVars, TypeInv, LivePageTypeOK, VotesFit
<1> QED BY <1>1, FetchTypes, SocketTypes, PageTypes, ServerTypes DEF LivePageNext

(***************************************************************************)
(* Sockets and timers.                                                     *)
(***************************************************************************)

\* A socket that is not closed, or whose onclose is to connect again.
Way(s) == sock[s].state \in {"connecting", "open", "closing"} \/ s \in timers

\* Each effect has at most one way to a connection.
OneWay == \A s, u \in Sockets : Way(s) /\ Way(u) /\ sock[s].effect = sock[u].effect => s = u

WaysInv ==
    /\ OneWay
    /\ \A s \in timers : sock[s].state = "closed"
    /\ \A s \in Sockets : sock[s].effect <= effect
    /\ effect = 1 => Connected \subseteq {wsRef} /\ timers \subseteq {timerRef}

LEMMA InitWays ==
    ASSUME LivePageInit
    PROVE  WaysInv
<1>1. /\ sock = [s \in Sockets |-> [state |-> IF s = 1 THEN "connecting" ELSE "new",
                                    effect |-> 1, poll |-> pollId]]
      /\ timers = {} /\ effect = 1 /\ wsRef = 1
  BY DEF LivePageInit
<1>2. \A s \in Sockets : /\ sock[s].effect = 1
                         /\ sock[s].state = IF s = 1 THEN "connecting" ELSE "new"
  BY <1>1
<1>3. \A s \in Sockets : Way(s) => s = 1
  BY <1>1, <1>2 DEF Way
<1> QED BY <1>1, <1>2, <1>3 DEF WaysInv, OneWay, Connected

\* Where nothing of this changes.
LEMMA SameWays ==
    ASSUME WaysInv, UNCHANGED <<effect, sock, wsRef, timers, timerRef>>
    PROVE  WaysInv'
BY DEF WaysInv, OneWay, Way, Connected

\* What one step does to the sockets: they keep their effects, no way is added, and a
\* timer is set by the socket it belongs to.
LEMMA FewerWays ==
    ASSUME TypeInv, WaysInv, effect' = effect, wsRef' = wsRef,
           \A s \in Sockets : sock'[s].effect = sock[s].effect,
           \A s \in Sockets : Way(s)' => Way(s),
           \A s \in Sockets : s \in Connected' => s \in Connected,
           timers' \subseteq Sockets,
           \A s \in timers' : sock'[s].state = "closed",
           effect = 1 => timers' \subseteq {timerRef'}
    PROVE  WaysInv'
<1>1. OneWay'
  BY DEF WaysInv, OneWay
<1>2. \A s \in Sockets : sock'[s].effect <= effect'
  BY DEF WaysInv
<1>3. effect' = 1 => Connected' \subseteq {wsRef'} /\ timers' \subseteq {timerRef'}
  <2>1. Connected' \subseteq Connected
    BY DEF Connected
  <2> QED BY <2>1 DEF WaysInv
<1> QED BY <1>1, <1>2, <1>3 DEF WaysInv

LEMMA SocketStepWays ==
    ASSUME TypeInv, WaysInv, NEW s \in Sockets, SocketStep(s)
    PROVE  WaysInv'
<1>1. SocketType /\ TypeInv'
  BY TypeParts, SocketTypes DEF TypeInv
<1>2. effect' = effect
  BY DEF SocketStep, OnOpen, OnMessage, Break, OnClose, Reconnect
<1>3. CASE OnMessage(s)
  BY <1>3, SameWays DEF OnMessage
<1>4. CASE OnOpen(s)
  <2>1. sock' = [sock EXCEPT ![s].state = "open"] /\ sock[s].state = "connecting"
        /\ UNCHANGED <<wsRef, timers, timerRef>>
    BY <1>4 DEF OnOpen
  <2>2. /\ sock'[s].state = "open" /\ sock'[s].effect = sock[s].effect
        /\ \A u \in Sockets \ {s} : sock'[u] = sock[u]
    BY <1>1, <2>1, MoveParts DEF SocketType, SocketStates
  <2>3. s \notin timers
    BY <2>1 DEF WaysInv
  <2> QED BY <1>1, <1>2, <2>1, <2>2, <2>3, FewerWays DEF WaysInv, Way, Connected, SocketType
<1>5. CASE Break(s)
  <2>1. sock' = [sock EXCEPT ![s].state = "closing"] /\ sock[s].state \in {"connecting", "open"}
        /\ UNCHANGED <<wsRef, timers, timerRef>>
    BY <1>5 DEF Break
  <2>2. /\ sock'[s].state = "closing" /\ sock'[s].effect = sock[s].effect
        /\ \A u \in Sockets \ {s} : sock'[u] = sock[u]
    BY <1>1, <2>1, MoveParts DEF SocketType, SocketStates
  <2>3. s \notin timers
    BY <2>1 DEF WaysInv
  <2> QED BY <1>1, <1>2, <2>1, <2>2, <2>3, FewerWays DEF WaysInv, Way, Connected, SocketType
<1>6. CASE OnClose(s)
  <2>1. /\ sock' = [sock EXCEPT ![s].state = "closed"] /\ sock[s].state = "closing" /\ wsRef' = wsRef
        /\ \/ timers' = timers \cup {s} /\ timerRef' = s
           \/ UNCHANGED <<timers, timerRef>>
    BY <1>6 DEF OnClose
  <2>2. /\ sock'[s].state = "closed" /\ sock'[s].effect = sock[s].effect
        /\ \A u \in Sockets \ {s} : sock'[u] = sock[u]
    BY <1>1, <2>1, MoveParts DEF SocketType, SocketStates
  <2>3. s \notin timers /\ Way(s)
    BY <2>1 DEF WaysInv, Way
  <2>4. ASSUME effect = 1
        PROVE  timers' \subseteq {timerRef'}
    <3>1. \A u \in Sockets : sock[u].effect = 1
      <4>1. \A u \in Sockets : sock[u].effect \in 1 .. MaxEffects /\ sock[u].effect <= effect
        BY <1>1 DEF SocketType, Socket, WaysInv
      <4> QED BY <2>4, <4>1
    <3>2. timers = {}
      BY <1>1, <2>3, <3>1 DEF WaysInv, OneWay, Way, SocketType
    <3> QED BY <2>1, <3>2
  <2> QED BY <1>1, <1>2, <2>1, <2>2, <2>3, <2>4, FewerWays DEF WaysInv, Way, Connected, SocketType
<1>7. CASE Reconnect(s)
  <2>1. s \in timers /\ timers' = timers \ {s} /\ timerRef' = timerRef
    BY <1>7 DEF Reconnect
  <2>2. CASE ~mounted
    <3>1. sock' = sock /\ wsRef' = wsRef
      BY <1>7, <2>2 DEF Reconnect
    <3> QED BY <1>1, <1>2, <2>1, <3>1, FewerWays DEF WaysInv, Way, Connected, SocketType
  <2>3. CASE mounted
    <3> DEFINE e == sock[s].effect
               n == wsRef'
    <3>1. e \in 1 .. MaxEffects /\ sock[s].poll \in Polls /\ e <= effect /\ sock[s].state = "closed"
      BY <1>1, <2>1 DEF SocketType, Socket, WaysInv
    <3>2. /\ n \in Sockets /\ sock[n].state = "new"
          /\ sock'[n].state = "connecting" /\ sock'[n].effect = e
          /\ \A u \in Sockets : u # n => sock'[u] = sock[u]
      <4>1. Connect(sock[s].effect, sock[s].poll, sock)
        BY <1>7, <2>3 DEF Reconnect
      <4> QED BY <1>1, <3>1, <4>1, ConnectParts DEF SocketType
    <3> HIDE DEF e, n
    <3>3. n # s /\ n \notin timers /\ Way(s) /\ ~Way(n)
      BY <2>1, <3>1, <3>2 DEF Way, WaysInv
    <3>4. \A u \in Sockets : Way(u)' => u = n \/ (Way(u) /\ u # s /\ sock'[u].effect = sock[u].effect)
      BY <2>1, <3>1, <3>2 DEF Way
    <3>5. OneWay'
      BY <3>2, <3>3, <3>4 DEF OneWay, WaysInv, e
    <3>6. \A u \in timers' : sock'[u].state = "closed"
      BY <1>1, <2>1, <3>2, <3>3 DEF WaysInv, SocketType
    <3>7. \A u \in Sockets : sock'[u].effect <= effect'
      BY <1>2, <3>1, <3>2 DEF WaysInv
    <3>8. ASSUME effect' = 1
          PROVE  Connected' \subseteq {wsRef'} /\ timers' \subseteq {timerRef'}
      <4>1. \A u \in Sockets : sock[u].effect = 1
        <5>1. \A u \in Sockets : sock[u].effect \in 1 .. MaxEffects /\ sock[u].effect <= effect
          BY <1>1 DEF SocketType, Socket, WaysInv
        <5> QED BY <1>2, <3>8, <5>1
      <4>2. \A u \in Sockets : Way(u) => u = s
        BY <1>1, <2>1, <3>3, <4>1 DEF WaysInv, OneWay, SocketType
      <4>3. Connected' \subseteq {n}
        BY <3>2, <3>4, <4>2 DEF Connected, Way
      <4> QED BY <1>2, <2>1, <3>8, <4>3 DEF n, WaysInv
    <3> QED BY <3>5, <3>6, <3>7, <3>8 DEF WaysInv
  <2> QED BY <2>2, <2>3
<1> QED BY <1>3, <1>4, <1>5, <1>6, <1>7 DEF SocketStep

LEMMA PageStepWays ==
    ASSUME TypeInv, WaysInv,
           Tick \/ (\E p \in Polls : ChangePoll(p)) \/ Unmount \/ ToggleStatus \/ ToggleEnds
    PROVE  WaysInv'
<1>1. SocketType
  BY TypeParts
<1>2. CASE Tick \/ ToggleStatus \/ ToggleEnds
  BY <1>2, SameWays DEF Tick, ToggleStatus, ToggleEnds, sockVars
<1>3. /\ CloseCurrent \in [Sockets -> Socket]
      /\ \A s \in Sockets : /\ CloseCurrent[s].effect = sock[s].effect
                            /\ CloseCurrent[s].state = sock[s].state
                               \/ (/\ sock[s].state \in {"connecting", "open"}
                                   /\ CloseCurrent[s].state = "closing")
  <2>1. sock \in [Sockets -> Socket] /\ wsRef \in Sockets
    BY <1>1 DEF SocketType
  <2> QED BY <2>1, CloseParts
<1> DEFINE old == CloseCurrent
<1> HIDE DEF old
<1>4. CASE Unmount
  <2>1. sock' = old /\ timers' = timers \ {timerRef} /\ UNCHANGED <<effect, wsRef, timerRef>>
    BY <1>4 DEF Unmount, old
  <2> QED BY <1>1, <1>3, <2>1, FewerWays DEF WaysInv, Way, Connected, SocketType, old
<1>5. ASSUME NEW p \in Polls, ChangePoll(p)
      PROVE  WaysInv'
  <2> DEFINE e == effect + 1
             n == wsRef'
  <2>1. /\ effect < MaxEffects /\ effect' = e /\ timers' = timers \ {timerRef}
        /\ Connect(e, p, old)
    BY <1>5 DEF ChangePoll, old
  <2>2. e \in 1 .. MaxEffects /\ effect \in Nat /\ effect < e
    BY <1>1, <2>1, Bounds DEF SocketType
  <2>3. /\ n \in Sockets /\ old[n].state = "new"
        /\ sock'[n].state = "connecting" /\ sock'[n].effect = e
        /\ \A u \in Sockets : u # n => sock'[u] = old[u]
    BY <1>3, <2>1, <2>2, ConnectParts DEF old
  <2> HIDE DEF e, n
  <2>4. \A u \in Sockets : sock[u].effect \in Nat /\ sock[u].effect <= effect
    BY <1>1 DEF WaysInv, SocketType, Socket
  <2>5. sock[n].state = "new" /\ n \notin timers
    BY <1>3, <2>3 DEF old, WaysInv
  <2>6. \A u \in Sockets : Way(u)' => u = n \/ (Way(u) /\ u # n /\ sock'[u].effect = sock[u].effect)
    BY <1>3, <2>1, <2>3, <2>5 DEF Way, old
  <2>7. \A u \in Sockets : sock[u].effect # e
    BY <2>2, <2>4
  <2>8. OneWay'
    BY <2>3, <2>6, <2>7 DEF OneWay, WaysInv
  <2>9. \A u \in timers' : sock'[u].state = "closed"
    BY <1>1, <1>3, <2>1, <2>3, <2>5 DEF WaysInv, SocketType, old
  <2>10. \A u \in Sockets : sock'[u].effect <= effect'
    <3>1. ASSUME NEW u \in Sockets
          PROVE  sock'[u].effect = e \/ sock'[u].effect = sock[u].effect
      BY <1>3, <2>3 DEF old
    <3>2. \A u \in Sockets : sock[u].effect <= e
      BY <2>2, <2>4 DEF e
    <3> QED BY <2>1, <2>2, <3>1, <3>2
  <2>11. effect' # 1
    BY <1>1, <2>1 DEF SocketType, e
  <2> QED BY <2>8, <2>9, <2>10, <2>11 DEF WaysInv
<1> QED BY <1>2, <1>4, <1>5

LEMMA StepWays ==
    ASSUME TypeInv, WaysInv, [LivePageNext]_livePageVars
    PROVE  WaysInv'
<1>1. ASSUME NEW f \in Fetches, FetchStep(f)
      PROVE  WaysInv'
  BY <1>1, SameWays DEF FetchStep, ServeFetch, FetchSucceeds, FetchFails, sockVars
<1>2. CASE ServerStep
  BY <1>2, SameWays DEF ServerStep, ServeToggle, CountVote, SendUpdate, OthersSetStatus, sockVars
<1>3. CASE UNCHANGED livePageVars
  BY <1>3, SameWays DEF livePageVars, sockVars
<1> QED BY <1>1, <1>2, <1>3, SocketStepWays, PageStepWays DEF LivePageNext

\* Two sets of sockets that are one socket at most, and one set for timers.
LEMMA AtMostOne ==
    ASSUME TypeInv, WaysInv, effect = 1
    PROVE  Cardinality(Connected) + Cardinality(Closing) + Cardinality(timers) <= 1
<1>1. SocketType
  BY TypeParts
<1>2. \A s \in Sockets : sock[s].effect = 1
  <2>1. \A u \in Sockets : sock[u].effect \in 1 .. MaxEffects /\ sock[u].effect <= effect
    BY <1>1 DEF SocketType, Socket, WaysInv
  <2> QED BY <2>1
<1>3. \A s, u \in Sockets : Way(s) /\ Way(u) => s = u
  BY <1>2 DEF WaysInv, OneWay
<1>4. /\ Connected \cap Closing = {} /\ Connected \cap timers = {} /\ Closing \cap timers = {}
      /\ \A s \in Connected \cup Closing \cup timers : s \in Sockets /\ Way(s)
  BY <1>1 DEF Connected, Closing, WaysInv, Way, SocketType
<1>5. Cardinality({}) = 0 /\ \A s : Cardinality({s}) = 1
  BY FS_EmptySet, FS_Singleton
<1>6. CASE Connected \cup Closing \cup timers = {}
  <2>1. Connected = {} /\ Closing = {} /\ timers = {}
    BY <1>6
  <2> QED BY <1>5, <2>1
<1>7. CASE Connected \cup Closing \cup timers # {}
  <2>1. PICK s : s \in Connected \cup Closing \cup timers
    BY <1>7
  <2>2. \A u \in Connected \cup Closing \cup timers : u = s
    BY <1>3, <1>4, <2>1
  <2>3. \/ Connected = {s} /\ Closing = {} /\ timers = {}
        \/ Connected = {} /\ Closing = {s} /\ timers = {}
        \/ Connected = {} /\ Closing = {} /\ timers = {s}
    BY <1>4, <2>1, <2>2
  <2> QED BY <1>5, <2>3
<1> QED BY <1>6, <1>7

(***************************************************************************)
(* Theorems.                                                               *)
(***************************************************************************)

LEMMA LivePageInvariant == LivePageSpec => [](TypeInv /\ WaysInv)
<1>1. LivePageInit => TypeInv /\ WaysInv
  BY InitTypes, InitWays
<1>2. TypeInv /\ WaysInv /\ [LivePageNext]_livePageVars => (TypeInv /\ WaysInv)'
  BY StepTypes, StepWays
<1> QED BY <1>1, <1>2, PTL DEF LivePageSpec

\* The page has no data or a whole result, never a status without counts, and no counts
\* that more votes than were cast would give (the state of usePollLiveResults.js:4); what
\* its hook, the browser and the server hold keeps its shape.
THEOREM LivePageTypeCorrect == LivePageSpec => []LivePageTypeOK
<1>1. TypeInv => LivePageTypeOK
  BY DEF TypeInv
<1> QED BY <1>1, LivePageInvariant, PTL

\* Each poll that the page has shown keeps at most one socket or timer alive (connectWs
\* and its onclose, usePollLiveResults.js:35), however often the connection breaks: what
\* changing the poll may leave behind does not multiply.
THEOREM OneWayPerEffect == LivePageSpec => []OneWay
<1>1. WaysInv => OneWay
  BY DEF WaysInv
<1> QED BY <1>1, LivePageInvariant, PTL

\* Before the page shows another poll it has one connection at most, or one close or
\* one timer to get the next, and wsRef and reconnectTimeoutRef refer to it: the cleanup
\* (usePollLiveResults.js:99) finds all there is.
THEOREM OneConnectionOnly == LivePageSpec => []OneConnection
<1>1. TypeInv /\ WaysInv => OneConnection
  BY AtMostOne DEF WaysInv, OneConnection
<1> QED BY <1>1, LivePageInvariant, PTL

\* After the cleanup (usePollLiveResults.js:99) no answer, event or timer that is still
\* to come sets a state of the page, opens a socket or sets a timer.
THEOREM NothingHappensAfterUnmount == LivePageSpec => NothingAfterUnmount
<1> DEFINE Quiet == ~mounted => /\ UNCHANGED viewVars
                                /\ \A s \in Sockets : sock[s].state = "new" => sock'[s].state = "new"
                                /\ timers' \subseteq timers
<1>1. ASSUME TypeInv, [LivePageNext]_livePageVars, ~mounted
      PROVE  /\ UNCHANGED viewVars
             /\ \A s \in Sockets : sock[s].state = "new" => sock'[s].state = "new"
             /\ timers' \subseteq timers
  <2>1. ViewType /\ SocketType
    BY <1>1, TypeParts
  <2>2. CASE UNCHANGED livePageVars
    BY <2>2 DEF livePageVars, sockVars
  <2>3. ASSUME NEW f \in Fetches, FetchStep(f)
        PROVE  UNCHANGED <<viewVars, sockVars>>
    <3>1. error' = error /\ UNCHANGED <<liveData, connectionStatus, sockVars>>
      BY <1>1, <2>1, <2>3, Zenon DEF FetchStep, ServeFetch, FetchSucceeds, FetchFails, ViewType, viewVars
    <3> QED BY <3>1 DEF viewVars
  <2>4. ASSUME NEW s \in Sockets, SocketStep(s)
        PROVE  /\ UNCHANGED viewVars /\ timers' \subseteq timers
               /\ \A u \in Sockets : sock[u].state = "new" => sock'[u].state = "new"
    <3>1. UNCHANGED viewVars /\ timers' \subseteq timers
      BY <1>1, <2>4 DEF SocketStep, OnOpen, OnMessage, Break, OnClose, Reconnect, viewVars
    <3>2. CASE OnMessage(s) \/ Reconnect(s)
      BY <1>1, <3>1, <3>2 DEF OnMessage, Reconnect
    <3>3. CASE OnOpen(s) \/ Break(s) \/ OnClose(s)
      <4>1. PICK st \in SocketStates :
               sock' = [sock EXCEPT ![s].state = st] /\ sock[s].state # "new"
        BY <3>3 DEF OnOpen, Break, OnClose, SocketStates
      <4>2. \A u \in Sockets \ {s} : sock'[u] = sock[u]
        BY <2>1, <4>1, MoveParts DEF SocketType
      <4> QED BY <3>1, <4>1, <4>2
    <3> QED BY <2>4, <3>1, <3>2, <3>3 DEF SocketStep
  <2>5. CASE ToggleEnds \/ ServerStep
    BY <2>5 DEF ToggleEnds, ServerStep, ServeToggle, CountVote, SendUpdate, OthersSetStatus, sockVars
  <2>6. ~Tick /\ ~ToggleStatus /\ ~Unmount /\ \A p \in Polls : ~ChangePoll(p)
    BY <1>1 DEF Tick, ToggleStatus, Unmount, ChangePoll
  <2> QED BY <1>1, <2>2, <2>3, <2>4, <2>5, <2>6 DEF LivePageNext, sockVars
<1>2. TypeInv /\ [LivePageNext]_livePageVars => [Quiet]_livePageVars
  BY <1>1
<1> HIDE DEF Quiet
<1>3. LivePageSpec => [][Quiet]_livePageVars
  BY <1>2, LivePageInvariant, PTL DEF LivePageSpec
<1> QED BY <1>3 DEF NothingAfterUnmount, Quiet
===============================================================================
