------------------------------- MODULE LivePage -------------------------------
(***************************************************************************)
(* The live results page: the hook usePollLiveResults of                   *)
(* frontend/src/hooks/usePollLiveResults.js and the part of                *)
(* frontend/src/pages/ResultsPage.jsx that shows and changes a poll, from  *)
(* the time the page is mounted until it is left.                          *)
(*                                                                         *)
(* Data come in two ways: GET .../results, once and every five seconds,    *)
(* and the messages of a WebSocket that is opened again when it closes.    *)
(* Nothing orders the two, nor the answers among themselves.  Each timer,  *)
(* answer and socket event is a step.                                      *)
(*                                                                         *)
(* An effect belongs to one value of pollId; when the browser goes back to *)
(* the results of another poll, App gives the same component another       *)
(* pollId, the effect is cleaned up and runs again.  All effects share     *)
(* isMountedRef, wsRef and reconnectTimeoutRef.                            *)
(*                                                                         *)
(* The server is external: the counts and the status of each poll, what    *)
(* Hub promises about messages (they may come late, and a connection may   *)
(* break at any time), and PollService's owner check.                      *)
(* Data abstractions: one number stands for the counts of a poll; times,   *)
(* titles, viewer counts and percentages are left out.                     *)
(***************************************************************************)
EXTENDS Naturals, Sequences, FiniteSets

CONSTANTS
    Polls,
    MaxSockets, \* bound on the WebSockets the page opens, one after the other
    Fetches,    \* a bound on the GET requests in flight at a time
    MaxActs,    \* bound on the votes and the status changes, of this page and of others
    MaxEffects, \* bound on the values of pollId, one after the other
    MaxFailures,\* bound on the GET requests that fail
    None

ASSUME LivePageAssumption ==
    /\ None \notin Polls \cup Nat
    /\ {MaxActs, MaxFailures} \subseteq Nat
    /\ {MaxSockets, MaxEffects} \subseteq Nat \ {0}

Sockets == 1 .. MaxSockets

Result == [poll : Polls, votes : 0 .. MaxActs, isActive : BOOLEAN]

\* A message is a result ("init" or "vote_update") or a status ("poll_closed" or
\* "poll_reopened").
Message == [result : Result] \cup [isActive : BOOLEAN]

VARIABLES
    \* the page
    mounted,    \* isMountedRef.current
    pollId,     \* the prop
    effect,     \* how many effects have run
    liveData,   \* the result on the page, or None
    connectionStatus,
    error,      \* whether an error message is set
    toggle,     \* the PATCH request of this page, or None; statusUpdating
    \* sockets and timers
    sock,       \* sock[s]: its state, and the effect and poll it was opened for
    inbox,      \* inbox[s]: messages sent by the server and not yet dispatched
    wsRef,      \* wsRef.current
    timers,     \* sockets whose onclose has set a timer that has yet to expire
    timerRef,   \* reconnectTimeoutRef.current
    \* requests
    fetch,      \* fetch[f]: a GET request in flight, or None
    \* the server
    votes, isActive,
    updates,    \* results computed and not yet sent: for a new socket, or for all (None)
    \* bounds
    acts, failures

viewVars   == <<liveData, connectionStatus, error>>
sockVars   == <<sock, inbox, wsRef, timers, timerRef>>
serverVars == <<votes, isActive, updates>>
livePageVars == <<mounted, pollId, effect, viewVars, toggle, sockVars, fetch, serverVars,
                  acts, failures>>

SocketStates == {"new", "connecting", "open", "closing", "closed"}
Statuses     == {"connecting", "connected", "reconnecting", "error"}

\* What GET .../results of poll p answers now.
Current(p) == [poll |-> p, votes |-> votes[p], isActive |-> isActive[p]]

-----------------------------------------------------------------------------
(* fetchInitialData *)

\* It is called when the effect of poll p starts, by its interval, and as refresh.
StartFetch(p) ==
    \E f \in Fetches :
        /\ fetch[f] = None
        /\ fetch' = [fetch EXCEPT ![f] = [poll |-> p, answer |-> None]]

\* As above, but not beyond the bound.
StartFetchIfRoom(p) ==
    \/ StartFetch(p)
    \/ (\A f \in Fetches : fetch[f] # None) /\ UNCHANGED fetch

\* (Mutant of Tick: the page relies on the socket alone.)
TickNever == FALSE /\ UNCHANGED livePageVars

\* The polling interval of the effect that runs now.
Tick ==
    /\ mounted
    /\ StartFetch(pollId)
    /\ UNCHANGED <<mounted, pollId, effect, viewVars, toggle, sockVars, serverVars,
                   acts, failures>>

ServeFetch(f) ==
    /\ fetch[f] # None /\ fetch[f].answer = None
    /\ fetch' = [fetch EXCEPT ![f].answer = Current(fetch[f].poll)]
    /\ UNCHANGED <<mounted, pollId, effect, viewVars, toggle, sockVars, serverVars,
                   acts, failures>>

\* (Mutant of FetchSucceeds: isMountedRef is not looked at.)
FetchSucceedsAnyway(f) ==
    /\ fetch[f] # None /\ fetch[f].answer # None
    /\ liveData' = fetch[f].answer
    /\ fetch' = [fetch EXCEPT ![f] = None]
    /\ UNCHANGED <<mounted, pollId, effect, connectionStatus, error, toggle, sockVars,
                   serverVars, acts, failures>>

\* Whatever poll the page is about by now, the data are shown.
FetchSucceeds(f) ==
    /\ fetch[f] # None /\ fetch[f].answer # None
    /\ liveData' = IF mounted THEN fetch[f].answer ELSE liveData
    /\ fetch' = [fetch EXCEPT ![f] = None]
    /\ UNCHANGED <<mounted, pollId, effect, connectionStatus, error, toggle, sockVars,
                   serverVars, acts, failures>>

FetchFails(f) ==
    /\ failures < MaxFailures
    /\ failures' = failures + 1
    /\ fetch[f] # None
    /\ error' = (mounted \/ error)
    /\ fetch' = [fetch EXCEPT ![f] = None]
    /\ UNCHANGED <<mounted, pollId, effect, liveData, connectionStatus, toggle, sockVars,
                   serverVars, acts>>

-----------------------------------------------------------------------------
(* The socket *)

\* connectWs of effect e for poll p: a new socket, which wsRef then refers to.  There
\* is nothing the page could do when all of Sockets are used.  A constructor that throws
\* (its catch sets the same timer) is a socket that breaks at once.
Connect(e, p, sockets) ==
    \E s \in Sockets :
        /\ sockets[s].state = "new" /\ \A u \in 1 .. s - 1 : sockets[u].state # "new"
        /\ sock' = [sockets EXCEPT ![s] = [state |-> "connecting", effect |-> e, poll |-> p]]
        /\ wsRef' = s

OnOpen(s) ==
    /\ sock[s].state = "connecting"
    /\ sock' = [sock EXCEPT ![s].state = "open"]
    /\ updates' = updates \cup {[result |-> Current(sock[s].poll), for |-> s]}
    /\ IF mounted
       THEN connectionStatus' = "connected" /\ error' = FALSE
       ELSE UNCHANGED <<connectionStatus, error>>
    /\ UNCHANGED <<mounted, pollId, effect, liveData, toggle, inbox, wsRef, timers,
                   timerRef, fetch, votes, isActive, acts, failures>>

\* (Mutant of Shown: a status is taken over although there are no data.)
ShownBlindly(m) ==
    IF "result" \in DOMAIN m THEN m.result
    ELSE IF liveData = None THEN m ELSE [liveData EXCEPT !.isActive = m.isActive]

\* What setLiveData makes of a message.
Shown(m) ==
    IF "result" \in DOMAIN m THEN m.result
    ELSE IF liveData = None THEN None ELSE [liveData EXCEPT !.isActive = m.isActive]

\* A frame that holds more than one message cannot be parsed and is dropped (the writer
\* of the server may put what has piled up into one frame); otherwise each is a frame.
OnMessage(s) ==
    /\ sock[s].state = "open" /\ inbox[s] # <<>>
    /\ \/ /\ inbox' = [inbox EXCEPT ![s] = Tail(@)]
          /\ liveData' = IF mounted THEN Shown(Head(inbox[s])) ELSE liveData
       \/ /\ Len(inbox[s]) > 1
          /\ inbox' = [inbox EXCEPT ![s] = <<>>]
          /\ UNCHANGED liveData
    /\ UNCHANGED <<mounted, pollId, effect, connectionStatus, error, toggle, sock, wsRef,
                   timers, timerRef, fetch, serverVars, acts, failures>>

\* The connection breaks or cannot be made, if the bound lets the page connect again;
\* onclose will follow, and onerror has come before it unless the server closed it.
Break(s) ==
    /\ sock[s].state \in {"connecting", "open"}
    /\ Cardinality({u \in Sockets : sock[u].state = "new"}) > MaxEffects - effect
    /\ sock' = [sock EXCEPT ![s].state = "closing"]
    /\ inbox' = [inbox EXCEPT ![s] = <<>>]
    /\ connectionStatus' \in {connectionStatus} \cup (IF mounted THEN {"error"} ELSE {})
    /\ UNCHANGED <<mounted, pollId, effect, liveData, error, toggle, wsRef, timers,
                   timerRef, fetch, serverVars, acts, failures>>

\* (Mutant of OnClose: the page connects at once and sets the timer as well.)
OnCloseTwice(s) ==
    /\ sock[s].state = "closing"
    /\ IF mounted
       THEN /\ connectionStatus' = "reconnecting"
            /\ timers' = timers \cup {s}
            /\ timerRef' = s
            /\ Connect(sock[s].effect, sock[s].poll, [sock EXCEPT ![s].state = "closed"])
       ELSE /\ sock' = [sock EXCEPT ![s].state = "closed"]
            /\ UNCHANGED <<connectionStatus, timers, timerRef, wsRef>>
    /\ updates' = {u \in updates : u.for # s}
    /\ UNCHANGED <<mounted, pollId, effect, liveData, error, toggle, inbox,
                   fetch, votes, isActive, acts, failures>>

\* onclose, of any socket that some effect opened: if the page is mounted, the effect
\* of that socket is to connect again after a while.
OnClose(s) ==
    /\ sock[s].state = "closing"
    /\ sock' = [sock EXCEPT ![s].state = "closed"]
    /\ IF mounted
       THEN /\ connectionStatus' = "reconnecting"
            /\ timers' = timers \cup {s}
            /\ timerRef' = s
       ELSE UNCHANGED <<connectionStatus, timers, timerRef>>
    /\ updates' = {u \in updates : u.for # s}
    /\ UNCHANGED <<mounted, pollId, effect, liveData, error, toggle, inbox, wsRef,
                   fetch, votes, isActive, acts, failures>>

\* The timer expires and connectWs runs again, for the poll of its effect.
Reconnect(s) ==
    /\ s \in timers
    /\ timers' = timers \ {s}
    /\ IF mounted
       THEN Connect(sock[s].effect, sock[s].poll, sock)
       ELSE UNCHANGED <<sock, wsRef>>
    /\ UNCHANGED <<mounted, pollId, effect, viewVars, toggle, inbox, timerRef, fetch,
                   serverVars, acts, failures>>

-----------------------------------------------------------------------------
(* The effect and its cleanup *)

\* (Mutant of CloseCurrent: the socket is left open.)
CloseNothing == sock

\* close() of the socket in wsRef; its onclose comes later.
CloseCurrent ==
    IF wsRef # None /\ sock[wsRef].state \in {"connecting", "open"}
    THEN [sock EXCEPT ![wsRef].state = "closing"] ELSE sock

InboxesOf(sockets) == [s \in Sockets |-> IF sockets[s].state = "open" THEN inbox[s] ELSE <<>>]

\* pollId becomes p: the cleanup of the effect, and the effect for p.  The cleanup
\* clears isMountedRef and the effect sets it again, before any onclose can come.
ChangePoll(p) ==
    /\ mounted /\ p # pollId
    /\ effect < MaxEffects
    /\ effect' = effect + 1
    /\ pollId' = p
    /\ StartFetchIfRoom(p)
    /\ timers' = timers \ {timerRef}
    /\ Connect(effect + 1, p, CloseCurrent)
    /\ inbox' = InboxesOf(CloseCurrent)
    /\ UNCHANGED <<mounted, viewVars, toggle, timerRef, serverVars, acts, failures>>

Unmount ==
    /\ mounted
    /\ mounted' = FALSE
    /\ timers' = timers \ {timerRef}
    /\ sock' = CloseCurrent
    /\ inbox' = InboxesOf(CloseCurrent)
    /\ UNCHANGED <<pollId, effect, viewVars, toggle, wsRef, timerRef, fetch, serverVars,
                   acts, failures>>

-----------------------------------------------------------------------------
(* The button that closes or reopens the poll *)

\* What the page renders.
Screen ==
    CASE liveData = None /\ connectionStatus = "connecting" -> "connecting"
      [] liveData = None /\ connectionStatus # "connecting" /\ error -> "notfound"
      [] OTHER -> "results"

\* handleToggleStatus up to its await; the button is disabled while one is under way.
ToggleStatus ==
    /\ mounted /\ Screen = "results" /\ liveData # None
    /\ toggle = None /\ acts < MaxActs
    /\ acts' = acts + 1
    /\ toggle' = [poll |-> pollId, isActive |-> ~liveData.isActive, served |-> FALSE]
    /\ UNCHANGED <<mounted, pollId, effect, viewVars, sockVars, fetch, serverVars,
                   failures>>

\* The status of p changes and every open socket of p is told.
SetStatus(p, active) ==
    /\ isActive' = [isActive EXCEPT ![p] = active]
    /\ inbox' = [s \in Sockets |-> IF sock[s].state = "open" /\ sock[s].poll = p
                                   THEN Append(inbox[s], [isActive |-> active])
                                   ELSE inbox[s]]

ServeToggle ==
    /\ toggle # None /\ ~toggle.served
    /\ SetStatus(toggle.poll, toggle.isActive)
    /\ toggle' = [toggle EXCEPT !.served = TRUE]
    /\ UNCHANGED <<mounted, pollId, effect, viewVars, sock, wsRef, timers, timerRef,
                   fetch, votes, updates, acts, failures>>

\* The rest of handleToggleStatus: refresh, or an alert when the user is not the owner
\* or no answer arrives.  refresh is that of the poll the button was pressed for.
ToggleEnds ==
    /\ toggle # None
    /\ toggle' = None
    /\ \/ toggle.served /\ StartFetchIfRoom(toggle.poll)
       \/ UNCHANGED fetch
    /\ UNCHANGED <<mounted, pollId, effect, viewVars, sockVars, serverVars,
                   acts, failures>>

-----------------------------------------------------------------------------
(* The server.  Its votes and changes are of interest while the page is there. *)

\* A vote is counted and its result computed, to be published later.
CountVote(p) ==
    /\ mounted /\ acts < MaxActs
    /\ acts' = acts + 1
    /\ votes' = [votes EXCEPT ![p] = @ + 1]
    /\ updates' = updates \cup {[result |-> [Current(p) EXCEPT !.votes = @ + 1], for |-> None]}
    /\ UNCHANGED <<mounted, pollId, effect, viewVars, toggle, sockVars, fetch, isActive,
                   failures>>

SendUpdate(u) ==
    /\ u \in updates
    /\ updates' = updates \ {u}
    /\ inbox' = [s \in Sockets |->
                   IF sock[s].state = "open" /\ sock[s].poll = u.result.poll /\ u.for \in {s, None}
                   THEN Append(inbox[s], [result |-> u.result]) ELSE inbox[s]]
    /\ UNCHANGED <<mounted, pollId, effect, viewVars, toggle, sock, wsRef, timers,
                   timerRef, fetch, votes, isActive, acts, failures>>

\* Another server process, if there is one, tells only those who are connected to it.
OthersSetStatus(p) ==
    /\ mounted /\ acts < MaxActs
    /\ acts' = acts + 1
    /\ \/ SetStatus(p, ~isActive[p])
       \/ isActive' = [isActive EXCEPT ![p] = ~@] /\ UNCHANGED inbox
    /\ UNCHANGED <<mounted, pollId, effect, viewVars, toggle, sock, wsRef, timers,
                   timerRef, fetch, votes, updates, failures>>

-----------------------------------------------------------------------------

\* The page has been mounted: its first effect has run.
LivePageInit ==
    /\ mounted = TRUE
    /\ pollId \in Polls
    /\ effect = 1
    /\ liveData = None /\ connectionStatus = "connecting" /\ error = FALSE
    /\ toggle = None
    /\ wsRef = 1
    /\ sock = [s \in Sockets |-> [state |-> IF s = 1 THEN "connecting" ELSE "new",
                                  effect |-> 1, poll |-> pollId]]
    /\ inbox = [s \in Sockets |-> <<>>]
    /\ timers = {} /\ timerRef = None
    /\ \E f \in Fetches : fetch = [g \in Fetches |->
                IF g = f THEN [poll |-> pollId, answer |-> None] ELSE None]
    /\ votes = [p \in Polls |-> 0]
    /\ isActive = [p \in Polls |-> TRUE]
    /\ updates = {}
    /\ acts = 0 /\ failures = 0

FetchStep(f)  == ServeFetch(f) \/ FetchSucceeds(f) \/ FetchFails(f)
SocketStep(s) == OnOpen(s) \/ OnMessage(s) \/ Break(s) \/ OnClose(s) \/ Reconnect(s)
ServerStep    == \/ ServeToggle
                 \/ \E p \in Polls : CountVote(p) \/ OthersSetStatus(p)
                 \/ \E u \in updates : SendUpdate(u)

LivePageNext ==
    \/ Tick
    \/ \E f \in Fetches : FetchStep(f)
    \/ \E s \in Sockets : SocketStep(s)
    \/ (\E p \in Polls : ChangePoll(p)) \/ Unmount
    \/ ToggleStatus \/ ToggleEnds
    \/ ServerStep

LivePageSpec == LivePageInit /\ [][LivePageNext]_livePageVars

\* Timers expire, requests are answered (but for MaxFailures of them), and the browser
\* dispatches the events of its sockets.  Sockets need not open or stay open, votes
\* need not be sent, and nobody has to press or to leave anything.
LivePageFairness ==
    /\ WF_livePageVars(Tick)
    /\ \A f \in Fetches : WF_livePageVars(ServeFetch(f)) /\ WF_livePageVars(FetchSucceeds(f))
    /\ \A s \in Sockets : /\ WF_livePageVars(OnMessage(s))
                          /\ WF_livePageVars(OnClose(s))
                          /\ WF_livePageVars(Reconnect(s))
    /\ WF_livePageVars(ToggleEnds)

FairLivePageSpec == LivePageSpec /\ LivePageFairness

-----------------------------------------------------------------------------

LivePageTypeOK ==
    /\ mounted \in BOOLEAN
    /\ pollId \in Polls
    /\ effect \in 1 .. MaxEffects
    /\ liveData \in Result \cup {None}
    /\ connectionStatus \in Statuses /\ error \in BOOLEAN
    /\ toggle \in [poll : Polls, isActive : BOOLEAN, served : BOOLEAN] \cup {None}
    /\ sock \in [Sockets -> [state : SocketStates, effect : 1 .. MaxEffects, poll : Polls]]
    /\ inbox \in [Sockets -> Seq(Message)]
    /\ wsRef \in Sockets /\ timerRef \in Sockets \cup {None}
    /\ timers \subseteq Sockets
    /\ fetch \in [Fetches -> [poll : Polls, answer : Result \cup {None}] \cup {None}]
    /\ votes \in [Polls -> 0 .. MaxActs] /\ isActive \in [Polls -> BOOLEAN]
    /\ updates \subseteq [result : Result, for : Sockets \cup {None}]
    /\ acts \in 0 .. MaxActs /\ failures \in 0 .. MaxFailures

Connected == {s \in Sockets : sock[s].state \in {"connecting", "open"}}
Closing   == {s \in Sockets : sock[s].state = "closing"}

\* While the page has shown one poll only, it never has two connections, nor two ways
\* to get one (a socket, a close still to come, a timer): a viewer counts once, and
\* wsRef and reconnectTimeoutRef are the ones to clean up.
OneConnection ==
    effect = 1 => /\ Cardinality(Connected) + Cardinality(Closing) + Cardinality(timers) <= 1
                  /\ Connected \subseteq {wsRef} /\ timers \subseteq {timerRef}

\* Once the page is left nothing of it goes on but to end: no state is set, no socket
\* opened, no timer set, whatever answers and events still come.
NothingAfterUnmount ==
    [][ ~mounted => /\ UNCHANGED viewVars
                    /\ \A s \in Sockets : sock[s].state = "new" => sock'[s].state = "new"
                    /\ timers' \subseteq timers ]_livePageVars

\* The socket of a page that has been left does not stay open, unless it has shown
\* another poll before.
SocketsEnd == (~mounted /\ effect = 1) ~> (Connected \cup Closing) = {}

\* The page comes to show what the server has: the counts and the status of the poll in
\* the address, whatever was lost, late, out of order or about another poll, and
\* also when no WebSocket can be opened.
Converges == <>[](mounted => liveData = Current(pollId))

-----------------------------------------------------------------------------
(* Statements of the README and of comments that do not hold. *)

\* README.md:64, "Everyone on the results page sees vote counts": the counts are those
\* of the poll the page is about.
ShowsItsPoll == mounted /\ liveData # None => liveData.poll = pollId

\* README.md:64, "animate in real-time": the page does not go back to older counts.
CountsNeverGoBack ==
    [][ (liveData # None /\ liveData'.poll = liveData.poll)
        => liveData.votes <= liveData'.votes ]_livePageVars
=============================================================================
