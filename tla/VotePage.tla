------------------------------- MODULE VotePage -------------------------------
(***************************************************************************)
(* VotePage of frontend/src/pages/VotePage.jsx with the parts of           *)
(* services/api.js it uses: the tabs of one browser, on which polls are    *)
(* opened and voted on, over the routes GET /api/polls/:id and             *)
(* POST .../vote.                                                          *)
(*                                                                         *)
(* The tabs share localStorage: the fingerprint of the voter and a mark    *)
(* for each poll voted on.  A handler runs to its next await as one step;  *)
(* what comes after the await is a step of its own, with the variables     *)
(* its closure captured, and happens also when the page shows another      *)
(* poll by then, or nothing.  Every answer may get lost.                   *)
(*                                                                         *)
(* The server is external: what PollService and VoteService promise.       *)
(* Data abstractions: an option is its poll and its text; ids of options   *)
(* are random, so that those of two polls differ.  Titles, the confetti    *)
(* and the share dialog are left out.                                      *)
(***************************************************************************)
EXTENDS Naturals, FiniteSets

CONSTANTS
    Tabs,       \* tabs of the browser
    Polls,      \* poll ids that occur in an address
    Choices,    \* texts of options
    MaxVotes,   \* bound on the POST .../vote requests
    Prints,     \* fingerprints that Math.random may make up
    Networks,   \* IP addresses the browser may have
    MaxMoves,   \* bound on the addresses opened, over all tabs
    MaxActs,    \* bound on the status changes and deletions by owners
    None

ASSUME VotePageAssumption ==
    /\ None \notin Polls \cup Choices \cup Prints \cup Networks
    /\ "Selected Option" \notin Choices
    /\ {MaxVotes, MaxMoves, MaxActs} \subseteq Nat
    /\ Prints # {}

Requests == 1 .. MaxVotes

Option == [poll : Polls, text : Choices]
Text   == Choices \cup {"Selected Option"}

VARIABLES
    \* one record per tab: the props and the state of its VotePage
    page,       \* page[t], None while the tab does not show the page
    loads,      \* GET requests in flight
    req,        \* req[r]: a vote request, None before it is sent
    waiting,    \* vote requests whose answer the browser still awaits
    \* localStorage
    voted,      \* voted[p]: voted_poll_<p>, or None
    fp,         \* voter_fingerprint, or None
    \* the server
    server,     \* server[p]: "open", "closed" or "none"
    counted,    \* vote requests that were counted
    \* bounds
    moves, acts

pageVars   == <<page, loads>>
voteVars   == <<req, waiting>>
storeVars  == <<voted, fp>>
serverVars == <<server, counted>>
votePageVars == <<pageVars, voteVars, storeVars, serverVars, moves, acts>>

\* What the page keeps of an answer.
Answer == [id : Polls, isActive : BOOLEAN]

Page == [ pollId : Polls \cup {None},
          poll : Answer \cup {None},
          loading : BOOLEAN, error : BOOLEAN, submitting : BOOLEAN,
          selected : Option \cup {None},
          hasVoted : BOOLEAN, text : Text \cup {None},
          instance : 1 .. MaxMoves,     \* which mounting of the component this is
          moved : BOOLEAN ]             \* history: pollId has changed since

\* A GET request: its number, the component that waits for it, and its answer.
Load == [ number : 1 .. MaxMoves, tab : Tabs, instance : 1 .. MaxMoves, poll : Polls,
          answer : {"pending", "open", "closed", "none"} ]

\* A vote request: what was sent, what its closure captured, and how it went.
Ballot == [ tab : Tabs, instance : 1 .. MaxMoves, pollId : Polls, option : Option,
            shown : Polls, print : Prints,
            ip : Networks \cup {None}, state : {"sent", "counted", "refused"} ]

ASSUME NoneAssumption == None \notin Answer \cup Page \cup Ballot

-----------------------------------------------------------------------------
(* services/api.js *)

\* (Mutant of Fingerprint: what was made up is not kept.)
FingerprintForgotten == Prints

\* (Mutant of Fingerprint: what localStorage has is sent, also when it has none.)
FingerprintUnmade == {fp}

\* getVoterFingerprint: the one in localStorage, or a new one.
Fingerprint == IF fp = None THEN Prints ELSE {fp}

-----------------------------------------------------------------------------
(* Opening a poll *)

\* Which of the page's screens is rendered.
Screen(t) ==
    CASE page[t].loading                           -> "loading"
      [] ~page[t].loading /\ page[t].poll = None   ->
            IF page[t].error THEN "notfound" ELSE "crash"
      [] OTHER -> IF ~page[t].poll.isActive THEN "closed"
                  ELSE IF page[t].hasVoted THEN "thanks" ELSE "form"

\* The effect of pollId p: the page gets the mark that localStorage has, and is loading.
Opened(w, p) ==
    [w EXCEPT !.pollId = p,
              !.hasVoted = @ \/ (p # None /\ voted[p] # None),
              !.text = IF p # None /\ voted[p] # None THEN voted[p] ELSE @,
              !.loading = @ \/ p # None,
              !.error = @ /\ p = None]

\* A request of loadPoll.
NewLoad(t, instance, p) ==
    [number |-> moves + 1, tab |-> t, instance |-> instance, poll |-> p, answer |-> "pending"]

\* The effect that runs when pollId has become p, with loadPoll up to its await.
Effect(t, before, p) ==
    /\ moves < MaxMoves
    /\ moves' = moves + 1
    /\ page' = [page EXCEPT ![t] = Opened(before, p)]
    /\ IF p = None
       THEN UNCHANGED <<loads, fp>>
       ELSE /\ loads' = loads \cup {NewLoad(t, before.instance, p)}
            /\ fp' \in Fingerprint
    /\ UNCHANGED <<voteVars, voted, serverVars, acts>>

\* useState gives the first values.
NewPage(p) ==
    [pollId |-> p, poll |-> None, loading |-> TRUE, error |-> FALSE, submitting |-> FALSE,
     selected |-> None, hasVoted |-> FALSE, text |-> None, instance |-> moves + 1,
     moved |-> FALSE]

\* The page is mounted.
Mount(t, p) ==
    /\ page[t] = None
    /\ Effect(t, NewPage(p), p)

\* The browser goes back or forward to the vote page of another poll, and App gives
\* the same component another pollId.
ChangePoll(t, p) ==
    /\ page[t] # None
    /\ page[t].pollId # p
    /\ Effect(t, [page[t] EXCEPT !.moved = TRUE], p)

\* The page is left.  What GET answers change then is nothing, and they are dropped.
Unmount(t) ==
    /\ page[t] # None
    /\ page' = [page EXCEPT ![t] = None]
    /\ loads' = {l \in loads : l.tab # t}
    /\ UNCHANGED <<voteVars, storeVars, serverVars, moves, acts>>

\* GET /api/polls/:id is served.
ServeLoad(l) ==
    /\ l \in loads /\ l.answer = "pending"
    /\ loads' = (loads \ {l}) \cup {[l EXCEPT !.answer = server[l.poll]]}
    /\ UNCHANGED <<page, voteVars, storeVars, serverVars, moves, acts>>

\* A state update of a continuation: nothing when its component is gone.
Update(t, instance, new) ==
    page' = IF page[t] # None /\ page[t].instance = instance
            THEN [page EXCEPT ![t] = new] ELSE page

LoadSucceeds(l) ==
    /\ l \in loads /\ l.answer \in {"open", "closed"}
    /\ Update(l.tab, l.instance,
              [page[l.tab] EXCEPT !.poll = [id |-> l.poll, isActive |-> l.answer = "open"],
                                  !.loading = FALSE])
    /\ loads' = loads \ {l}
    /\ UNCHANGED <<voteVars, storeVars, serverVars, moves, acts>>

\* (Mutant of LoadFails: the message may be empty.)
LoadFailsQuietly(l) ==
    /\ l \in loads
    /\ Update(l.tab, l.instance, [page[l.tab] EXCEPT !.loading = FALSE])
    /\ loads' = loads \ {l}
    /\ UNCHANGED <<voteVars, storeVars, serverVars, moves, acts>>

\* (Mutant of LoadFails: setLoading(false) is left to the way of success.)
LoadFailsForever(l) ==
    /\ l \in loads
    /\ Update(l.tab, l.instance, [page[l.tab] EXCEPT !.error = TRUE])
    /\ loads' = loads \ {l}
    /\ UNCHANGED <<voteVars, storeVars, serverVars, moves, acts>>

\* There is no such poll, or no answer arrives: catch, then finally.
LoadFails(l) ==
    /\ l \in loads
    /\ Update(l.tab, l.instance, [page[l.tab] EXCEPT !.error = TRUE, !.loading = FALSE])
    /\ loads' = loads \ {l}
    /\ UNCHANGED <<voteVars, storeVars, serverVars, moves, acts>>

-----------------------------------------------------------------------------
(* Voting *)

Select(t, x) ==
    /\ page[t] # None /\ Screen(t) = "form"
    /\ page' = [page EXCEPT ![t].selected = [poll |-> page[t].poll.id, text |-> x]]
    /\ UNCHANGED <<loads, voteVars, storeVars, serverVars, moves, acts>>

\* What castVote sends, and what handleVoteSubmit will refer to.
NewBallot(t, print) ==
    [tab |-> t, instance |-> page[t].instance, pollId |-> page[t].pollId,
     option |-> page[t].selected, shown |-> page[t].poll.id, print |-> print,
     ip |-> None, state |-> "sent"]

\* (Mutant of Submit: the mark is set before the answer is there.)
SubmitMarking(t, r) ==
    /\ page[t] # None /\ Screen(t) = "form"
    /\ ~page[t].submitting /\ page[t].selected # None /\ page[t].pollId # None
    /\ req[r] = None /\ \A s \in Requests : s < r => req[s] # None
    /\ page' = [page EXCEPT ![t].submitting = TRUE, ![t].error = FALSE]
    /\ fp' \in Fingerprint
    /\ req' = [req EXCEPT ![r] = NewBallot(t, fp')]
    /\ waiting' = waiting \cup {r}
    /\ voted' = [voted EXCEPT ![page[t].pollId] = page[t].selected.text]
    /\ UNCHANGED <<loads, serverVars, moves, acts>>

\* handleVoteSubmit up to its await.  (Without a pollId the request is for the poll
\* "null", which there is not: such a submission only fails and is left out.)
Submit(t, r) ==
    /\ page[t] # None /\ Screen(t) = "form"
    /\ ~page[t].submitting /\ page[t].selected # None /\ page[t].pollId # None
    /\ req[r] = None /\ \A s \in Requests : s < r => req[s] # None
    /\ page' = [page EXCEPT ![t].submitting = TRUE, ![t].error = FALSE]
    /\ fp' \in Fingerprint
    /\ req' = [req EXCEPT ![r] = NewBallot(t, fp')]
    /\ waiting' = waiting \cup {r}
    /\ UNCHANGED <<loads, voted, serverVars, moves, acts>>

\* POST /api/polls/:id/vote is served, maybe after the browser has given up on it.  A
\* voter is a fingerprint at an address.
ServeVote(r) ==
    LET b == req[r]
        Valid(ip) == /\ server[b.pollId] = "open" /\ b.option.poll = b.pollId
                     /\ \A s \in counted : req[s].pollId = b.pollId
                                           => <<req[s].print, req[s].ip>> # <<b.print, ip>>
    IN
    /\ b # None /\ b.state = "sent"
    /\ \E ip \in Networks :
          IF Valid(ip)
          THEN /\ req' = [req EXCEPT ![r].state = "counted", ![r].ip = ip]
               /\ counted' = counted \cup {r}
          ELSE /\ req' = [req EXCEPT ![r].state = "refused"]
               /\ UNCHANGED counted
    /\ UNCHANGED <<pageVars, waiting, storeVars, server, moves, acts>>

\* The text of the option voted for, looked up in the poll on the page.
ChosenText(b) == IF b.option.poll = b.shown THEN b.option.text ELSE "Selected Option"

VoteSucceeds(r) ==
    LET b == req[r] IN
    /\ r \in waiting /\ b.state = "counted"
    /\ voted' = [voted EXCEPT ![b.pollId] = ChosenText(b)]
    /\ Update(b.tab, b.instance, [page[b.tab] EXCEPT !.hasVoted = TRUE,
                                                     !.text = ChosenText(b),
                                                     !.submitting = FALSE])
    /\ waiting' = waiting \ {r}
    /\ UNCHANGED <<loads, req, fp, serverVars, moves, acts>>

\* (Mutant of VoteFails: no finally.)
VoteFailsForever(r) ==
    LET b == req[r] IN
    /\ r \in waiting
    /\ Update(b.tab, b.instance, [page[b.tab] EXCEPT !.error = TRUE])
    /\ waiting' = waiting \ {r}
    /\ UNCHANGED <<loads, req, storeVars, serverVars, moves, acts>>

\* (Mutant of VoteFails: any refusal is taken for "already voted".)
VoteFailsAsVoted(r) ==
    LET b == req[r] IN
    /\ r \in waiting
    /\ Update(b.tab, b.instance, [page[b.tab] EXCEPT !.hasVoted = TRUE,
                                                     !.text = ChosenText(b),
                                                     !.submitting = FALSE])
    /\ waiting' = waiting \ {r}
    /\ UNCHANGED <<loads, req, storeVars, serverVars, moves, acts>>

\* The vote is refused, or no answer arrives, whatever the server does with it.
VoteFails(r) ==
    LET b == req[r] IN
    /\ r \in waiting
    /\ Update(b.tab, b.instance, [page[b.tab] EXCEPT !.error = TRUE, !.submitting = FALSE])
    /\ waiting' = waiting \ {r}
    /\ UNCHANGED <<loads, req, storeVars, serverVars, moves, acts>>

\* An owner closes, reopens or deletes a poll.
OwnerActs(p) ==
    /\ acts < MaxActs
    /\ server[p] # "none"
    /\ server' \in [Polls -> {"open", "closed", "none"}]
    /\ \A q \in Polls : server'[q] # server[q] <=> q = p
    /\ acts' = acts + 1
    /\ UNCHANGED <<pageVars, voteVars, storeVars, counted, moves>>

-----------------------------------------------------------------------------

VotePageInit ==
    /\ page = [t \in Tabs |-> None]
    /\ loads = {}
    /\ req = [r \in Requests |-> None]
    /\ waiting = {}
    /\ voted = [p \in Polls |-> None]
    /\ fp = None
    /\ server = [p \in Polls |-> "open"]
    /\ counted = {}
    /\ moves = 0 /\ acts = 0

LoadStep(l) == ServeLoad(l) \/ LoadSucceeds(l) \/ LoadFails(l)
VoteStep(r) == ServeVote(r) \/ VoteSucceeds(r) \/ VoteFails(r)

VotePageNext ==
    \/ \E t \in Tabs :
          \/ \E p \in Polls \cup {None} : Mount(t, p) \/ ChangePoll(t, p)
          \/ Unmount(t)
          \/ \E x \in Choices : Select(t, x)
          \/ \E r \in Requests : Submit(t, r)
    \/ \E l \in loads : LoadStep(l)
    \/ \E r \in Requests : VoteStep(r)
    \/ \E p \in Polls : OwnerActs(p)

VotePageSpec == VotePageInit /\ [][VotePageNext]_votePageVars

\* fetch settles: with the answer of the server, or because the connection failed.
\* Nothing obliges a voter to do anything.
VotePageFairness ==
    /\ \A r \in Requests : WF_votePageVars(VoteSucceeds(r) \/ VoteFails(r))
    /\ \A t \in Tabs, n \in 1 .. MaxMoves :
          WF_votePageVars(\E l \in loads : /\ l.tab = t /\ l.number = n
                                           /\ LoadSucceeds(l) \/ LoadFails(l))

FairVotePageSpec == VotePageSpec /\ VotePageFairness

-----------------------------------------------------------------------------

VotePageTypeOK ==
    /\ page \in [Tabs -> Page \cup {None}]
    /\ loads \subseteq Load
    /\ req \in [Requests -> Ballot \cup {None}]
    /\ waiting \subseteq Requests
    /\ voted \in [Polls -> Text \cup {None}]
    /\ fp \in Prints \cup {None}
    /\ server \in [Polls -> {"open", "closed", "none"}]
    /\ counted \subseteq Requests
    /\ moves \in 0 .. MaxMoves /\ acts \in 0 .. MaxActs

\* The page never renders a poll that is not there (poll.isActive of null ends React's
\* rendering), in whatever order answers for this and for earlier polls come and fail.
NeverCrashes == \A t \in Tabs : page[t] # None => Screen(t) # "crash"

\* However many tabs, retries after lost answers and requests that arrive late: the
\* votes of one browser on a poll are counted once while it keeps its IP address.
OneVotePerBrowser ==
    \A r, s \in counted : req[r].pollId = req[s].pollId /\ req[r].ip = req[s].ip => r = s

\* CountedFor(p, x): the vote of this browser on poll p was counted, and x names its
\* option (or is the text used when the option is not found on the page).
CountedFor(p, x) ==
    \E r \in counted : req[r].pollId = p /\ x \in {req[r].option.text, "Selected Option"}

\* A poll is marked as voted on in localStorage only if the vote was counted, for the
\* option the mark names: a mark that is wrong would keep the voter out for ever.
MarkMeansCounted == \A p \in Polls : voted[p] # None => CountedFor(p, voted[p])

\* A page that has shown one poll since it was mounted shows that poll, and says that
\* the vote is recorded only if it was counted, for the option it names.
ThanksMeansCounted ==
    \A t \in Tabs : page[t] # None /\ ~page[t].moved =>
        /\ page[t].poll # None => page[t].poll.id = page[t].pollId
        /\ Screen(t) = "thanks" => CountedFor(page[t].pollId, page[t].text)

\* A submission comes to an end: the button does not stay disabled.
SubmitEnds ==
    \A t \in Tabs : page[t] # None /\ page[t].submitting
                    ~> page[t] = None \/ ~page[t].submitting

\* A page that was given a poll does not stay at "Loading poll...".
LoadingEnds ==
    \A t \in Tabs : page[t] # None /\ page[t].pollId # None /\ page[t].loading
                    ~> page[t] = None \/ page[t].pollId = None \/ ~page[t].loading

-----------------------------------------------------------------------------
(* Statements of the page and of comments that do not hold. *)

\* VotePage.jsx:203, "Thank You! Your Vote is Recorded.": the vote on the poll of this
\* page was counted.
ThanksIsTrue ==
    \A t \in Tabs : page[t] # None /\ page[t].pollId # None /\ Screen(t) = "thanks"
                    => \E r \in counted : req[r].pollId = page[t].pollId

\* README.md:63, "Double voting is strictly prevented": also for a browser that changes
\* networks.
OneVoteAnywhere == \A r, s \in counted : req[r].pollId = req[s].pollId => r = s

\* VotePage.jsx:21, "Check if previously voted in this browser": when nothing is under
\* way, a poll the browser's vote was counted on is marked.
CountedMeansMarked ==
    waiting = {} => \A r \in counted : voted[req[r].pollId] # None
=============================================================================
