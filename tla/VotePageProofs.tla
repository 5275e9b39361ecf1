---------------------------- MODULE VotePageProofs ----------------------------
(* Proofs about VotePage, for every value of its constants. *)
EXTENDS VotePage, TLAPS

(***************************************************************************)
(* Type correctness.                                                       *)
(***************************************************************************)

LEMMA Bounds == MaxVotes \in Nat /\ MaxMoves \in Nat /\ MaxActs \in Nat
BY VotePageAssumption

LEMMA NoPrint == None \notin Prints
BY VotePageAssumption

\* The state updates of the page's handlers.
LEMMA UpdatedPages ==
    ASSUME NEW w \in Page
    PROVE  /\ [w EXCEPT !.moved = TRUE] \in Page
           /\ \A x \in Option : [w EXCEPT !.selected = x] \in Page
           /\ [w EXCEPT !.submitting = TRUE, !.error = FALSE] \in Page
           /\ \A poll \in Answer : [w EXCEPT !.poll = poll, !.loading = FALSE] \in Page
           /\ [w EXCEPT !.error = TRUE, !.loading = FALSE] \in Page
           /\ [w EXCEPT !.error = TRUE, !.submitting = FALSE] \in Page
           /\ \A x \in Text :
                 [w EXCEPT !.hasVoted = TRUE, !.text = x, !.submitting = FALSE] \in Page
BY DEF Page

LEMMA OpenedType ==
    ASSUME VotePageTypeOK, NEW w \in Page, NEW p \in Polls \cup {None}
    PROVE  Opened(w, p) \in Page
<1> DEFINE mark == p # None /\ voted[p] # None
           h == w.hasVoted \/ mark
           x == IF mark THEN voted[p] ELSE w.text
           l == w.loading \/ p # None
           e == w.error /\ p = None
<1>1. h \in BOOLEAN /\ l \in BOOLEAN /\ e \in BOOLEAN
  OBVIOUS
<1>2. x \in Text \cup {None}
  <2>1. w.text \in Text \cup {None}
    BY DEF Page
  <2>2. p # None => voted[p] \in Text \cup {None}
    BY DEF VotePageTypeOK
  <2> QED BY <2>1, <2>2
<1>3. Opened(w, p) = [w EXCEPT !.pollId = p, !.hasVoted = h, !.text = x, !.loading = l,
                               !.error = e]
  BY Zenon DEF Opened
<1> HIDE DEF h, x, l, e
<1>4. [w EXCEPT !.pollId = p, !.hasVoted = h, !.text = x, !.loading = l, !.error = e] \in Page
  BY <1>1, <1>2 DEF Page
<1> QED BY <1>3, <1>4

\* The fields of the page after the effect.
LEMMA OpenedFields ==
    ASSUME NEW w \in Page, NEW p
    PROVE  LET o == Opened(w, p)  mark == p # None /\ voted[p] # None IN
           /\ o.pollId = p /\ o.poll = w.poll
           /\ o.instance = w.instance /\ o.moved = w.moved
           /\ o.loading = (w.loading \/ p # None)
           /\ o.error = (w.error /\ p = None)
           /\ o.hasVoted => w.hasVoted \/ (mark /\ o.text = voted[p])
<1> DEFINE mark == p # None /\ voted[p] # None
           h == w.hasVoted \/ mark
           x == IF mark THEN voted[p] ELSE w.text
           l == w.loading \/ p # None
           e == w.error /\ p = None
           o == [w EXCEPT !.pollId = p, !.hasVoted = h, !.text = x, !.loading = l, !.error = e]
<1>1. Opened(w, p) = o
  BY Zenon DEF Opened
<1> HIDE DEF h, x, l, e
<1>2. /\ o.pollId = p /\ o.poll = w.poll /\ o.instance = w.instance /\ o.moved = w.moved
      /\ o.loading = l /\ o.error = e /\ o.hasVoted = h /\ o.text = x
  BY DEF Page
<1> HIDE DEF o
<1>3. h => w.hasVoted \/ (mark /\ x = voted[p])
  BY DEF h, x
<1> QED BY Zenon, <1>1, <1>2, <1>3 DEF l, e

LEMMA NewPageType ==
    ASSUME VotePageTypeOK, moves < MaxMoves, NEW p \in Polls \cup {None}
    PROVE  NewPage(p) \in Page
<1>1. moves + 1 \in 1 .. MaxMoves
  BY Bounds DEF VotePageTypeOK
<1> QED BY <1>1 DEF NewPage, Page

LEMMA EffectType ==
    ASSUME VotePageTypeOK, NEW t \in Tabs, NEW before \in Page, NEW p \in Polls \cup {None},
           Effect(t, before, p)
    PROVE  VotePageTypeOK'
<1>1. page' \in [Tabs -> Page \cup {None}]
  BY OpenedType DEF Effect, VotePageTypeOK
<1>2. moves' \in 1 .. MaxMoves /\ moves' = moves + 1
  <2>1. moves' = moves + 1 /\ moves < MaxMoves
    BY DEF Effect
  <2> QED BY <2>1, Bounds DEF VotePageTypeOK
<1>3. loads' \subseteq Load
  <2>1. before.instance \in 1 .. MaxMoves
    BY DEF Page
  <2> QED BY <1>2, <2>1 DEF Effect, NewLoad, Load, VotePageTypeOK
<1>4. fp' \in Prints \cup {None}
  BY DEF Effect, Fingerprint, VotePageTypeOK
<1> QED BY <1>1, <1>2, <1>3, <1>4 DEF Effect, voteVars, serverVars, VotePageTypeOK

\* What the screen says about the page.
LEMMA ScreenForm ==
    ASSUME NEW t \in Tabs, Screen(t) = "form"
    PROVE  ~page[t].loading /\ page[t].poll # None
BY Zenon DEF Screen

LEMMA UpdateType ==
    ASSUME VotePageTypeOK, NEW t \in Tabs, NEW i, NEW new,
           page[t] # None => new \in Page, Update(t, i, new)
    PROVE  page' \in [Tabs -> Page \cup {None}]
BY DEF VotePageTypeOK, Update

\* An answer is awaited of votes that were sent, and a vote knows whether it was counted.
VotesSent ==
    /\ \A r \in waiting : req[r] # None
    /\ \A r \in Requests : r \in counted <=> req[r] # None /\ req[r].state = "counted"

LEMMA NewBallotType ==
    ASSUME VotePageTypeOK, NEW t \in Tabs, NEW r \in Requests, Submit(t, r)
    PROVE  NewBallot(t, fp') \in Ballot
<1>1. page[t] \in Page /\ page[t].poll # None
  BY ScreenForm DEF Submit, VotePageTypeOK
<1>2. fp' \in Prints
  BY DEF Submit, Fingerprint, VotePageTypeOK
<1>3. page[t].selected # None /\ page[t].pollId # None
  BY DEF Submit
<1> QED BY <1>1, <1>2, <1>3 DEF NewBallot, Ballot, Page, Answer

LEMMA VotePageStepType ==
    ASSUME VotePageTypeOK, VotesSent, VotePageNext
    PROVE  VotePageTypeOK'
<1>1. ASSUME NEW t \in Tabs, NEW p \in Polls \cup {None}, Mount(t, p)
      PROVE  VotePageTypeOK'
  <2>1. Effect(t, NewPage(p), p)
    BY <1>1 DEF Mount
  <2> QED BY <2>1, NewPageType, EffectType DEF Effect
<1>2. ASSUME NEW t \in Tabs, NEW p \in Polls \cup {None}, ChangePoll(t, p)
      PROVE  VotePageTypeOK'
  <2>1. page[t] \in Page /\ Effect(t, [page[t] EXCEPT !.moved = TRUE], p)
    BY <1>2 DEF ChangePoll, VotePageTypeOK
  <2> QED BY <2>1, UpdatedPages, EffectType
<1>3. ASSUME NEW t \in Tabs, Unmount(t)
      PROVE  VotePageTypeOK'
  BY <1>3 DEF Unmount, VotePageTypeOK, voteVars, storeVars, serverVars
<1>4. ASSUME NEW t \in Tabs, NEW x \in Choices, Select(t, x)
      PROVE  VotePageTypeOK'
  <2>1. page[t] \in Page /\ page[t].poll # None
    BY <1>4, ScreenForm DEF Select, VotePageTypeOK
  <2>2. [poll |-> page[t].poll.id, text |-> x] \in Option
    BY <2>1 DEF Page, Answer, Option
  <2>3. [page[t] EXCEPT !.selected = [poll |-> page[t].poll.id, text |-> x]] \in Page
    BY <2>1, <2>2, UpdatedPages
  <2> QED BY <1>4, <2>3 DEF Select, VotePageTypeOK, voteVars, storeVars, serverVars
<1>5. ASSUME NEW t \in Tabs, NEW r \in Requests, Submit(t, r)
      PROVE  VotePageTypeOK'
  <2>1. page[t] \in Page
    BY <1>5 DEF Submit, VotePageTypeOK
  <2>2. [page[t] EXCEPT !.submitting = TRUE, !.error = FALSE] \in Page
    BY <2>1, UpdatedPages
  <2>3. fp' \in Prints
    BY <1>5 DEF Submit, Fingerprint, VotePageTypeOK
  <2>4. req' \in [Requests -> Ballot \cup {None}]
    BY <1>5, NewBallotType DEF Submit, VotePageTypeOK
  <2> QED BY <1>5, <2>2, <2>3, <2>4 DEF Submit, VotePageTypeOK, serverVars
<1>6. ASSUME NEW l \in loads, ServeLoad(l)
      PROVE  VotePageTypeOK'
  <2>1. l \in Load /\ server[l.poll] \in {"open", "closed", "none"}
    BY DEF VotePageTypeOK, Load
  <2>2. [l EXCEPT !.answer = server[l.poll]] \in Load
    BY <2>1 DEF Load
  <2> QED BY <1>6, <2>2 DEF ServeLoad, VotePageTypeOK, voteVars, storeVars, serverVars
<1>7. ASSUME NEW l \in loads, LoadSucceeds(l) \/ LoadFails(l)
      PROVE  VotePageTypeOK'
  <2>1. l \in Load /\ l.tab \in Tabs /\ l.poll \in Polls
    BY DEF VotePageTypeOK, Load
  <2>2. page[l.tab] # None => page[l.tab] \in Page
    BY <2>1 DEF VotePageTypeOK
  <2>3. page' \in [Tabs -> Page \cup {None}]
    <3>1. CASE LoadSucceeds(l)
      <4>1. [id |-> l.poll, isActive |-> l.answer = "open"] \in Answer
        BY <2>1 DEF Answer
      <4> QED BY <2>1, <2>2, <3>1, <4>1, UpdatedPages, UpdateType DEF LoadSucceeds
    <3>2. CASE LoadFails(l)
      BY <2>1, <2>2, <3>2, UpdatedPages, UpdateType DEF LoadFails
    <3> QED BY <1>7, <3>1, <3>2
  <2> QED BY <1>7, <2>3 DEF LoadSucceeds, LoadFails, VotePageTypeOK,
                            voteVars, storeVars, serverVars
<1>8. ASSUME NEW r \in Requests, ServeVote(r)
      PROVE  VotePageTypeOK'
  <2>1. req[r] \in Ballot
    BY <1>8 DEF ServeVote, VotePageTypeOK
  <2>2. /\ \A ip \in Networks : [req[r] EXCEPT !.state = "counted", !.ip = ip] \in Ballot
        /\ [req[r] EXCEPT !.state = "refused"] \in Ballot
    BY <2>1 DEF Ballot
  <2>3. \/ \E ip \in Networks :
              req' = [req EXCEPT ![r] = [req[r] EXCEPT !.state = "counted", !.ip = ip]]
        \/ req' = [req EXCEPT ![r] = [req[r] EXCEPT !.state = "refused"]]
    BY <1>8 DEF ServeVote, VotePageTypeOK
  <2>4. req' \in [Requests -> Ballot \cup {None}]
    BY <2>2, <2>3 DEF VotePageTypeOK
  <2>5. counted' \subseteq Requests
    BY <1>8 DEF ServeVote, VotePageTypeOK
  <2> QED BY <1>8, <2>4, <2>5 DEF ServeVote, VotePageTypeOK, pageVars, storeVars
<1>9. ASSUME NEW r \in Requests, VoteSucceeds(r)
      PROVE  VotePageTypeOK'
  <2>1. req[r] \in Ballot
    BY <1>9 DEF VoteSucceeds, VotesSent, VotePageTypeOK
  <2>2. /\ req[r].tab \in Tabs /\ req[r].pollId \in Polls
        /\ ChosenText(req[r]) \in Text
    BY <2>1 DEF Ballot, ChosenText, Text, Option
  <2>3. page[req[r].tab] # None => page[req[r].tab] \in Page
    BY <2>2 DEF VotePageTypeOK
  <2>4. page' \in [Tabs -> Page \cup {None}]
    BY <1>9, <2>2, <2>3, UpdatedPages, UpdateType DEF VoteSucceeds
  <2>5. voted' \in [Polls -> Text \cup {None}]
    BY <1>9, <2>2 DEF VoteSucceeds, VotePageTypeOK
  <2> QED BY <1>9, <2>4, <2>5 DEF VoteSucceeds, VotePageTypeOK, serverVars
<1>10. ASSUME NEW r \in Requests, VoteFails(r)
       PROVE  VotePageTypeOK'
  <2>1. req[r] \in Ballot
    BY <1>10 DEF VoteFails, VotesSent, VotePageTypeOK
  <2>2. req[r].tab \in Tabs
    BY <2>1 DEF Ballot
  <2>3. page[req[r].tab] # None => page[req[r].tab] \in Page
    BY <2>2 DEF VotePageTypeOK
  <2>4. page' \in [Tabs -> Page \cup {None}]
    BY <1>10, <2>2, <2>3, UpdatedPages, UpdateType DEF VoteFails
  <2> QED BY <1>10, <2>4 DEF VoteFails, VotePageTypeOK, storeVars, serverVars
<1>11. ASSUME NEW p \in Polls, OwnerActs(p)
       PROVE  VotePageTypeOK'
  <2>1. acts' \in 0 .. MaxActs
    <3>1. acts < MaxActs /\ acts' = acts + 1
      BY <1>11 DEF OwnerActs
    <3> QED BY <3>1, Bounds DEF VotePageTypeOK
  <2> QED BY <1>11, <2>1 DEF OwnerActs, VotePageTypeOK, pageVars, voteVars, storeVars
<1> QED BY <1>1, <1>2, <1>3, <1>4, <1>5, <1>6, <1>7, <1>8, <1>9, <1>10, <1>11
        DEF VotePageNext, LoadStep, VoteStep

\* The page of a browser that has a fingerprint keeps it.
LEMMA PrintKept ==
    ASSUME VotePageTypeOK, VotePageNext
    PROVE  fp # None => fp' = fp
BY DEF VotePageNext, LoadStep, VoteStep, Mount, ChangePoll, Effect, Fingerprint, Unmount, Select,
       Submit, ServeLoad, LoadSucceeds, LoadFails, ServeVote, VoteSucceeds, VoteFails, OwnerActs,
       storeVars

\* Votes are sent once and keep what they carry; one that is counted stays as it is.
BallotsKept ==
    /\ \A r \in Requests : req[r] # None =>
          /\ req'[r] # None
          /\ req'[r].tab = req[r].tab /\ req'[r].instance = req[r].instance
          /\ req'[r].pollId = req[r].pollId /\ req'[r].option = req[r].option
          /\ req'[r].shown = req[r].shown /\ req'[r].print = req[r].print
          /\ r \in counted => req'[r] = req[r]
    /\ counted \subseteq counted'

LEMMA SubmitKeeps ==
    ASSUME VotePageTypeOK, VotesSent, NEW t \in Tabs, NEW r \in Requests, Submit(t, r)
    PROVE  /\ BallotsKept /\ VotesSent'
           /\ counted' = counted /\ req'[r] = NewBallot(t, fp')
           /\ \A s \in Requests \ {r} : req'[s] = req[s]
<1>1. /\ req' = [req EXCEPT ![r] = NewBallot(t, fp')] /\ req[r] = None
      /\ waiting' = waiting \cup {r} /\ counted' = counted
  BY DEF Submit, serverVars
<1>2. /\ \A s \in Requests \ {r} : req'[s] = req[s]
      /\ req'[r] = NewBallot(t, fp')
  BY <1>1 DEF VotePageTypeOK
<1>3. NewBallot(t, fp') # None /\ NewBallot(t, fp').state = "sent"
  BY NewBallotType, NoneAssumption DEF NewBallot
<1> QED BY <1>1, <1>2, <1>3 DEF BallotsKept, VotesSent, VotePageTypeOK

\* ServeVote either counts vote r, which has no rival from address ip, or refuses it.
LEMMA ServeVoteOutcome ==
    ASSUME VotePageTypeOK, NEW r \in Requests, ServeVote(r)
    PROVE  /\ req[r] \in Ballot /\ req[r] # None /\ req[r].state = "sent"
           /\ waiting' = waiting
           /\ \A s \in Requests \ {r} : req'[s] = req[s]
           /\ \E ip \in Networks :
                 \/ /\ req'[r] = [req[r] EXCEPT !.state = "counted", !.ip = ip]
                    /\ counted' = counted \cup {r}
                    /\ \A s \in counted : req[s].pollId = req[r].pollId
                                          => <<req[s].print, req[s].ip>> # <<req[r].print, ip>>
                 \/ /\ req'[r] = [req[r] EXCEPT !.state = "refused"]
                    /\ counted' = counted
BY DEF ServeVote, VotePageTypeOK

LEMMA ServeVoteKeeps ==
    ASSUME VotePageTypeOK, VotesSent, NEW r \in Requests, ServeVote(r)
    PROVE  BallotsKept /\ VotesSent'
<1>1. PICK ip \in Networks :
         \/ /\ req'[r] = [req[r] EXCEPT !.state = "counted", !.ip = ip]
            /\ counted' = counted \cup {r}
         \/ /\ req'[r] = [req[r] EXCEPT !.state = "refused"]
            /\ counted' = counted
  BY ServeVoteOutcome
<1>2. req[r] \in Ballot
  BY ServeVoteOutcome
<1>3. req'[r] # None
  <2>1. req'[r] \in Ballot
    BY <1>1, <1>2 DEF Ballot
  <2> QED BY <2>1, NoneAssumption
<1>4. /\ req'[r].tab = req[r].tab /\ req'[r].instance = req[r].instance
      /\ req'[r].pollId = req[r].pollId /\ req'[r].option = req[r].option
      /\ req'[r].shown = req[r].shown /\ req'[r].print = req[r].print
  BY <1>1, <1>2 DEF Ballot
<1>5. \/ req'[r].state = "counted" /\ counted' = counted \cup {r}
      \/ req'[r].state = "refused" /\ counted' = counted
  BY <1>1, <1>2 DEF Ballot
<1>6. r \notin counted /\ waiting' = waiting /\ \A s \in Requests \ {r} : req'[s] = req[s]
  BY ServeVoteOutcome DEF VotesSent
<1> QED BY <1>3, <1>4, <1>5, <1>6 DEF BallotsKept, VotesSent, VotePageTypeOK

LEMMA VotesAreKept ==
    ASSUME VotePageTypeOK, VotesSent, VotePageNext
    PROVE  BallotsKept /\ VotesSent'
<1>1. ASSUME UNCHANGED <<req, counted>>, waiting' \subseteq waiting
      PROVE  BallotsKept /\ VotesSent'
  BY <1>1 DEF BallotsKept, VotesSent
<1>2. \/ \E t \in Tabs, r \in Requests : Submit(t, r)
      \/ \E r \in Requests : ServeVote(r)
      \/ UNCHANGED <<req, counted>> /\ waiting' \subseteq waiting
  BY DEF VotePageNext, LoadStep, VoteStep, Mount, ChangePoll, Effect, Unmount, Select,
         ServeLoad, LoadSucceeds, LoadFails, VoteSucceeds, VoteFails, OwnerActs,
         voteVars, serverVars
<1> QED BY <1>1, <1>2, SubmitKeeps, ServeVoteKeeps

\* The votes of this browser carry the fingerprint that it has.
PrintsAgree == \A r \in Requests : req[r] # None => fp # None /\ req[r].print = fp

\* Two votes on one poll from one address would carry the same voter, which ServeVote
\* does not count twice.
LEMMA OneVoteStep ==
    ASSUME VotePageTypeOK, VotesSent, PrintsAgree, OneVotePerBrowser, VotePageNext
    PROVE  PrintsAgree' /\ OneVotePerBrowser'
<1>1. PrintsAgree'
  <2>1. ASSUME NEW t \in Tabs, NEW r \in Requests, Submit(t, r)
        PROVE  PrintsAgree'
    <3>1. fp' # None
      <4>1. fp' \in Prints
        BY <2>1 DEF Submit, Fingerprint, VotePageTypeOK
      <4> QED BY <4>1, NoPrint
    <3>2. req'[r].print = fp' /\ \A s \in Requests \ {r} : req'[s] = req[s]
      <4>1. NewBallot(t, fp').print = fp'
        BY DEF NewBallot
      <4> QED BY <2>1, <4>1, SubmitKeeps
    <3> QED BY <3>1, <3>2, PrintKept DEF PrintsAgree
  <2>2. ASSUME \A r \in Requests : req'[r] # None => req[r] # None
        PROVE  PrintsAgree'
    BY <2>2, PrintKept, VotesAreKept DEF PrintsAgree, BallotsKept
  <2>3. ASSUME NEW r \in Requests, ServeVote(r)
        PROVE  \A s \in Requests : req'[s] # None => req[s] # None
    BY <2>3, ServeVoteOutcome
  <2>4. \/ \E t \in Tabs, r \in Requests : Submit(t, r)
        \/ \E r \in Requests : ServeVote(r)
        \/ UNCHANGED req
    BY DEF VotePageNext, LoadStep, VoteStep, Mount, ChangePoll, Effect, Unmount, Select,
           ServeLoad, LoadSucceeds, LoadFails, VoteSucceeds, VoteFails, OwnerActs, voteVars
  <2> QED BY <2>1, <2>2, <2>3, <2>4
<1>2. OneVotePerBrowser'
  <2>1. ASSUME counted' = counted
        PROVE  OneVotePerBrowser'
    <3>1. \A r \in counted : r \in Requests /\ req'[r] = req[r]
      BY VotesAreKept DEF BallotsKept, VotesSent, VotePageTypeOK
    <3> QED BY <2>1, <3>1 DEF OneVotePerBrowser
  <2>2. ASSUME NEW r \in Requests, ServeVote(r), counted' # counted
        PROVE  OneVotePerBrowser'
    <3>1. PICK ip \in Networks :
             /\ \A s \in counted : req[s].pollId = req[r].pollId
                                   => <<req[s].print, req[s].ip>> # <<req[r].print, ip>>
             /\ req'[r] = [req[r] EXCEPT !.state = "counted", !.ip = ip]
             /\ counted' = counted \cup {r}
      BY <2>2, ServeVoteOutcome
    <3>2. req[r] \in Ballot
      BY <2>2, ServeVoteOutcome
    <3>3. req'[r].ip = ip /\ req'[r].pollId = req[r].pollId
      BY <3>1, <3>2 DEF Ballot
    <3>4. \A s \in counted : s \in Requests /\ req'[s] = req[s] /\ req[s] # None
      BY VotesAreKept DEF BallotsKept, VotesSent, VotePageTypeOK
    <3>5. \A s \in counted : req[s].print = req[r].print
      BY <3>4, <2>2 DEF PrintsAgree, ServeVote
    <3>6. \A s \in counted : ~(req'[s].pollId = req'[r].pollId /\ req'[s].ip = req'[r].ip)
      BY <3>1, <3>3, <3>4, <3>5
    <3>7. \A s, u \in counted : req'[s].pollId = req'[u].pollId /\ req'[s].ip = req'[u].ip
                                => s = u
      BY <3>4 DEF OneVotePerBrowser
    <3> QED BY <3>1, <3>6, <3>7 DEF OneVotePerBrowser
  <2>3. (\E r \in Requests : ServeVote(r)) \/ counted' = counted
    BY DEF VotePageNext, LoadStep, VoteStep, Mount, ChangePoll, Effect, Unmount, Select, Submit,
           ServeLoad, LoadSucceeds, LoadFails, VoteSucceeds, VoteFails, OwnerActs, serverVars
  <2> QED BY <2>1, <2>2, <2>3
<1> QED BY <1>1, <1>2

\* What a page or a mark says was counted stays counted.
LEMMA CountedForKept ==
    ASSUME VotePageTypeOK, VotesSent, VotePageNext, NEW p, NEW x, CountedFor(p, x)
    PROVE  CountedFor(p, x)'
<1>1. PICK r \in counted : req[r].pollId = p /\ x \in {req[r].option.text, "Selected Option"}
  BY DEF CountedFor
<1>2. r \in counted' /\ req'[r] = req[r]
  BY VotesAreKept DEF BallotsKept, VotesSent, VotePageTypeOK
<1> QED BY <1>1, <1>2 DEF CountedFor

\* The answer that a vote was counted names what was counted.
LEMMA ChosenWasCounted ==
    ASSUME VotePageTypeOK, VotesSent, NEW r \in Requests, VoteSucceeds(r)
    PROVE  CountedFor(req[r].pollId, ChosenText(req[r]))
<1>1. r \in counted
  BY DEF VoteSucceeds, VotesSent
<1>2. ChosenText(req[r]) \in {req[r].option.text, "Selected Option"}
  BY DEF ChosenText
<1> QED BY <1>1, <1>2 DEF CountedFor

LEMMA MarkStep ==
    ASSUME VotePageTypeOK, VotesSent, MarkMeansCounted, VotePageNext
    PROVE  MarkMeansCounted'
<1> SUFFICES ASSUME NEW p \in Polls, NEW x, x = voted'[p], x # None
             PROVE  CountedFor(p, x)'
  BY DEF MarkMeansCounted
<1>1. CASE voted'[p] = voted[p]
  <2>1. CountedFor(p, x)
    BY <1>1 DEF MarkMeansCounted
  <2> QED BY <2>1, CountedForKept
<1>2. ASSUME NEW r \in Requests, VoteSucceeds(r), voted'[p] # voted[p]
      PROVE  CountedFor(p, x)'
  <2>1. p = req[r].pollId /\ x = ChosenText(req[r])
    BY <1>2 DEF VoteSucceeds, VotePageTypeOK
  <2>2. CountedFor(p, x)
    BY <1>2, <2>1, ChosenWasCounted
  <2> QED BY <2>2, CountedForKept
<1>3. (\E r \in Requests : VoteSucceeds(r)) \/ voted' = voted
  BY DEF VotePageNext, LoadStep, VoteStep, Mount, ChangePoll, Effect, Unmount, Select, Submit,
         ServeLoad, LoadSucceeds, LoadFails, ServeVote, VoteFails, OwnerActs, storeVars
<1> QED BY <1>1, <1>2, <1>3

\* A page that is not loading has a poll or an error.
Sane(w)   == w.loading \/ w.poll # None \/ w.error
SanePages == \A t \in Tabs : page[t] # None => Sane(page[t])

LEMMA CrashAvoided == NeverCrashes <=> SanePages
BY Zenon DEF NeverCrashes, Screen, SanePages, Sane

LEMMA OpenedSane ==
    ASSUME NEW w \in Page, NEW p, Sane(w)
    PROVE  Sane(Opened(w, p))
BY Zenon, OpenedFields DEF Sane

LEMMA SaneStep ==
    ASSUME VotePageTypeOK, VotesSent, SanePages, VotePageNext
    PROVE  SanePages'
<1>1. ASSUME NEW t \in Tabs, NEW new, Sane(new), page' = [page EXCEPT ![t] = new]
      PROVE  SanePages'
  BY <1>1 DEF SanePages, VotePageTypeOK
<1>2. ASSUME NEW t \in Tabs, NEW p \in Polls \cup {None}, Mount(t, p)
      PROVE  SanePages'
  <2>1. page' = [page EXCEPT ![t] = Opened(NewPage(p), p)] /\ moves < MaxMoves
    BY <1>2 DEF Mount, Effect
  <2>2. NewPage(p) \in Page /\ Sane(NewPage(p))
    BY <2>1, NewPageType DEF NewPage, Sane
  <2> QED BY <1>1, <2>1, <2>2, OpenedSane
<1>3. ASSUME NEW t \in Tabs, NEW p \in Polls \cup {None}, ChangePoll(t, p)
      PROVE  SanePages'
  <2> DEFINE before == [page[t] EXCEPT !.moved = TRUE]
  <2>1. page' = [page EXCEPT ![t] = Opened(before, p)] /\ page[t] \in Page /\ Sane(page[t])
    BY <1>3 DEF ChangePoll, Effect, VotePageTypeOK, SanePages
  <2>2. before \in Page /\ Sane(before)
    BY <2>1 DEF Page, Sane
  <2> QED BY <1>1, <2>1, <2>2, OpenedSane
<1>4. ASSUME NEW t \in Tabs, Unmount(t)
      PROVE  SanePages'
  BY <1>4 DEF Unmount, SanePages, VotePageTypeOK
<1>5. ASSUME NEW t \in Tabs, NEW x \in Choices, Select(t, x)
      PROVE  SanePages'
  <2>1. page[t] \in Page /\ Sane(page[t])
    BY <1>5 DEF Select, VotePageTypeOK, SanePages
  <2>2. Sane([page[t] EXCEPT !.selected = [poll |-> page[t].poll.id, text |-> x]])
    BY <2>1 DEF Page, Sane
  <2> QED BY <1>1, <1>5, <2>2 DEF Select
<1>6. ASSUME NEW t \in Tabs, NEW r \in Requests, Submit(t, r)
      PROVE  SanePages'
  <2>1. page[t] \in Page /\ page[t].poll # None
    BY <1>6, ScreenForm DEF Submit, VotePageTypeOK
  <2>2. Sane([page[t] EXCEPT !.submitting = TRUE, !.error = FALSE])
    BY <2>1 DEF Page, Sane
  <2> QED BY <1>1, <1>6, <2>2 DEF Submit
<1>7. ASSUME NEW t \in Tabs, NEW i, NEW new, Update(t, i, new),
             page[t] # None => Sane(new)
      PROVE  SanePages'
  BY <1>1, <1>7 DEF Update, SanePages
<1>8. ASSUME NEW l \in loads, LoadSucceeds(l)
      PROVE  SanePages'
  <2>1. l.tab \in Tabs /\ l.poll \in Polls
    BY DEF VotePageTypeOK, Load
  <2>2. [id |-> l.poll, isActive |-> l.answer = "open"] # None
    <3>1. [id |-> l.poll, isActive |-> l.answer = "open"] \in Answer
      BY <2>1 DEF Answer
    <3> QED BY <3>1, NoneAssumption
  <2>3. page[l.tab] # None =>
          Sane([page[l.tab] EXCEPT !.poll = [id |-> l.poll, isActive |-> l.answer = "open"],
                                   !.loading = FALSE])
    <3>1. page[l.tab] # None => page[l.tab] \in Page
      BY <2>1 DEF VotePageTypeOK
    <3> QED BY <2>2, <3>1 DEF Page, Sane
  <2> QED BY <1>7, <1>8, <2>1, <2>3 DEF LoadSucceeds
<1>9. ASSUME NEW l \in loads, LoadFails(l)
      PROVE  SanePages'
  <2>1. l.tab \in Tabs
    BY DEF VotePageTypeOK, Load
  <2>2. page[l.tab] # None => Sane([page[l.tab] EXCEPT !.error = TRUE, !.loading = FALSE])
    BY <2>1 DEF VotePageTypeOK, Page, Sane
  <2> QED BY <1>7, <1>9, <2>1, <2>2 DEF LoadFails
<1>10. ASSUME NEW r \in Requests, VoteSucceeds(r) \/ VoteFails(r)
       PROVE  SanePages'
  <2>1. req[r] \in Ballot /\ req[r].tab \in Tabs
    BY <1>10 DEF VoteSucceeds, VoteFails, VotesSent, VotePageTypeOK, Ballot
  <2>2. page[req[r].tab] # None => page[req[r].tab] \in Page /\ Sane(page[req[r].tab])
    BY <2>1 DEF VotePageTypeOK, SanePages
  <2>3. page[req[r].tab] # None =>
          /\ Sane([page[req[r].tab] EXCEPT !.error = TRUE, !.submitting = FALSE])
          /\ Sane([page[req[r].tab] EXCEPT !.hasVoted = TRUE, !.text = ChosenText(req[r]),
                                           !.submitting = FALSE])
    BY <2>2 DEF Page, Sane
  <2> QED BY <1>7, <1>10, <2>1, <2>3 DEF VoteSucceeds, VoteFails
<1>11. CASE page' = page
  BY <1>11 DEF SanePages
<1> QED BY <1>2, <1>3, <1>4, <1>5, <1>6, <1>8, <1>9, <1>10, <1>11
        DEF VotePageNext, LoadStep, VoteStep, ServeLoad, ServeVote, OwnerActs, pageVars

(***************************************************************************)
(* What a page says.  A mounting of the page has a number of its own, so   *)
(* that answers for an earlier one do not reach it; while the page has     *)
(* shown one poll only, whatever is under way for it is about that poll.   *)
(***************************************************************************)

InstancesKnown ==
    /\ \A t \in Tabs : page[t] # None => page[t].instance <= moves
    /\ \A l \in loads : l.instance <= moves
    /\ \A r \in Requests : req[r] # None => req[r].instance <= moves

AboutOnePoll(t) ==
    page[t] # None /\ ~page[t].moved =>
        /\ \A l \in loads : l.tab = t /\ l.instance = page[t].instance => l.poll = page[t].pollId
        /\ \A r \in waiting : req[r].tab = t /\ req[r].instance = page[t].instance
                              => req[r].pollId = page[t].pollId
        /\ page[t].poll # None => page[t].poll.id = page[t].pollId
        /\ page[t].hasVoted => CountedFor(page[t].pollId, page[t].text)

PagesAreTrue == InstancesKnown /\ \A t \in Tabs : AboutOnePoll(t)

\* How a page gets what it shows: it stays the same, is mounted, goes to another poll, or
\* receives the answer to a request of its own mounting.
Kept(t)   == /\ page[t] # None
             /\ page'[t].instance = page[t].instance /\ page'[t].pollId = page[t].pollId
             /\ page'[t].moved = page[t].moved
SameVote(t) == page'[t].hasVoted = page[t].hasVoted /\ page'[t].text = page[t].text
Same(t)   == Kept(t) /\ SameVote(t) /\ page'[t].poll = page[t].poll
Moved(t)  == page[t] # None /\ page'[t].instance = page[t].instance /\ page'[t].moved
Got(t, l) == /\ Kept(t) /\ SameVote(t)
             /\ l.tab = t /\ l.instance = page[t].instance /\ page'[t].poll.id = l.poll
Told(t, r) == /\ Kept(t) /\ VoteSucceeds(r) /\ page'[t].poll = page[t].poll
              /\ req[r].tab = t /\ req[r].instance = page[t].instance
              /\ page'[t].text = ChosenText(req[r])

LEMMA SameWhenUpdated ==
    ASSUME VotePageTypeOK, NEW t \in Tabs, NEW u \in Tabs, NEW i, NEW new,
           page[t] # None => /\ new.pollId = page[t].pollId /\ new.instance = page[t].instance
                             /\ new.moved = page[t].moved /\ new.poll = page[t].poll
                             /\ new.hasVoted = page[t].hasVoted /\ new.text = page[t].text,
           Update(t, i, new), page'[u] # None
    PROVE  Same(u)
BY DEF Update, Same, Kept, SameVote, VotePageTypeOK

LEMMA PageOutcome ==
    ASSUME VotePageTypeOK, VotesSent, VotePageNext, NEW u \in Tabs, page'[u] # None
    PROVE  \/ Same(u)
           \/ \E p \in Polls \cup {None} : Mount(u, p)
           \/ Moved(u)
           \/ \E l \in loads : Got(u, l)
           \/ \E r \in waiting : Told(u, r)
<1> USE DEF Same, Kept, SameVote
<1>1. CASE page' = page
  BY <1>1
<1>2. ASSUME NEW t \in Tabs, NEW p \in Polls \cup {None}, Mount(t, p), t # u
      PROVE  Same(u)
  BY <1>2 DEF Mount, Effect, VotePageTypeOK
<1>3. ASSUME NEW t \in Tabs, NEW p \in Polls \cup {None}, ChangePoll(t, p)
      PROVE  Same(u) \/ Moved(u)
  <2> DEFINE before == [page[t] EXCEPT !.moved = TRUE]
  <2>1. page' = [page EXCEPT ![t] = Opened(before, p)] /\ page[t] \in Page /\ page[t] # None
    BY <1>3 DEF ChangePoll, Effect, VotePageTypeOK
  <2>2. before \in Page /\ before.moved /\ before.instance = page[t].instance
    BY <2>1 DEF Page
  <2> HIDE DEF before
  <2>3. Opened(before, p).moved = before.moved /\ Opened(before, p).instance = before.instance
    BY <2>2, OpenedFields
  <2> QED BY <2>1, <2>2, <2>3 DEF Moved, VotePageTypeOK
<1>4. ASSUME NEW t \in Tabs, Unmount(t)
      PROVE  Same(u)
  BY <1>4 DEF Unmount, VotePageTypeOK
<1>5. ASSUME NEW t \in Tabs, NEW x \in Choices, Select(t, x)
      PROVE  Same(u)
  <2>1. page[t] \in Page /\ page[t] # None
    BY <1>5 DEF Select, VotePageTypeOK
  <2> QED BY <1>5, <2>1 DEF Select, Page, VotePageTypeOK
<1>6. ASSUME NEW t \in Tabs, NEW r \in Requests, Submit(t, r)
      PROVE  Same(u)
  <2>1. page[t] \in Page /\ page[t] # None
    BY <1>6 DEF Submit, VotePageTypeOK
  <2> QED BY <1>6, <2>1 DEF Submit, Page, VotePageTypeOK
<1>7. ASSUME NEW l \in loads, LoadSucceeds(l)
      PROVE  Same(u) \/ Got(u, l)
  <2> DEFINE new == [page[l.tab] EXCEPT
                       !.poll = [id |-> l.poll, isActive |-> l.answer = "open"],
                       !.loading = FALSE]
  <2>1. l.tab \in Tabs /\ (page[l.tab] # None => page[l.tab] \in Page)
    BY DEF VotePageTypeOK, Load
  <2>2. page[l.tab] # None =>
          /\ new.pollId = page[l.tab].pollId /\ new.instance = page[l.tab].instance
          /\ new.moved = page[l.tab].moved /\ new.poll.id = l.poll
          /\ new.hasVoted = page[l.tab].hasVoted /\ new.text = page[l.tab].text
    BY <2>1 DEF Page
  <2>3. Update(l.tab, l.instance, new)
    BY <1>7 DEF LoadSucceeds
  <2> HIDE DEF new
  <2> QED BY <2>1, <2>2, <2>3 DEF Update, Got, VotePageTypeOK
<1>8. ASSUME NEW l \in loads, LoadFails(l)
      PROVE  Same(u)
  <2> DEFINE new == [page[l.tab] EXCEPT !.error = TRUE, !.loading = FALSE]
  <2>1. l.tab \in Tabs /\ (page[l.tab] # None => page[l.tab] \in Page)
    BY DEF VotePageTypeOK, Load
  <2>2. page[l.tab] # None =>
          /\ new.pollId = page[l.tab].pollId /\ new.instance = page[l.tab].instance
          /\ new.moved = page[l.tab].moved /\ new.poll = page[l.tab].poll
          /\ new.hasVoted = page[l.tab].hasVoted /\ new.text = page[l.tab].text
    BY <2>1 DEF Page
  <2>3. Update(l.tab, l.instance, new)
    BY <1>8 DEF LoadFails
  <2> HIDE DEF new
  <2> QED BY <2>1, <2>2, <2>3, SameWhenUpdated
<1>9. ASSUME NEW r \in Requests, VoteSucceeds(r)
      PROVE  Same(u) \/ (r \in waiting /\ Told(u, r))
  <2> DEFINE t == req[r].tab
             new == [page[t] EXCEPT !.hasVoted = TRUE, !.text = ChosenText(req[r]),
                                    !.submitting = FALSE]
  <2>1. req[r] \in Ballot /\ t \in Tabs /\ r \in waiting
    BY <1>9 DEF VoteSucceeds, VotesSent, VotePageTypeOK, Ballot
  <2>2. page[t] # None =>
          /\ new.pollId = page[t].pollId /\ new.instance = page[t].instance
          /\ new.moved = page[t].moved /\ new.poll = page[t].poll
          /\ new.text = ChosenText(req[r])
    BY <2>1 DEF Page, VotePageTypeOK
  <2>3. Update(t, req[r].instance, new)
    BY <1>9 DEF VoteSucceeds
  <2> HIDE DEF new
  <2> QED BY <1>9, <2>1, <2>2, <2>3 DEF Update, Told, VotePageTypeOK
<1>10. ASSUME NEW r \in Requests, VoteFails(r)
       PROVE  Same(u)
  <2> DEFINE t == req[r].tab
             new == [page[t] EXCEPT !.error = TRUE, !.submitting = FALSE]
  <2>1. req[r] \in Ballot /\ t \in Tabs
    BY <1>10 DEF VoteFails, VotesSent, VotePageTypeOK, Ballot
  <2>2. page[t] # None =>
          /\ new.pollId = page[t].pollId /\ new.instance = page[t].instance
          /\ new.moved = page[t].moved /\ new.poll = page[t].poll
          /\ new.hasVoted = page[t].hasVoted /\ new.text = page[t].text
    BY <2>1 DEF Page, VotePageTypeOK
  <2>3. Update(t, req[r].instance, new)
    BY <1>10 DEF VoteFails
  <2> HIDE DEF new, t
  <2> QED BY <2>1, <2>2, <2>3, SameWhenUpdated
<1> QED BY <1>1, <1>2, <1>3, <1>4, <1>5, <1>6, <1>7, <1>8, <1>9, <1>10
        DEF VotePageNext, LoadStep, VoteStep, ServeLoad, ServeVote, OwnerActs, pageVars

\* A request is for the poll of the page that sends it.
FromPage(t, instance, p) ==
    page'[t] # None /\ page'[t].instance = instance /\ page'[t].pollId = p

LEMMA EffectFromPage ==
    ASSUME VotePageTypeOK, NEW t \in Tabs, NEW before \in Page, NEW p \in Polls \cup {None},
           Effect(t, before, p)
    PROVE  /\ moves' = moves + 1
           /\ \A l \in loads' : \/ l \in loads
                                \/ l.tab = t /\ FromPage(t, l.instance, l.poll)
<1>1. /\ moves' = moves + 1 /\ page' = [page EXCEPT ![t] = Opened(before, p)]
      /\ loads' = loads \/ loads' = loads \cup {NewLoad(t, before.instance, p)}
  BY DEF Effect
<1>2. /\ page'[t] = Opened(before, p) /\ page'[t] # None
      /\ page'[t].instance = before.instance /\ page'[t].pollId = p
  BY <1>1, OpenedType, OpenedFields, NoneAssumption DEF VotePageTypeOK
<1>3. LET l == NewLoad(t, before.instance, p) IN
      l.tab = t /\ l.instance = before.instance /\ l.poll = p
  BY DEF NewLoad
<1> QED BY <1>1, <1>2, <1>3 DEF FromPage

LEMMA LoadsOutcome ==
    ASSUME VotePageTypeOK, VotePageNext
    PROVE  \A l \in loads' :
              \/ \E k \in loads : k.tab = l.tab /\ k.instance = l.instance /\ k.poll = l.poll
              \/ l.tab \in Tabs /\ FromPage(l.tab, l.instance, l.poll)
<1>1. CASE loads' \subseteq loads
  BY <1>1
<1>2. ASSUME NEW t \in Tabs, NEW p \in Polls \cup {None}, Mount(t, p)
      PROVE  \A l \in loads' : l \in loads \/ (l.tab = t /\ FromPage(t, l.instance, l.poll))
  BY <1>2, NewPageType, EffectFromPage DEF Mount, Effect
<1>3. ASSUME NEW t \in Tabs, NEW p \in Polls \cup {None}, ChangePoll(t, p)
      PROVE  \A l \in loads' : l \in loads \/ (l.tab = t /\ FromPage(t, l.instance, l.poll))
  BY <1>3, UpdatedPages, EffectFromPage DEF ChangePoll, VotePageTypeOK
<1>4. ASSUME NEW k \in loads, ServeLoad(k), NEW l \in loads'
      PROVE  l \in loads \/ (k.tab = l.tab /\ k.instance = l.instance /\ k.poll = l.poll)
  <2>1. k \in Load
    BY DEF VotePageTypeOK
  <2>2. l \in loads \/ l = [k EXCEPT !.answer = server[k.poll]]
    BY <1>4 DEF ServeLoad
  <2> QED BY <2>1, <2>2 DEF Load
<1>5. \/ \E t \in Tabs, p \in Polls \cup {None} : Mount(t, p) \/ ChangePoll(t, p)
      \/ \E k \in loads : ServeLoad(k)
      \/ loads' \subseteq loads
  BY DEF VotePageNext, LoadStep, VoteStep, Unmount, Select, Submit, LoadSucceeds, LoadFails,
         ServeVote, VoteSucceeds, VoteFails, OwnerActs, pageVars
<1> QED BY <1>1, <1>2, <1>3, <1>4, <1>5

LEMMA VotesOutcome ==
    ASSUME VotePageTypeOK, VotesSent, VotePageNext
    PROVE  \A r \in Requests :
              /\ req'[r] # None => req[r] # None
                                   \/ FromPage(req'[r].tab, req'[r].instance, req'[r].pollId)
              /\ r \in waiting' => r \in waiting
                                   \/ FromPage(req'[r].tab, req'[r].instance, req'[r].pollId)
<1>1. ASSUME NEW t \in Tabs, NEW r \in Requests, Submit(t, r)
      PROVE  /\ FromPage(req'[r].tab, req'[r].instance, req'[r].pollId)
             /\ waiting' = waiting \cup {r}
             /\ \A s \in Requests \ {r} : req'[s] = req[s]
  <2>1. req'[r] = NewBallot(t, fp') /\ \A s \in Requests \ {r} : req'[s] = req[s]
    BY <1>1, SubmitKeeps
  <2>2. req'[r].tab = t /\ req'[r].instance = page[t].instance /\ req'[r].pollId = page[t].pollId
    BY <2>1 DEF NewBallot
  <2>3. /\ waiting' = waiting \cup {r} /\ page[t] \in Page
        /\ page' = [page EXCEPT ![t] = [page[t] EXCEPT !.submitting = TRUE, !.error = FALSE]]
    BY <1>1 DEF Submit, VotePageTypeOK
  <2>4. page'[t] = [page[t] EXCEPT !.submitting = TRUE, !.error = FALSE]
    BY <2>3 DEF VotePageTypeOK
  <2>5. page'[t] \in Page
    BY <2>3, <2>4, UpdatedPages
  <2>6. /\ page'[t] # None /\ page'[t].instance = page[t].instance
        /\ page'[t].pollId = page[t].pollId
    <3>1. page'[t] # None
      BY <2>5, NoneAssumption
    <3> QED BY <2>3, <2>4, <3>1 DEF Page
  <2> QED BY <2>1, <2>2, <2>3, <2>6 DEF FromPage
<1>2. ASSUME NEW r \in Requests, ServeVote(r)
      PROVE  waiting' = waiting /\ \A s \in Requests : req'[s] # None => req[s] # None
  BY <1>2, ServeVoteOutcome
<1>3. \/ \E t \in Tabs, r \in Requests : Submit(t, r)
      \/ \E r \in Requests : ServeVote(r)
      \/ waiting' \subseteq waiting /\ req' = req
  BY DEF VotePageNext, LoadStep, VoteStep, Mount, ChangePoll, Effect, Unmount, Select, ServeLoad,
         LoadSucceeds, LoadFails, VoteSucceeds, VoteFails, OwnerActs, voteVars
<1> QED BY <1>1, <1>2, <1>3

LEMMA InstancesStep ==
    ASSUME VotePageTypeOK, VotesSent, InstancesKnown, VotePageNext
    PROVE  InstancesKnown'
<1>1. moves' >= moves /\ moves \in Nat /\ moves' \in Nat
  <2>1. moves' = moves \/ moves' = moves + 1
    BY DEF VotePageNext, LoadStep, VoteStep, Mount, ChangePoll, Effect, Unmount, Select, Submit,
           ServeLoad, LoadSucceeds, LoadFails, ServeVote, VoteSucceeds, VoteFails, OwnerActs
  <2> QED BY <2>1 DEF VotePageTypeOK
<1>2. ASSUME NEW t \in Tabs, page'[t] # None
      PROVE  page'[t].instance <= moves'
  <2>1. CASE page[t] # None /\ page'[t].instance = page[t].instance
    <3>1. page[t].instance \in Nat
      BY <2>1 DEF VotePageTypeOK, Page
    <3> QED BY <1>1, <2>1, <3>1 DEF InstancesKnown
  <2>2. ASSUME NEW p \in Polls \cup {None}, Mount(t, p)
        PROVE  page'[t].instance <= moves'
    <3>1. Effect(t, NewPage(p), p) /\ NewPage(p) \in Page
      BY <2>2, NewPageType DEF Mount, Effect
    <3>2. page'[t] = Opened(NewPage(p), p) /\ moves' = moves + 1
      BY <3>1 DEF Effect, VotePageTypeOK
    <3>3. page'[t].instance = NewPage(p).instance
      BY <3>1, <3>2, OpenedFields
    <3> QED BY <1>1, <3>2, <3>3 DEF NewPage
  <2> QED BY <1>2, <2>1, <2>2, PageOutcome DEF Same, Moved, Got, Told, Kept
<1>3. ASSUME NEW l \in loads'
      PROVE  l.instance <= moves'
  <2>1. CASE \E k \in loads : k.instance = l.instance
    <3>1. PICK k \in loads : k.instance = l.instance
      BY <2>1
    <3>2. k.instance \in Nat /\ k.instance <= moves
      BY <3>1 DEF VotePageTypeOK, Load, InstancesKnown
    <3> QED BY <1>1, <3>1, <3>2
  <2> QED BY <1>2, <2>1, LoadsOutcome DEF FromPage
<1>4. ASSUME NEW r \in Requests, req'[r] # None
      PROVE  req'[r].instance <= moves'
  <2>1. CASE req[r] # None
    <3>1. req[r].instance \in Nat /\ req[r].instance <= moves
      BY <2>1 DEF VotePageTypeOK, Ballot, InstancesKnown
    <3>2. req'[r].instance = req[r].instance
      BY <2>1, VotesAreKept DEF BallotsKept
    <3> QED BY <1>1, <3>1, <3>2
  <2>2. CASE FromPage(req'[r].tab, req'[r].instance, req'[r].pollId)
    <3>1. req'[r].tab \in Tabs
      <4>1. VotePageTypeOK'
        BY VotePageStepType
      <4> QED BY <1>4, <4>1 DEF VotePageTypeOK, Ballot
    <3> QED BY <1>2, <2>2, <3>1 DEF FromPage
  <2> QED BY <1>4, <2>1, <2>2, VotesOutcome
<1> QED BY <1>2, <1>3, <1>4 DEF InstancesKnown

\* What is under way for a page that was there before is for its poll after the step, too.
LEMMA UnderWay ==
    ASSUME VotePageTypeOK, VotesSent, VotePageNext, NEW t \in Tabs, AboutOnePoll(t),
           Kept(t), page'[t] # None, ~page'[t].moved
    PROVE  /\ \A l \in loads' : l.tab = t /\ l.instance = page'[t].instance
                                => l.poll = page'[t].pollId
           /\ \A r \in waiting' : req'[r].tab = t /\ req'[r].instance = page'[t].instance
                                  => req'[r].pollId = page'[t].pollId
<1>1. ASSUME NEW l \in loads', l.tab = t, l.instance = page'[t].instance
      PROVE  l.poll = page'[t].pollId
  BY <1>1, LoadsOutcome DEF AboutOnePoll, Kept, FromPage
<1>2. ASSUME NEW r \in waiting', req'[r].tab = t, req'[r].instance = page'[t].instance
      PROVE  req'[r].pollId = page'[t].pollId
  <2>1. r \in Requests
    <3>1. VotePageTypeOK'
      BY VotePageStepType
    <3> QED BY <1>2, <3>1 DEF VotePageTypeOK
  <2>2. CASE r \in waiting
    <3>1. req[r] # None
      BY <2>2 DEF VotesSent
    <3>2. /\ req'[r].tab = req[r].tab /\ req'[r].instance = req[r].instance
          /\ req'[r].pollId = req[r].pollId
      BY <2>1, <3>1, VotesAreKept DEF BallotsKept
    <3> QED BY <1>2, <2>2, <3>2 DEF AboutOnePoll, Kept
  <2>3. CASE FromPage(req'[r].tab, req'[r].instance, req'[r].pollId)
    BY <1>2, <2>3 DEF FromPage
  <2> QED BY <2>1, <2>2, <2>3, VotesOutcome
<1> QED BY <1>1, <1>2

\* The answer for the vote of the page is about its poll, and so is what was voted before.
LEMMA VoteShownCounted ==
    ASSUME VotePageTypeOK, VotesSent, VotePageNext, NEW t \in Tabs, AboutOnePoll(t), Kept(t),
           ~page'[t].moved,
           \/ SameVote(t) /\ page'[t].hasVoted
           \/ \E r \in waiting : Told(t, r)
    PROVE  CountedFor(page[t].pollId, page[t].text)'
<1>1. PICK p, x : p = page'[t].pollId /\ x = page'[t].text
  OBVIOUS
<1>2. CASE SameVote(t) /\ page'[t].hasVoted
  <2>1. CountedFor(p, x)
    BY <1>1, <1>2 DEF AboutOnePoll, Kept, SameVote
  <2>2. CountedFor(p, x)'
    BY <2>1, CountedForKept
  <2> QED BY <1>1, <2>2 DEF CountedFor
<1>3. ASSUME NEW r \in waiting, Told(t, r)
      PROVE  CountedFor(page[t].pollId, page[t].text)'
  <2>1. r \in Requests /\ VoteSucceeds(r) /\ x = ChosenText(req[r])
    BY <1>1, <1>3 DEF Told, VotePageTypeOK
  <2>2. req[r].pollId = p
    BY <1>1, <1>3 DEF Told, AboutOnePoll, Kept
  <2>3. CountedFor(p, x)
    BY <2>1, <2>2, ChosenWasCounted
  <2>4. CountedFor(p, x)'
    BY <2>3, CountedForKept
  <2> QED BY <1>1, <2>4 DEF CountedFor
<1> QED BY <1>2, <1>3

\* A page that has just been mounted is about its poll: nothing earlier is for it.
LEMMA MountedTrue ==
    ASSUME VotePageTypeOK, VotesSent, PagesAreTrue, MarkMeansCounted, VotePageNext,
           NEW t \in Tabs, NEW p \in Polls \cup {None}, Mount(t, p)
    PROVE  AboutOnePoll(t)'
<1>1. /\ Effect(t, NewPage(p), p) /\ NewPage(p) \in Page /\ moves \in Nat
      /\ moves < MaxMoves /\ voted' = voted
  BY NewPageType DEF Mount, Effect, VotePageTypeOK
<1>2. page'[t] = Opened(NewPage(p), p)
  BY <1>1 DEF Effect, VotePageTypeOK
<1>3. /\ page'[t].pollId = p /\ page'[t].instance = moves + 1 /\ page'[t].poll = None
      /\ page'[t].hasVoted => /\ p # None /\ voted[p] # None
                              /\ page'[t].text = voted[p]
  <2>1. /\ NewPage(p).instance = moves + 1 /\ NewPage(p).poll = None
        /\ NewPage(p).hasVoted = FALSE
    BY DEF NewPage
  <2>2. /\ page'[t].pollId = p /\ page'[t].instance = NewPage(p).instance
        /\ page'[t].poll = NewPage(p).poll
    BY <1>1, <1>2, OpenedFields
  <2>3. page'[t].hasVoted => p # None /\ voted[p] # None /\ page'[t].text = voted[p]
    BY <1>1, <1>2, <2>1, OpenedFields
  <2> QED BY <2>1, <2>2, <2>3
<1>4. ASSUME NEW l \in loads', l.tab = t, l.instance = page'[t].instance
      PROVE  l.poll = page'[t].pollId
  <2>1. \A k \in loads : k.instance # moves + 1
    <3>1. \A k \in loads : k.instance \in Nat /\ k.instance <= moves
      BY DEF PagesAreTrue, InstancesKnown, VotePageTypeOK, Load
    <3> QED BY <1>1, <3>1
  <2> QED BY <1>3, <1>4, <2>1, LoadsOutcome DEF FromPage
<1>5. ASSUME NEW r \in waiting', req'[r].tab = t, req'[r].instance = page'[t].instance
      PROVE  req'[r].pollId = page'[t].pollId
  <2>1. req' = req /\ waiting' = waiting /\ req[r] # None /\ r \in Requests
    BY <1>1, <1>5 DEF Effect, voteVars, VotesSent, VotePageTypeOK
  <2>2. req[r].instance \in Nat /\ req[r].instance <= moves
    BY <2>1 DEF PagesAreTrue, InstancesKnown, VotePageTypeOK, Ballot
  <2> QED BY <1>1, <1>3, <1>5, <2>1, <2>2
<1>6. ASSUME page'[t].hasVoted
      PROVE  CountedFor(page[t].pollId, page[t].text)'
  <2>1. PICK x : x = voted[p]
    OBVIOUS
  <2>2. CountedFor(p, x)
    BY <1>3, <1>6, <2>1 DEF MarkMeansCounted
  <2>3. CountedFor(p, x)'
    BY <2>2, CountedForKept
  <2> QED BY <1>3, <1>6, <2>1, <2>3 DEF CountedFor
<1> QED BY <1>3, <1>4, <1>5, <1>6 DEF AboutOnePoll

LEMMA TrueStep ==
    ASSUME VotePageTypeOK, VotesSent, PagesAreTrue, MarkMeansCounted, VotePageNext
    PROVE  PagesAreTrue'
<1>1. InstancesKnown'
  BY InstancesStep DEF PagesAreTrue
<1> SUFFICES ASSUME NEW t \in Tabs, page'[t] # None, ~page'[t].moved
             PROVE  AboutOnePoll(t)'
  BY <1>1 DEF PagesAreTrue, AboutOnePoll
<1>2. AboutOnePoll(t)
  BY DEF PagesAreTrue
<1>3. ASSUME Kept(t), page'[t].poll # None => page'[t].poll.id = page[t].pollId,
             (SameVote(t) \/ \E r \in waiting : Told(t, r))
      PROVE  AboutOnePoll(t)'
  BY <1>2, <1>3, UnderWay, VoteShownCounted DEF AboutOnePoll, Kept
<1>4. CASE Same(t)
  BY <1>2, <1>3, <1>4 DEF Same, AboutOnePoll, Kept
<1>5. ASSUME NEW l \in loads, Got(t, l)
      PROVE  AboutOnePoll(t)'
  BY <1>2, <1>3, <1>5 DEF Got, AboutOnePoll, Kept
<1>6. ASSUME NEW r \in waiting, Told(t, r)
      PROVE  AboutOnePoll(t)'
  BY <1>2, <1>3, <1>6 DEF Told, AboutOnePoll, Kept
<1>7. ASSUME NEW p \in Polls \cup {None}, Mount(t, p)
      PROVE  AboutOnePoll(t)'
  BY <1>7, MountedTrue
<1> QED BY <1>4, <1>5, <1>6, <1>7, PageOutcome DEF Moved

(***************************************************************************)
(* The inductive invariant and what follows from it.                       *)
(***************************************************************************)

VotePageInv ==
    /\ VotePageTypeOK /\ VotesSent /\ SanePages
    /\ PrintsAgree /\ OneVotePerBrowser
    /\ MarkMeansCounted /\ PagesAreTrue

LEMMA VotePageInvInit == VotePageInit => VotePageInv
<1> SUFFICES ASSUME VotePageInit PROVE VotePageInv
  OBVIOUS
<1>1. VotePageTypeOK
  BY Bounds DEF VotePageInit, VotePageTypeOK
<1>2. VotesSent /\ PrintsAgree /\ OneVotePerBrowser
  BY DEF VotePageInit, VotesSent, PrintsAgree, OneVotePerBrowser
<1>3. SanePages /\ MarkMeansCounted /\ PagesAreTrue
  BY DEF VotePageInit, SanePages, MarkMeansCounted, PagesAreTrue, InstancesKnown, AboutOnePoll
<1> QED BY <1>1, <1>2, <1>3 DEF VotePageInv

LEMMA VotePageInvStep == VotePageInv /\ [VotePageNext]_votePageVars => VotePageInv'
<1> SUFFICES ASSUME VotePageInv, [VotePageNext]_votePageVars PROVE VotePageInv'
  OBVIOUS
<1>1. CASE VotePageNext
  BY <1>1, VotePageStepType, VotesAreKept, SaneStep, OneVoteStep, MarkStep, TrueStep
     DEF VotePageInv
<1>2. CASE UNCHANGED votePageVars
  <2> USE <1>2 DEF votePageVars, pageVars, voteVars, storeVars, serverVars
  <2>1. VotePageTypeOK' /\ VotesSent' /\ SanePages'
    BY DEF VotePageInv, VotePageTypeOK, VotesSent, SanePages
  <2>2. PrintsAgree' /\ OneVotePerBrowser' /\ MarkMeansCounted'
    BY DEF VotePageInv, PrintsAgree, OneVotePerBrowser, MarkMeansCounted, CountedFor
  <2>3. PagesAreTrue'
    BY DEF VotePageInv, PagesAreTrue, InstancesKnown, AboutOnePoll, CountedFor
  <2> QED BY <2>1, <2>2, <2>3 DEF VotePageInv
<1> QED BY <1>1, <1>2

LEMMA VotePageInvariant == VotePageSpec => []VotePageInv
BY VotePageInvInit, VotePageInvStep, PTL DEF VotePageSpec

\* What the tabs hold, what is stored and what is under way has the shape that the code
\* gives it, in whatever order answers come.
THEOREM VotePageTypeCorrect == VotePageSpec => []VotePageTypeOK
<1>1. VotePageInv => VotePageTypeOK
  BY DEF VotePageInv
<1> QED BY <1>1, VotePageInvariant, PTL

\* No order of answers, failures and changes of address makes the page render a poll that
\* is not there.
THEOREM NeverCrashesAlways == VotePageSpec => []NeverCrashes
<1>1. VotePageInv => NeverCrashes
  BY CrashAvoided DEF VotePageInv
<1> QED BY <1>1, VotePageInvariant, PTL

\* For any number of tabs, retries and late requests, the votes of one browser on a poll
\* are counted once while it keeps its IP address.
THEOREM OneVoteOfABrowser == VotePageSpec => []OneVotePerBrowser
<1>1. VotePageInv => OneVotePerBrowser
  BY DEF VotePageInv
<1> QED BY <1>1, VotePageInvariant, PTL

\* A poll is marked in localStorage only with a vote that was counted for the option named.
THEOREM MarksAreTrue == VotePageSpec => []MarkMeansCounted
<1>1. VotePageInv => MarkMeansCounted
  BY DEF VotePageInv
<1> QED BY <1>1, VotePageInvariant, PTL

\* A page that has shown one poll since it was mounted thanks for a vote that was counted.
THEOREM ThanksAreTrue == VotePageSpec => []ThanksMeansCounted
<1>1. VotePageInv => ThanksMeansCounted
  <2> SUFFICES ASSUME VotePageInv, NEW t \in Tabs, page[t] # None, ~page[t].moved
               PROVE  /\ page[t].poll # None => page[t].poll.id = page[t].pollId
                      /\ Screen(t) = "thanks" => CountedFor(page[t].pollId, page[t].text)
    BY DEF ThanksMeansCounted
  <2>1. Screen(t) = "thanks" => page[t].hasVoted
    BY Zenon DEF Screen
  <2> QED BY <2>1 DEF VotePageInv, PagesAreTrue, AboutOnePoll
<1> QED BY <1>1, VotePageInvariant, PTL
=============================================================================
