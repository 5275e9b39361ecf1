-------------------------------- MODULE WebApp --------------------------------
(***************************************************************************)
(* Signing in and moving about: frontend/src/App.jsx, the AuthProvider of  *)
(* context/AuthContext.jsx, the request helper of services/api.js, the     *)
(* pages Login, Register and Home, Navbar and ShareModal, in the tabs of   *)
(* one browser, with AuthService behind them.                              *)
(*                                                                         *)
(* The tabs share localStorage and nothing else: a tab keeps the token and *)
(* the user it read in its own state, while every request carries the      *)
(* token that is in localStorage when it is sent.  An effect, what a       *)
(* handler does before an await and what it does after it are steps; what  *)
(* comes after the await happens wherever the user has gone in between.    *)
(*                                                                         *)
(* Inside the pages of a poll, the dashboard and the form for a new poll   *)
(* see VotePage, LivePage, PollForm and Dashboard; here they are addresses *)
(* and the links they offer.                                               *)
(***************************************************************************)
EXTENDS AuthService

CONSTANTS
    Tabs,
    Polls,      \* poll ids, of polls that exist or not
    Urls,       \* the addresses with which a tab is opened: [view, id]
    MaxActs     \* bound on navigations, reloads, logouts and sign-ins over all tabs

ASSUME WebAppAssumption ==
    /\ None \notin Tabs \cup Polls
    /\ MaxActs \in Nat

Views == {"home", "login", "register", "dashboard", "create", "vote", "results", "other"}
Page  == [view : Views, id : Polls \cup {None}]

ASSUME UrlsAssumption == Urls \subseteq Page

VARIABLES
    ls,         \* auth_token in localStorage, 0 when there is none
    tab,        \* tab[t]: the state of the tab
    caller,     \* caller[r]: the tab that awaits request r, None when it was reloaded
    acts,       \* what users did
    overtaken   \* history: tabs whose session changed with a check under way

webVars == <<authVars, ls, tab, caller, acts, overtaken>>

Tab == [ token : Nat,           \* the token of the AuthProvider, 0 for none
         user : Nat,            \* the id of its user, 0 for none
         loading : BOOLEAN,     \* its loading
         due : BOOLEAN,         \* its effect has yet to run for the token
         page : Page,           \* currentView and activePollId
         history : Seq(Page), at : Nat \ {0}, \* the browser's history, and the place in it
         form : {0} \cup Requests ] \* the request that the form for signing in awaits

-----------------------------------------------------------------------------
(* App.jsx *)

\* The component that is rendered as the page.
Screen(w) ==
    IF w.loading THEN "loading"
    ELSE IF w.page.view \in {"dashboard", "create"} /\ w.user = 0 THEN "login"
    ELSE w.page.view

\* A form for signing in is another one when it is at another place of the page.
FormOf(w) == IF Screen(w) \in {"login", "register"} THEN <<w.page.view, Screen(w)>> ELSE <<>>

\* A form keeps its state while it is rendered.
Rendered(w, new) == IF FormOf(new) = FormOf(w) THEN new ELSE [new EXCEPT !.form = 0]

\* (Mutant of Visit: the entry is not pushed.)
VisitUnpushed(w, p) ==
    [w EXCEPT !.page = p, !.history = SubSeq(@, 1, w.at), !.at = @ + 1]

\* navigate: what was ahead in the history is gone.
Visit(w, p) ==
    [w EXCEPT !.page = p, !.history = Append(SubSeq(@, 1, w.at), p), !.at = @ + 1]

\* syncStateFromURL on popstate: one entry back or forward.
Traverse(t) ==
    /\ acts < MaxActs
    /\ acts' = acts + 1
    /\ LET w == tab[t] IN
       \E n \in {w.at - 1, w.at + 1} \cap (1 .. Len(w.history)) :
          tab' = [tab EXCEPT ![t] = Rendered(w, [w EXCEPT !.page = w.history[n], !.at = n])]
    /\ UNCHANGED <<authVars, ls, caller, overtaken>>

-----------------------------------------------------------------------------
(* The links of the pages *)

To(view)     == [view |-> view, id |-> None]
ToPoll(v, p) == [view |-> v, id |-> p]

\* Nobody is signed in, or somebody is.
NavbarLinks(w) ==
    {To("home")} \cup (IF w.user # 0 THEN {To("dashboard"), To("create")}
                                     ELSE {To("login"), To("register")})

\* The button for a new poll and the one beside it.
HomeLinks(w) ==
    IF w.user # 0 THEN {To("create"), To("dashboard")} ELSE {To("login"), To("register")}

\* handleJoinPoll: whatever is typed, but for blanks.
JoinPoll == {ToPoll("vote", p) : p \in Polls}

LoginLinks    == {To("register")}
RegisterLinks == {To("login")}
CreateLinks   == {To("dashboard")}

\* ShareModal: the two pages of the poll it is opened for.
ShareLinks(p) == {ToPoll("vote", p), ToPoll("results", p)}

\* The button for a new poll; for each poll its pages and the share dialog.
DashboardLinks == {To("create")} \cup UNION {ShareLinks(p) : p \in Polls}

\* With an id that is one of a poll, its other page and the share dialog.
VoteLinks(w) == {To("home")} \cup (IF w.page.id = None THEN {} ELSE ShareLinks(w.page.id))

ResultsLinks(w) ==
    {To(IF w.user # 0 THEN "dashboard" ELSE "home")}
    \cup (IF w.page.id = None THEN {} ELSE ShareLinks(w.page.id))

Links(w) ==
    NavbarLinks(w) \cup
    CASE Screen(w) = "home"      -> HomeLinks(w) \cup JoinPoll
      [] Screen(w) = "login"     -> LoginLinks
      [] Screen(w) = "register"  -> RegisterLinks
      [] Screen(w) = "dashboard" -> DashboardLinks
      [] Screen(w) = "create"    -> CreateLinks
      [] Screen(w) = "vote"      -> VoteLinks(w)
      [] Screen(w) = "results"   -> ResultsLinks(w)
      [] OTHER                   -> {}

FollowLink(t) ==
    /\ acts < MaxActs /\ ~tab[t].loading
    /\ acts' = acts + 1
    /\ \E p \in Links(tab[t]) : tab' = [tab EXCEPT ![t] = Rendered(@, Visit(@, p))]
    /\ UNCHANGED <<authVars, ls, caller, overtaken>>

-----------------------------------------------------------------------------
(* AuthProvider *)

Awaits(t, r) == caller[r] = t /\ request[r] # None /\ request[r].kind = "me"
Checking(t)  == tab[t].due \/ \E r \in Requests : Awaits(t, r)

\* The tab's state and localStorage get another token, which a check of this tab,
\* or one that another tab is about to send, does not know of.
NewSession(t) ==
    overtaken' = overtaken \cup {u \in Tabs : IF u = t THEN Checking(t) ELSE tab[u].due}

WithToken(w, token, user) ==
    [w EXCEPT !.token = token, !.user = user, !.due = @ \/ token # w.token]

\* logout.
SignedOut(w) == WithToken(w, 0, 0)

\* What the browser holds of a page that is loaded at entry n of history h.
Loaded(h, n) ==
    [token |-> ls, user |-> 0, loading |-> TRUE, due |-> TRUE, page |-> h[n],
     history |-> h, at |-> n, form |-> 0]

\* The page is loaded again: nobody awaits its requests any more.
Reload(t) ==
    /\ acts < MaxActs
    /\ acts' = acts + 1
    /\ tab' = [tab EXCEPT ![t] = Loaded(@.history, @.at)]
    /\ caller' = [r \in Requests |-> IF caller[r] = t THEN None ELSE caller[r]]
    /\ overtaken' = overtaken \ {t}
    /\ UNCHANGED <<authVars, ls>>

\* The request takes the first place that is free.
Send(t, r, req) ==
    /\ request[r] = None /\ \A q \in Requests : q < r => request[q] # None
    /\ request' = [request EXCEPT ![r] = req]
    /\ caller' = [caller EXCEPT ![r] = t]

\* checkAuth up to its await: the request carries the token of localStorage.
CheckAuth(t) ==
    /\ tab[t].due
    /\ IF tab[t].token = 0
       THEN /\ tab' = [tab EXCEPT ![t] =
                         Rendered(@, [@ EXCEPT !.due = FALSE, !.loading = FALSE])]
            /\ UNCHANGED <<request, caller>>
       ELSE /\ tab' = [tab EXCEPT ![t].due = FALSE]
            /\ \E r \in Requests : Send(t, r, MeRequest(ls))
    /\ UNCHANGED <<store, accounts, issued, expired, ls, acts, overtaken>>

\* Request r is over.
Done(r) ==
    /\ request' = [request EXCEPT ![r] = None]
    /\ caller' = [caller EXCEPT ![r] = None]
    /\ UNCHANGED <<store, accounts, issued, expired>>

\* (Mutant of CheckSucceeds: an answer that comes after another session began ends nothing.)
CheckSucceedsIfCurrent(r) ==
    /\ At(r, "me", "answered") /\ request[r].answer # Refused /\ caller[r] # None
    /\ LET w == tab[caller[r]] IN
       tab' = [tab EXCEPT ![caller[r]] =
                 IF request[r].token # w.token THEN w
                 ELSE Rendered(w, [w EXCEPT !.user = request[r].answer.user, !.loading = FALSE])]
    /\ Done(r)
    /\ UNCHANGED <<ls, acts, overtaken>>

CheckSucceeds(r) ==
    /\ At(r, "me", "answered") /\ request[r].answer # Refused /\ caller[r] # None
    /\ tab' = [tab EXCEPT ![caller[r]] =
                 Rendered(@, [@ EXCEPT !.user = request[r].answer.user, !.loading = FALSE])]
    /\ Done(r)
    /\ UNCHANGED <<ls, acts, overtaken>>

\* The token is refused, or there is no answer at all: the user is logged out, with
\* whatever token is in localStorage by now.
CheckFails(r) ==
    /\ request[r] # None /\ request[r].kind = "me" /\ caller[r] # None
    /\ request[r].stage = "answered" => request[r].answer = Refused
    /\ tab' = [tab EXCEPT ![caller[r]] =
                 Rendered(@, [SignedOut(@) EXCEPT !.loading = FALSE])]
    /\ ls' = 0
    /\ overtaken' = overtaken \cup
         {u \in Tabs : IF u = caller[r] THEN tab[u].due \/ \E s \in Requests \ {r} : Awaits(u, s)
                                        ELSE tab[u].due}
    /\ Done(r)
    /\ UNCHANGED <<acts>>

\* (Mutant of Logout: the user stays in the state.)
LogoutKeepingUser(t) ==
    /\ tab[t].user # 0 /\ ~tab[t].loading /\ acts < MaxActs
    /\ acts' = acts + 1
    /\ ls' = 0
    /\ tab' = [tab EXCEPT ![t] =
                 Rendered(@, Visit(WithToken(@, 0, @.user), To("home")))]
    /\ NewSession(t)
    /\ UNCHANGED <<authVars, caller>>

\* The Logout button.
Logout(t) ==
    /\ tab[t].user # 0 /\ ~tab[t].loading /\ acts < MaxActs
    /\ acts' = acts + 1
    /\ ls' = 0
    /\ tab' = [tab EXCEPT ![t] = Rendered(@, Visit(SignedOut(@), To("home")))]
    /\ NewSession(t)
    /\ UNCHANGED <<authVars, caller>>

-----------------------------------------------------------------------------
(* The forms of Login and Register *)

\* handleSubmit up to its await; the button is disabled while a request is under way.
SubmitSignIn(t) ==
    /\ Screen(tab[t]) \in {"login", "register"} /\ tab[t].form \notin Requests
    /\ acts < MaxActs
    /\ acts' = acts + 1
    /\ \E r \in Requests, e \in Emails, pw \in Passwords :
          /\ Send(t, r, SignInRequest(Screen(tab[t]), e, pw))
          /\ tab' = [tab EXCEPT ![t].form = r]
    /\ UNCHANGED <<store, accounts, issued, expired, ls, overtaken>>

\* login or register of the AuthProvider, and the rest of handleSubmit: to the
\* dashboard, from wherever the user has gone since.
SignInSucceeds(r) ==
    LET t == caller[r]  a == request[r].answer IN
    /\ request[r] # None /\ request[r].kind # "me" /\ t # None
    /\ request[r].stage = "answered" /\ a # Refused
    /\ ls' = a.token
    /\ tab' = [tab EXCEPT ![t] =
                 Rendered(@, Visit(WithToken(@, a.token, a.user), To("dashboard")))]
    /\ NewSession(t) /\ Done(r)
    /\ UNCHANGED <<acts>>

\* Refused, or no answer: the form, if it is still there, shows it.
SignInFails(r) ==
    /\ request[r] # None /\ request[r].kind # "me" /\ caller[r] # None
    /\ request[r].stage = "answered" => request[r].answer = Refused
    /\ tab' = [tab EXCEPT ![caller[r]].form = IF @ = r THEN 0 ELSE @]
    /\ caller' = [caller EXCEPT ![r] = None]
    /\ request' = IF request[r].stage = "answered"
                  THEN [request EXCEPT ![r] = None] ELSE request
    /\ UNCHANGED <<store, accounts, issued, expired, ls, acts, overtaken>>

\* A request that nobody awaits any more ends at the server.
Forgotten(r) ==
    /\ request[r] # None /\ caller[r] = None /\ request[r].stage = "answered"
    /\ Done(r)
    /\ UNCHANGED <<ls, tab, acts, overtaken>>

-----------------------------------------------------------------------------

\* No account and no token; or one account, signed in a while ago in this browser or not.
WebAppInit ==
    /\ store \in Stores
    /\ \/ accounts = {} /\ issued = <<>> /\ ls = 0
       \/ \E e \in Emails, pw \in Passwords :
             /\ accounts = {[id |-> 1, email |-> e, password |-> pw]}
             /\ issued = <<1>> /\ ls \in {0, 1}
    /\ expired = {}
    /\ request = [r \in Requests |-> None] /\ caller = [r \in Requests |-> None]
    /\ \E url \in [Tabs -> Urls] : tab = [t \in Tabs |-> Loaded(<<url[t]>>, 1)]
    /\ acts = 0
    /\ overtaken = {}

ServeStep(r) == Serve(r) /\ UNCHANGED <<ls, tab, caller, acts, overtaken>>
ExpireStep   == Expire /\ UNCHANGED <<ls, tab, caller, acts, overtaken>>

TabStep(t) == \/ Traverse(t) \/ FollowLink(t) \/ Reload(t)
              \/ CheckAuth(t) \/ Logout(t) \/ SubmitSignIn(t)
AnswerStep(r) == \/ CheckSucceeds(r) \/ CheckFails(r)
                 \/ SignInSucceeds(r) \/ SignInFails(r) \/ Forgotten(r)

WebAppNext ==
    \/ \E t \in Tabs : TabStep(t)
    \/ \E r \in Requests : ServeStep(r) \/ AnswerStep(r)
    \/ ExpireStep

WebAppSpec == WebAppInit /\ [][WebAppNext]_webVars

-----------------------------------------------------------------------------

WebAppTypeOK ==
    /\ AuthTypeOK
    /\ ls \in 0 .. Len(issued)
    /\ tab \in [Tabs -> Tab]
    /\ \A t \in Tabs : tab[t].at \in 1 .. Len(tab[t].history)
    /\ caller \in [Requests -> Tabs \cup {None}]
    /\ acts \in 0 .. MaxActs
    /\ overtaken \subseteq Tabs

\* Unless the session changed while a check was under way, a tab that shows a user has
\* the token of that user, and one that has a token shows its user, at the latest
\* when the check has been answered.  Token, user and localStorage are set in different
\* places and by answers that may come late.
SessionConsistent ==
    \A t \in Tabs \ overtaken :
        /\ tab[t].user # 0 => tab[t].token # 0 /\ issued[tab[t].token] = tab[t].user
        /\ tab[t].token # 0 /\ ~Checking(t) => tab[t].user # 0

\* Nothing waits for what cannot come: behind "Loading application..." there is an effect
\* to run or an answer to get, and a form whose button is disabled has a request of its
\* own tab under way, however often the page was left, changed or loaded again.
NothingStuck ==
    \A t \in Tabs :
        /\ tab[t].loading => Checking(t)
        /\ tab[t].form # 0 => /\ caller[tab[t].form] = t
                             /\ request[tab[t].form] # None
                             /\ request[tab[t].form].kind # "me"

-----------------------------------------------------------------------------
(* Statements of the code that do not hold. *)

\* AuthContext.jsx:43, logout: no user is shown without a token.
UserHasToken == \A t \in Tabs : tab[t].user # 0 => tab[t].token # 0

\* api.js:41: the requests of a tab are made as the user it shows.
ActsAsShown == \A t \in Tabs : tab[t].user # 0 /\ ls # 0 => issued[ls] = tab[t].user
=============================================================================
