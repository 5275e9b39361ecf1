------------------------------ MODULE Dashboard ------------------------------
(***************************************************************************)
(* The owner's pages in a tab: frontend/src/pages/Dashboard.jsx with the   *)
(* routes GET /api/polls, PATCH .../status and DELETE it uses, and the     *)
(* form of PollForm, between which the owner goes back and forth.          *)
(*                                                                         *)
(* The list is fetched once, when the dashboard is mounted; what the owner *)
(* does then is applied to it with the answers, which come in any order    *)
(* or not at all.  The buttons are not disabled meanwhile.  Another tab of *)
(* the owner may change and delete polls too.                              *)
(***************************************************************************)
EXTENDS PollForm

CONSTANTS
    UseMongo,   \* a change sets what the document says, if there is one; in memory the
                \* poll that was found is put back
    MaxCalls,   \* bound on the requests of the dashboard under way at a time
    MaxActs     \* bound on buttons pressed, pages visited and acts of the other tab

ASSUME DashboardAssumption == UseMongo \in BOOLEAN /\ MaxCalls \in Nat \ {0} /\ MaxActs \in Nat

Calls == 1 .. MaxCalls

VARIABLES
    list,       \* the polls of the list with the status it shows; None while it loads
    call,       \* call[k]: a request under way, or None
    acts,
    gone        \* history: polls that this dashboard was told are deleted

dashboardVars == <<formVars, list, call, acts, gone>>

\* The numbers of polls the server has.
Existing == {n \in DOMAIN polls : ~polls[n].deleted}

\* Some polls, each with its status.
List == UNION {[S -> BOOLEAN] : S \in SUBSET Creates}

\* A request; the closures of a dashboard that was left set no state ("here").
Call == [ kind : {"list", "toggle", "delete"}, poll : Nat, isActive : BOOLEAN,
          seen : List \cup {None}, here : BOOLEAN,
          answer : {"none", "found", "ok", "refused"} ]

ASSUME NoCallAssumption == None \notin List \cup Call

NewCall(kind, n, active) ==
    [kind |-> kind, poll |-> n, isActive |-> active, seen |-> None, here |-> TRUE, answer |-> "none"]

\* Request c takes the first place that is free among calls.
Sent(calls, c) ==
    LET k == CHOOSE k \in Calls : calls[k] = None /\ \A j \in 1 .. k - 1 : calls[j] # None
    IN  [calls EXCEPT ![k] = c]
Room(calls) == \E k \in Calls : calls[k] = None

Act == acts < MaxActs /\ acts' = acts + 1

-----------------------------------------------------------------------------
(* Going from page to page *)

\* The page becomes p.  The form is new, the list is fetched, and what the page left
\* behind is under way has no effect on a page.
Show(p) ==
    LET left == [k \in Calls |-> IF call[k] = None THEN None ELSE [call[k] EXCEPT !.here = FALSE]]
    IN  /\ page' = p
        /\ form' = IF p = "create" THEN NewForm ELSE None
        /\ list' = None /\ gone' = {}
        /\ IF p = "dashboard"
           THEN Room(left) /\ call' = Sent(left, NewCall("list", 0, FALSE))
           ELSE call' = left

Navigate(p) ==
    /\ Act /\ p # page
    /\ Show(p)
    /\ UNCHANGED <<create, polls>>

\* The rest of handleSubmit of the form, also when the owner has left it: to the results.
CreateSucceeds(c) ==
    /\ create[c] # None /\ create[c].state = "created"
    /\ create' = [create EXCEPT ![c].state = "over"]
    /\ Show("results")
    /\ UNCHANGED <<polls, acts>>

-----------------------------------------------------------------------------
(* The buttons of a poll in the list *)

HandleToggleStatus(n) ==
    /\ Act /\ Room(call)
    /\ list # None /\ n \in DOMAIN list
    /\ call' = Sent(call, NewCall("toggle", n, ~list[n]))
    /\ UNCHANGED <<formVars, list, gone>>

\* Confirmed by the owner.
HandleDelete(n) ==
    /\ Act /\ Room(call)
    /\ list # None /\ n \in DOMAIN list
    /\ call' = Sent(call, NewCall("delete", n, FALSE))
    /\ UNCHANGED <<formVars, list, gone>>

-----------------------------------------------------------------------------
(* The server *)

\* GET answers the list; PATCH and DELETE begin with GetPoll.
ServeCall(k) ==
    /\ call[k] # None /\ call[k].answer = "none"
    /\ call' = IF call[k].kind = "list"
               THEN [call EXCEPT ![k].answer = "ok",
                                 ![k].seen = [n \in Existing |-> polls[n].isActive]]
               ELSE [call EXCEPT ![k].answer = IF call[k].poll \in Existing THEN "found"
                                               ELSE "refused"]
    /\ UNCHANGED <<formVars, list, acts, gone>>

\* The second half of SetPollStatus and of DeletePoll: it is no error when the poll is gone
\* by now.
WriteCall(k) ==
    LET n == call[k].poll IN
    /\ call[k] # None /\ call[k].answer = "found"
    /\ polls' = IF call[k].kind = "delete" THEN [polls EXCEPT ![n].deleted = TRUE]
                ELSE [polls EXCEPT ![n].isActive = call[k].isActive,
                                   ![n].deleted = @ /\ UseMongo]
    /\ call' = [call EXCEPT ![k].answer = "ok"]
    /\ UNCHANGED <<page, form, create, list, acts, gone>>

\* Another tab does the same to a poll, reading and writing in one step.
OtherTab(n) ==
    /\ Act /\ n \in Existing
    /\ polls' \in {[polls EXCEPT ![n].isActive = ~@], [polls EXCEPT ![n].deleted = TRUE]}
    /\ UNCHANGED <<page, form, create, list, call, gone>>

-----------------------------------------------------------------------------
(* Answers *)

\* (Mutant of Relabel: the poll of the answer is put in the list.)
RelabelOrAdd(c) ==
    [n \in DOMAIN list \cup {c.poll} |-> IF n = c.poll THEN c.isActive ELSE list[n]]

\* The list with the status that the answer says, if the poll is still in it.
Relabel(c) == [n \in DOMAIN list |-> IF n = c.poll THEN c.isActive ELSE list[n]]

CallSucceeds(k) ==
    /\ call[k] # None /\ call[k].answer = "ok"
    /\ call' = [call EXCEPT ![k] = None]
    /\ LET c == call[k] IN
       /\ list' = CASE ~c.here             -> list
                    [] c.here /\ c.kind = "list"   -> c.seen
                    [] c.here /\ c.kind = "toggle" -> Relabel(c)
                    [] c.here /\ c.kind = "delete" ->
                          [n \in DOMAIN list \ {c.poll} |-> list[n]]
       /\ gone' = IF c.here /\ c.kind = "delete" THEN gone \cup {c.poll} ELSE gone
    /\ UNCHANGED <<formVars, acts>>

\* Refused, or no answer: an alert; without a list there is an empty one and an error.
CallFails(k) ==
    /\ call[k] # None
    /\ call' = [call EXCEPT ![k] = None]
    /\ list' = IF call[k].here /\ call[k].kind = "list" THEN <<>> ELSE list
    /\ UNCHANGED <<formVars, acts, gone>>

-----------------------------------------------------------------------------

DashboardInit ==
    /\ page = "create" /\ form = NewForm
    /\ create = [c \in Creates |-> None]
    /\ polls = <<>>
    /\ list = None /\ gone = {}
    /\ call = [k \in Calls |-> None]
    /\ acts = 0

DashboardNext ==
    \/ FormStep /\ UNCHANGED <<list, call, acts, gone>>
    \/ \E c \in Creates : CreateSucceeds(c)
    \/ \E p \in {"create", "dashboard", "results"} : Navigate(p)
    \/ \E n \in DOMAIN polls : HandleToggleStatus(n) \/ HandleDelete(n) \/ OtherTab(n)
    \/ \E k \in Calls : ServeCall(k) \/ WriteCall(k) \/ CallSucceeds(k) \/ CallFails(k)

DashboardSpec == DashboardInit /\ [][DashboardNext]_dashboardVars

-----------------------------------------------------------------------------

DashboardTypeOK ==
    /\ PollFormTypeOK
    /\ list = None \/ (list \in List /\ DOMAIN list \subseteq DOMAIN polls)
    /\ list # None => page = "dashboard"
    /\ call \in [Calls -> Call \cup {None}]
    /\ acts \in 0 .. MaxActs
    /\ gone \subseteq DOMAIN polls

\* A poll whose deletion was confirmed does not come back to the list while the page is
\* there, whatever answers to earlier requests arrive after that.
DeletedStaysOff == list # None => gone \cap DOMAIN list = {}

-----------------------------------------------------------------------------
(* Statements of the code that do not hold. *)

\* CreatePoll.jsx:61, "Jump directly to the newly created live poll results": that is
\* from the form.
JumpsFromForm == [][ page' = "results" /\ acts' = acts => page \in {"create", "results"} ]_dashboardVars

\* CreatePoll.jsx:182, "Publish & Start Live Poll": a form that is filled in once makes one poll.
OnePollPerForm == page = "create" /\ acts = 0 => Len(polls) <= 1
=============================================================================
