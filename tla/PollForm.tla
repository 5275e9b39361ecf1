------------------------------- MODULE PollForm -------------------------------
(***************************************************************************)
(* The form for a new poll, frontend/src/pages/CreatePoll.jsx, and what    *)
(* POST /api/polls makes of what it sends: the field bindings of           *)
(* models.CreatePollRequest and PollService.CreatePoll.                    *)
(*                                                                         *)
(* The form and the server each check the title and the options, in other  *)
(* words: lengths are UTF-16 units here and code points there, texts are   *)
(* trimmed and lowered by JavaScript here and by Go there.                 *)
(* Data abstractions: a title is its length; an option is a text, blanks   *)
(* around it, or both; the description is left out.                        *)
(***************************************************************************)
EXTENDS Naturals, Sequences, FiniteSets, SequencesExt

CONSTANTS
    Titles,     \* titles after trim: [units, runes], the two ways to count them
    Texts,      \* texts of options after the trim of the form
    Fields,     \* what is typed into the field of an option: [text, padded], where None
                \* is no text, and padded says that there are blanks around it
    LongTexts,  \* those of more than 200 code points
    TrimGo,     \* what strings.TrimSpace leaves of each, None if nothing: U+0085 is
                \* a blank for Go only
    LowerJS, LowerGo, \* what toLowerCase and strings.ToLower make of each text
    MaxOptions, \* options.length < 8 of the form
    MaxCreates, \* bound on the requests of the form
    None

ASSUME PollFormAssumption ==
    /\ Titles \subseteq [units : Nat, runes : Nat]
    /\ \A title \in Titles : title.runes <= title.units /\ title.units <= 250
    /\ None \notin Texts /\ LongTexts \subseteq Texts
    /\ TrimGo \in [Texts -> Texts \cup {None}]
    /\ DOMAIN LowerJS = Texts /\ DOMAIN LowerGo = Texts
    /\ Fields \subseteq [text : Texts \cup {None}, padded : BOOLEAN]
    /\ MaxOptions \in 2 .. 8 /\ MaxCreates \in Nat

Creates == 1 .. MaxCreates

Empty == [text |-> None, padded |-> FALSE]
Field == Fields \cup {Empty}
NoTitle == [units |-> 0, runes |-> 0]

VARIABLES
    page,       \* "create", "dashboard" or "results"
    form,       \* the state of the form; None while the page is not "create"
    create,     \* create[c]: a request of the form, None before it is sent
    polls       \* the polls at the server, in order of creation

formVars == <<page, form, create, polls>>

Form == [ title : Titles \cup {NoTitle}, options : Seq(Field),
          awaits : 0 .. MaxCreates ]    \* the request under way, loading; 0 for none

\* A request, how far it is, and the poll it has made.
Create == [ title : Titles, options : Seq(Texts),
            state : {"sent", "created", "refused", "over"}, poll : Nat ]

Poll == [ options : Seq(Texts), isActive : BOOLEAN, deleted : BOOLEAN ]

ASSUME NoFormAssumption == None \notin Form \cup Create

NewForm == [title |-> NoTitle, options |-> <<Empty, Empty>>, awaits |-> 0]

-----------------------------------------------------------------------------
(* Editing *)

\* A change to the fields.
Edit(new) ==
    /\ form' = new
    /\ UNCHANGED <<page, create, polls>>

ChangeTitle == \E title \in Titles : Edit([form EXCEPT !.title = title])

HandleOptionChange ==
    \E i \in DOMAIN form.options, x \in Field : Edit([form EXCEPT !.options[i] = x])

\* (Mutant of HandleAddOption: one more than the form may have.)
HandleAddOptionOnceMore ==
    /\ Len(form.options) <= MaxOptions
    /\ Edit([form EXCEPT !.options = Append(@, Empty)])

HandleAddOption ==
    /\ Len(form.options) < MaxOptions
    /\ Edit([form EXCEPT !.options = Append(@, Empty)])

HandleRemoveOption ==
    /\ Len(form.options) > 2
    /\ \E i \in DOMAIN form.options : Edit([form EXCEPT !.options = RemoveAt(@, i)])

-----------------------------------------------------------------------------
(* Sending *)

\* The n-th number of set S.
Nth(S, n) == CHOOSE i \in S : Cardinality({j \in S : j <= i}) = n

\* The texts that are not None, in their order.
NonBlank(texts) ==
    LET filled == {i \in DOMAIN texts : texts[i] # None}
    IN  [n \in 1 .. Cardinality(filled) |-> texts[Nth(filled, n)]]

\* The fields with a text, without the blanks around it.
CleanOptions == NonBlank([i \in DOMAIN form.options |-> form.options[i].text])

\* (Mutant of Unique: letters of either case are told apart.)
UniqueAsWritten(options) == IsInjective(options)

Unique(options) == IsInjective([i \in DOMAIN options |-> LowerJS[options[i]]])

\* The browser asks for every field, the button for a title that is not blank.
MaySubmit ==
    /\ form # None /\ form.awaits = 0 /\ form.title.units > 0
    /\ \A i \in DOMAIN form.options : form.options[i] # Empty

\* handleSubmit up to its await; a form that does not pass only shows a message.
HandleSubmit(c) ==
    /\ MaySubmit
    /\ form.title.units >= 3 /\ Len(CleanOptions) >= 2 /\ Unique(CleanOptions)
    /\ create[c] = None /\ \A b \in 1 .. c - 1 : create[b] # None
    /\ create' = [create EXCEPT ![c] = [title |-> form.title, options |-> CleanOptions,
                                        state |-> "sent", poll |-> 0]]
    /\ form' = [form EXCEPT !.awaits = c]
    /\ UNCHANGED <<page, polls>>

\* The bindings of CreatePollRequest.
Bound(title, options) ==
    /\ title.runes \in 3 .. 300
    /\ Len(options) \in 2 .. 10 /\ \A i \in DOMAIN options : options[i] \notin LongTexts

\* What is left of the options when the server has trimmed them and skipped the blank ones.
Kept(options) == NonBlank([i \in DOMAIN options |-> TrimGo[options[i]]])

\* PollService.CreatePoll: two options are left, and no two are the same when lowered.
Accepted(title, options) ==
    LET kept == Kept(options) IN
    /\ Bound(title, options)
    /\ Len(kept) >= 2
    /\ IsInjective([i \in DOMAIN kept |-> LowerGo[kept[i]]])

ServeCreate(c) ==
    /\ create[c] # None /\ create[c].state = "sent"
    /\ IF Accepted(create[c].title, create[c].options)
       THEN /\ polls' = Append(polls, [options |-> Kept(create[c].options),
                                       isActive |-> TRUE, deleted |-> FALSE])
            /\ create' = [create EXCEPT ![c].state = "created", ![c].poll = Len(polls) + 1]
       ELSE /\ create' = [create EXCEPT ![c].state = "refused"]
            /\ UNCHANGED polls
    /\ UNCHANGED <<page, form>>

\* The request is refused, or no answer arrives: the form, if it is still there, says so
\* and may be sent again.
CreateFails(c) ==
    /\ create[c] # None /\ create[c].state # "over"
    /\ create' = [create EXCEPT ![c].state = "over"]
    /\ form' = IF form # None /\ form.awaits = c THEN [form EXCEPT !.awaits = 0] ELSE form
    /\ UNCHANGED <<page, polls>>

FormStep ==
    \/ form # None /\ (ChangeTitle \/ HandleOptionChange \/ HandleAddOption \/ HandleRemoveOption)
    \/ \E c \in Creates : HandleSubmit(c) \/ ServeCreate(c) \/ CreateFails(c)

-----------------------------------------------------------------------------

PollFormTypeOK ==
    /\ page \in {"create", "dashboard", "results"}
    /\ form = None \/ (form \in Form /\ Len(form.options) \in 2 .. MaxOptions)
    /\ (form # None) = (page = "create")
    /\ create \in [Creates -> Create \cup {None}]
    /\ polls \in Seq(Poll)

\* The form and the server agree: what the form sends, the server takes, provided that
\* the two count, trim and lower the texts alike and no text is too long.  Otherwise there
\* would be polls that pass the form and that no one can create.
ServerAgrees ==
    \A c \in Creates : create[c] # None =>
        LET title == create[c].title  options == create[c].options IN
        (/\ title.runes = title.units
         /\ \A x \in Range(options) : x \notin LongTexts /\ TrimGo[x] = x
         /\ \A x, y \in Range(options) : LowerGo[x] = LowerGo[y] => LowerJS[x] = LowerJS[y])
        => Accepted(title, options) /\ create[c].state # "refused"

-----------------------------------------------------------------------------
(* Statements of the code that do not hold. *)

\* CreatePoll.jsx:35 and :41: a form that passes its checks makes a poll.
AcceptedByBoth == \A c \in Creates : create[c] # None => create[c].state # "refused"
=============================================================================
