--------------------------- MODULE DashboardProofs ---------------------------
(* Proofs about PollForm and Dashboard, for every value of their constants. *)
EXTENDS Dashboard, FiniteSetTheorems, TLAPS

(***************************************************************************)
(* The form.                                                               *)
(***************************************************************************)

\* Every set of so many numbers has an n-th.
LEMMA NthExists ==
    ASSUME NEW m \in Nat, NEW S \in SUBSET (1 .. m), NEW n \in 1 .. Cardinality(S)
    PROVE  Nth(S, n) \in S
<1> DEFINE upTo(i) == {j \in S : j <= i}
           rank == [i \in S |-> Cardinality(upTo(i))]
<1>1. IsFiniteSet(1 .. m)
  BY FS_Interval
<1>2. IsFiniteSet(S) /\ Cardinality(S) \in Nat
  BY <1>1, FS_Subset, FS_CardinalityType
<1>3. ASSUME NEW i \in S
      PROVE  /\ IsFiniteSet(upTo(i)) /\ Cardinality(upTo(i)) \in Nat
             /\ Cardinality(upTo(i)) \in 1 .. Cardinality(S)
  <2>1. upTo(i) \in SUBSET S /\ i \in upTo(i)
    OBVIOUS
  <2>2. /\ IsFiniteSet(upTo(i)) /\ Cardinality(upTo(i)) <= Cardinality(S)
        /\ Cardinality(upTo(i)) \in Nat
    BY <1>2, <2>1, FS_Subset, FS_CardinalityType
  <2>3. Cardinality(upTo(i)) # 0
    BY <2>1, <2>2, FS_EmptySet
  <2> QED BY <1>2, <2>2, <2>3
<1>4. ASSUME NEW i \in S, NEW j \in S, i < j
      PROVE  Cardinality(upTo(i)) < Cardinality(upTo(j))
  <2>0. S \in SUBSET Nat
    OBVIOUS
  <2>1. upTo(i) \in SUBSET upTo(j) /\ j \in upTo(j) /\ j \notin upTo(i)
    <3>1. \A k \in S : k <= i => k <= j
      BY <1>4, <2>0
    <3>2. j <= j /\ ~(j <= i)
      BY <1>4, <2>0
    <3> QED BY <3>1, <3>2, Zenon
  <2>2. /\ Cardinality(upTo(i)) <= Cardinality(upTo(j))
        /\ Cardinality(upTo(j)) = Cardinality(upTo(i)) => upTo(i) = upTo(j)
    <3>1. IsFiniteSet(upTo(j))
      BY <1>3
    <3> HIDE DEF upTo
    <3> QED BY <2>1, <3>1, FS_Subset
  <2>3. Cardinality(upTo(i)) # Cardinality(upTo(j))
    BY <2>1, <2>2
  <2>4. Cardinality(upTo(i)) \in Nat /\ Cardinality(upTo(j)) \in Nat
    BY <1>3
  <2> HIDE DEF upTo
  <2> QED BY <2>2, <2>3, <2>4
<1> HIDE DEF upTo
<1>5. rank \in Injection(S, 1 .. Cardinality(S))
  <2>1. rank \in [S -> 1 .. Cardinality(S)]
    BY <1>3
  <2>2. ASSUME NEW i \in S, NEW j \in S, rank[i] = rank[j]
        PROVE  i = j
    <3>1. ~(i < j) /\ ~(j < i)
      BY <1>3, <1>4, <2>2
    <3> QED BY <3>1
  <2> QED BY <2>1, <2>2 DEF Injection, IsInjective
<1>6. IsFiniteSet(1 .. Cardinality(S)) /\ Cardinality(1 .. Cardinality(S)) = Cardinality(S)
  BY <1>2, FS_Interval
<1>7. rank \in Surjection(S, 1 .. Cardinality(S))
  BY <1>2, <1>5, <1>6, FS_Injection
<1>8. \E i \in S : Cardinality({j \in S : j <= i}) = n
  <2>1. \E i \in S : rank[i] = n
    BY <1>7 DEF Surjection
  <2> QED BY <2>1 DEF upTo
<1> QED BY <1>8 DEF Nth

LEMMA NonBlankTypes ==
    ASSUME NEW m \in Nat, NEW texts \in [1 .. m -> Texts \cup {None}]
    PROVE  NonBlank(texts) \in Seq(Texts) /\ Len(NonBlank(texts)) <= m
<1> DEFINE filled == {i \in DOMAIN texts : texts[i] # None}
<1>1. filled \in SUBSET (1 .. m)
  OBVIOUS
<1>2. IsFiniteSet(1 .. m) /\ Cardinality(1 .. m) = m
  BY FS_Interval
<1>3. Cardinality(filled) \in Nat /\ Cardinality(filled) <= m
  BY <1>1, <1>2, FS_Subset, FS_CardinalityType
<1>4. ASSUME NEW n \in 1 .. Cardinality(filled)
      PROVE  texts[Nth(filled, n)] \in Texts
  <2>1. Nth(filled, n) \in filled
    BY <1>1, NthExists
  <2> QED BY <2>1
<1>5. NonBlank(texts) = [n \in 1 .. Cardinality(filled) |-> texts[Nth(filled, n)]]
  BY DEF NonBlank
<1> HIDE DEF filled
<1> QED BY <1>3, <1>4, <1>5

\* The n-th number of 1 .. m is n.
LEMMA NthOfAll ==
    ASSUME NEW m \in Nat, NEW n \in 1 .. m
    PROVE  Nth(1 .. m, n) = n
<1>1. ASSUME NEW i \in 1 .. m
      PROVE  Cardinality({j \in 1 .. m : j <= i}) = i
  <2>1. {j \in 1 .. m : j <= i} = 1 .. i
    OBVIOUS
  <2>2. Cardinality(1 .. i) = i
    BY FS_Interval
  <2> QED BY <2>1, <2>2
<1> QED BY <1>1 DEF Nth

\* Where no text is blank, all of them stay.
LEMMA NonBlankOfAll ==
    ASSUME NEW m \in Nat, NEW texts \in [1 .. m -> Texts]
    PROVE  NonBlank(texts) = texts
<1>1. {i \in DOMAIN texts : texts[i] # None} = 1 .. m
  BY PollFormAssumption
<1>2. Cardinality(1 .. m) = m
  BY FS_Interval
<1>3. NonBlank(texts) = [n \in 1 .. m |-> texts[Nth(1 .. m, n)]]
  BY <1>1, <1>2 DEF NonBlank
<1> QED BY <1>3, NthOfAll

LEMMA CleanOptionsTypes ==
    ASSUME form \in Form
    PROVE  CleanOptions \in Seq(Texts) /\ Len(CleanOptions) <= Len(form.options)
<1> DEFINE texts == [i \in DOMAIN form.options |-> form.options[i].text]
<1>1. /\ form.options \in Seq(Field) /\ DOMAIN form.options = 1 .. Len(form.options)
      /\ Len(form.options) \in Nat
  BY DEF Form
<1>2. ASSUME NEW i \in DOMAIN form.options
      PROVE  form.options[i].text \in Texts \cup {None}
  <2>1. form.options[i] \in Field
    BY <1>1
  <2>2. CASE form.options[i] \in Fields
    <3>1. form.options[i] \in [text : Texts \cup {None}, padded : BOOLEAN]
      BY <2>2, PollFormAssumption
    <3> QED BY <3>1
  <2>3. CASE form.options[i] = Empty
    BY <2>3 DEF Empty
  <2> QED BY <2>1, <2>2, <2>3 DEF Field
<1>3. texts \in [1 .. Len(form.options) -> Texts \cup {None}]
  BY <1>1, <1>2
<1> HIDE DEF texts
<1>4. NonBlank(texts) \in Seq(Texts) /\ Len(NonBlank(texts)) <= Len(form.options)
  BY <1>1, <1>3, NonBlankTypes
<1> QED BY <1>4 DEF CleanOptions, texts

LEMMA KeptTypes ==
    ASSUME NEW options \in Seq(Texts)
    PROVE  Kept(options) \in Seq(Texts)
<1> DEFINE trimmed == [i \in DOMAIN options |-> TrimGo[options[i]]]
<1>1. trimmed \in [1 .. Len(options) -> Texts \cup {None}] /\ Len(options) \in Nat
  BY PollFormAssumption
<1> HIDE DEF trimmed
<1>2. NonBlank(trimmed) \in Seq(Texts)
  BY <1>1, NonBlankTypes
<1> QED BY <1>2 DEF Kept, trimmed

\* A request of the form keeps its checks, and is refused only by the server's.
GoodRequests ==
    \A c \in Creates : create[c] # None =>
        /\ Len(create[c].options) \in 2 .. MaxOptions /\ Unique(create[c].options)
        /\ create[c].title.units >= 3
        /\ create[c].state = "refused" => ~Accepted(create[c].title, create[c].options)

\* A poll was made by a request of its own.
MadeByRequest ==
    /\ \A n \in DOMAIN polls : \E c \in Creates : create[c] # None /\ create[c].poll = n
    /\ \A c \in Creates : create[c] # None /\ create[c].state = "sent" => create[c].poll = 0

FormInv == PollFormTypeOK /\ GoodRequests /\ MadeByRequest

LEMMA NoneIsNothing ==
    /\ None \notin Form /\ None \notin Create /\ None \notin Call /\ None \notin List
    /\ NewForm \in Form /\ Len(NewForm.options) \in 2 .. MaxOptions
<1>1. NewForm \in Form
  BY PollFormAssumption DEF NewForm, Form, Field, Empty, NoTitle
<1>2. Len(NewForm.options) \in 2 .. MaxOptions
  BY PollFormAssumption DEF NewForm
<1> QED BY <1>1, <1>2, NoFormAssumption, NoCallAssumption

LEMMA CountOfPolls ==
    ASSUME FormInv
    PROVE  /\ Len(polls) \in Nat /\ DOMAIN polls = 1 .. Len(polls)
           /\ Len(polls) <= MaxCreates /\ DOMAIN polls \subseteq Creates
<1> DEFINE maker == [n \in DOMAIN polls |->
                        CHOOSE c \in Creates : create[c] # None /\ create[c].poll = n]
<1>1. polls \in Seq(Poll)
  BY DEF FormInv, PollFormTypeOK
<1>2. Len(polls) \in Nat /\ DOMAIN polls = 1 .. Len(polls)
  BY <1>1
<1>3. \A n \in DOMAIN polls : maker[n] \in Creates /\ create[maker[n]].poll = n
  BY DEF FormInv, MadeByRequest
<1>4. maker \in [DOMAIN polls -> Creates]
  BY <1>3
<1> HIDE DEF maker
<1>5. maker \in Injection(DOMAIN polls, Creates)
  BY <1>3, <1>4 DEF Injection, IsInjective
<1>6. IsFiniteSet(Creates) /\ Cardinality(Creates) = MaxCreates
  BY PollFormAssumption, FS_Interval DEF Creates
<1>7. Cardinality(DOMAIN polls) <= MaxCreates
  BY <1>5, <1>6, FS_Injection
<1>8. Cardinality(DOMAIN polls) = Len(polls)
  <2>1. \A n \in Nat : Cardinality(1 .. n) = n
    BY FS_Interval
  <2> QED BY <1>2, <2>1
<1>9. Len(polls) <= MaxCreates /\ MaxCreates \in Nat
  BY <1>7, <1>8, PollFormAssumption
<1>10. 1 .. Len(polls) \subseteq Creates
  BY <1>2, <1>9 DEF Creates
<1> QED BY <1>2, <1>9, <1>10

LEMMA EditInv ==
    ASSUME FormInv, form # None,
           ChangeTitle \/ HandleOptionChange \/ HandleAddOption \/ HandleRemoveOption
    PROVE  FormInv'
<1>1. /\ UNCHANGED <<page, create, polls>> /\ page = "create"
      /\ form \in Form /\ Len(form.options) \in 2 .. MaxOptions
  BY DEF ChangeTitle, HandleOptionChange, HandleAddOption, HandleRemoveOption, Edit, FormInv, PollFormTypeOK
<1>2. /\ form.options \in Seq(Field) /\ form.title \in Titles \cup {NoTitle}
      /\ form.awaits \in 0 .. MaxCreates
      /\ form = [title |-> form.title, options |-> form.options, awaits |-> form.awaits]
  BY <1>1 DEF Form
<1>3. form' \in Form /\ Len(form'.options) \in 2 .. MaxOptions
  <2>1. CASE ChangeTitle
    BY <1>1, <2>1 DEF ChangeTitle, Edit, Form
  <2>2. CASE HandleOptionChange
    <3>1. PICK i \in DOMAIN form.options, x \in Field : form' = [form EXCEPT !.options[i] = x]
      BY <2>2 DEF HandleOptionChange, Edit
    <3>2. /\ [form.options EXCEPT ![i] = x] \in Seq(Field)
          /\ Len([form.options EXCEPT ![i] = x]) = Len(form.options)
      BY <1>2
    <3>3. form' = [form EXCEPT !.options = [form.options EXCEPT ![i] = x]]
      BY <3>1
    <3> QED BY <1>1, <3>2, <3>3 DEF Form
  <2>3. CASE HandleAddOption
    <3>1. /\ form' = [form EXCEPT !.options = Append(form.options, Empty)]
          /\ Len(form.options) < MaxOptions
      BY <2>3 DEF HandleAddOption, Edit
    <3>2. /\ Append(form.options, Empty) \in Seq(Field)
          /\ Len(Append(form.options, Empty)) = Len(form.options) + 1
      BY <1>2 DEF Field
    <3>3. Len(form.options) + 1 \in 2 .. MaxOptions
      BY <1>1, <3>1, PollFormAssumption
    <3> QED BY <1>1, <3>1, <3>2, <3>3 DEF Form
  <2>4. CASE HandleRemoveOption
    <3>1. PICK i \in DOMAIN form.options : form' = [form EXCEPT !.options = RemoveAt(form.options, i)]
      BY <2>4 DEF HandleRemoveOption, Edit
    <3>2. Len(form.options) > 2
      BY <2>4 DEF HandleRemoveOption
    <3>3. /\ RemoveAt(form.options, i) \in Seq(Field)
          /\ Len(RemoveAt(form.options, i)) = Len(form.options) - 1
      <4>1. i \in 1 .. Len(form.options) /\ Len(form.options) \in Nat
        BY <1>2
      <4>2. /\ SubSeq(form.options, 1, i - 1) \in Seq(Field)
            /\ Len(SubSeq(form.options, 1, i - 1)) = i - 1
        BY <1>2, <4>1
      <4>3. /\ SubSeq(form.options, i + 1, Len(form.options)) \in Seq(Field)
            /\ Len(SubSeq(form.options, i + 1, Len(form.options))) = Len(form.options) - i
        BY <1>2, <4>1
      <4> DEFINE left  == SubSeq(form.options, 1, i - 1)
                 right == SubSeq(form.options, i + 1, Len(form.options))
      <4>4. RemoveAt(form.options, i) = left \o right
        BY DEF RemoveAt
      <4> HIDE DEF left, right
      <4>5. left \o right \in Seq(Field) /\ Len(left \o right) = Len(left) + Len(right)
        BY <4>2, <4>3 DEF left, right
      <4>6. Len(left) + Len(right) = Len(form.options) - 1
        BY <4>1, <4>2, <4>3 DEF left, right
      <4> QED BY <4>4, <4>5, <4>6
    <3>4. Len(form.options) - 1 \in 2 .. MaxOptions
      BY <1>1, <3>2, PollFormAssumption
    <3> QED BY <1>1, <3>1, <3>3, <3>4 DEF Form
  <2> QED BY <2>1, <2>2, <2>3, <2>4
<1>4. form' # None
  BY <1>3, NoneIsNothing
<1> QED BY <1>1, <1>3, <1>4 DEF FormInv, PollFormTypeOK, GoodRequests, MadeByRequest

LEMMA HandleSubmitInv ==
    ASSUME FormInv, NEW c \in Creates, HandleSubmit(c)
    PROVE  FormInv'
<1> DEFINE q == [title |-> form.title, options |-> CleanOptions, state |-> "sent", poll |-> 0]
<1>1. /\ form \in Form /\ Len(form.options) \in 2 .. MaxOptions /\ page = "create"
      /\ form.title.units >= 3 /\ Len(CleanOptions) >= 2 /\ Unique(CleanOptions)
      /\ create[c] = None
      /\ create' = [create EXCEPT ![c] = q]
      /\ form' = [form EXCEPT !.awaits = c]
      /\ UNCHANGED <<page, polls>>
  BY DEF HandleSubmit, MaySubmit, FormInv, PollFormTypeOK
<1>2. form.title \in Titles
  <2>1. form.title \in Titles \cup {NoTitle} /\ NoTitle.units = 0
    BY <1>1 DEF Form, NoTitle
  <2> QED BY <1>1, <2>1
<1>3. CleanOptions \in Seq(Texts) /\ Len(CleanOptions) \in 2 .. MaxOptions
  <2>1. CleanOptions \in Seq(Texts) /\ Len(CleanOptions) <= Len(form.options)
    BY <1>1, CleanOptionsTypes
  <2>2. Len(CleanOptions) \in Nat
    BY <2>1
  <2> QED BY <1>1, <2>1, <2>2, PollFormAssumption
<1>4. q \in Create /\ q # None
  BY <1>2, <1>3, NoneIsNothing DEF Create
<1>5. form' \in Form /\ form'.options = form.options /\ form' # None
  <2>1. form' \in Form /\ form'.options = form.options
    BY <1>1 DEF Form, Creates
  <2> QED BY <2>1, NoneIsNothing
<1>6. /\ q.options = CleanOptions /\ q.title = form.title /\ q.state = "sent" /\ q.poll = 0
  OBVIOUS
<1> HIDE DEF q
<1>7. create'[c] = q /\ \A b \in Creates \ {c} : create'[b] = create[b]
  BY <1>1 DEF FormInv, PollFormTypeOK
<1>8. PollFormTypeOK'
  <2>1. create' \in [Creates -> Create \cup {None}]
    BY <1>1, <1>4 DEF FormInv, PollFormTypeOK
  <2> QED BY <1>1, <1>5, <2>1 DEF FormInv, PollFormTypeOK
<1>9. GoodRequests'
  <2> SUFFICES ASSUME NEW b \in Creates, create'[b] # None
               PROVE  /\ Len(create'[b].options) \in 2 .. MaxOptions /\ Unique(create'[b].options)
                      /\ create'[b].title.units >= 3
                      /\ create'[b].state = "refused" => ~Accepted(create'[b].title, create'[b].options)
    BY DEF GoodRequests
  <2>1. CASE b = c
    BY <1>1, <1>3, <1>6, <1>7, <2>1
  <2>2. CASE b # c
    BY <1>7, <2>2 DEF FormInv, GoodRequests
  <2> QED BY <2>1, <2>2
<1>10. MadeByRequest'
  BY <1>1, <1>4, <1>6, <1>7 DEF FormInv, MadeByRequest
<1> QED BY <1>8, <1>9, <1>10 DEF FormInv

LEMMA ServeCreateInv ==
    ASSUME FormInv, NEW c \in Creates, ServeCreate(c)
    PROVE  FormInv'
<1>1. /\ create[c] # None /\ create[c].state = "sent" /\ UNCHANGED <<page, form>>
      /\ create[c] \in Create /\ polls \in Seq(Poll) /\ create[c].poll = 0
      /\ create \in [Creates -> Create \cup {None}]
  BY DEF ServeCreate, FormInv, PollFormTypeOK, MadeByRequest
<1>2. CASE Accepted(create[c].title, create[c].options)
  <2> DEFINE new == [options |-> Kept(create[c].options), isActive |-> TRUE, deleted |-> FALSE]
             q   == [create[c] EXCEPT !.state = "created", !.poll = Len(polls) + 1]
  <2>1. polls' = Append(polls, new) /\ create' = [create EXCEPT ![c] = q]
    BY <1>2 DEF ServeCreate
  <2>2. new \in Poll
    BY <1>1, KeptTypes DEF Create, Poll
  <2>3. /\ q \in Create /\ q.title = create[c].title /\ q.options = create[c].options
        /\ q.state = "created" /\ q.poll = Len(polls) + 1
    <3>1. Len(polls) + 1 \in Nat
      BY <1>1
    <3> QED BY <1>1, <3>1 DEF Create
  <2> HIDE DEF new, q
  <2>4. /\ polls' \in Seq(Poll) /\ Len(polls) \in Nat
        /\ \A n \in DOMAIN polls' : n \in DOMAIN polls \/ n = Len(polls) + 1
    BY <1>1, <2>1, <2>2
  <2>5. create'[c] = q /\ \A b \in Creates \ {c} : create'[b] = create[b]
    BY <1>1, <2>1
  <2>6. q # None
    BY <2>3, NoneIsNothing
  <2>7. PollFormTypeOK'
    <3>1. create' \in [Creates -> Create \cup {None}]
      BY <1>1, <2>1, <2>3
    <3> QED BY <1>1, <2>4, <3>1 DEF FormInv, PollFormTypeOK
  <2>8. GoodRequests'
    <3> SUFFICES ASSUME NEW b \in Creates, create'[b] # None
                 PROVE  /\ Len(create'[b].options) \in 2 .. MaxOptions /\ Unique(create'[b].options)
                        /\ create'[b].title.units >= 3
                        /\ create'[b].state = "refused" => ~Accepted(create'[b].title, create'[b].options)
      BY DEF GoodRequests
    <3>1. CASE b = c
      BY <1>1, <2>3, <2>5, <3>1 DEF FormInv, GoodRequests
    <3>2. CASE b # c
      BY <2>5, <3>2 DEF FormInv, GoodRequests
    <3> QED BY <3>1, <3>2
  <2>9. MadeByRequest'
    <3>1. ASSUME NEW n \in DOMAIN polls'
          PROVE  \E b \in Creates : create'[b] # None /\ create'[b].poll = n
      <4>1. CASE n = Len(polls) + 1
        BY <2>3, <2>5, <2>6, <4>1
      <4>2. CASE n \in DOMAIN polls
        <5>1. PICK b \in Creates : create[b] # None /\ create[b].poll = n
          BY <4>2 DEF FormInv, MadeByRequest
        <5>2. b # c
          BY <1>1, <4>2, <5>1
        <5> QED BY <2>5, <5>1, <5>2
      <4> QED BY <2>4, <4>1, <4>2
    <3>2. \A b \in Creates : create'[b] # None /\ create'[b].state = "sent" => create'[b].poll = 0
      BY <2>3, <2>5 DEF FormInv, MadeByRequest
    <3> QED BY <3>1, <3>2 DEF MadeByRequest
  <2> QED BY <2>7, <2>8, <2>9 DEF FormInv
<1>3. CASE ~Accepted(create[c].title, create[c].options)
  <2> DEFINE q == [create[c] EXCEPT !.state = "refused"]
  <2>1. UNCHANGED polls /\ create' = [create EXCEPT ![c] = q]
    BY <1>3 DEF ServeCreate
  <2>2. /\ q \in Create /\ q.title = create[c].title /\ q.options = create[c].options
        /\ q.state = "refused" /\ q.poll = create[c].poll
    BY <1>1 DEF Create
  <2> HIDE DEF q
  <2>3. q # None /\ create'[c] = q /\ \A b \in Creates \ {c} : create'[b] = create[b]
    BY <1>1, <2>1, <2>2, NoneIsNothing
  <2>4. PollFormTypeOK'
    <3>1. create' \in [Creates -> Create \cup {None}]
      BY <1>1, <2>1, <2>2
    <3> QED BY <1>1, <2>1, <3>1 DEF FormInv, PollFormTypeOK
  <2>5. GoodRequests'
    <3> SUFFICES ASSUME NEW b \in Creates, create'[b] # None
                 PROVE  /\ Len(create'[b].options) \in 2 .. MaxOptions /\ Unique(create'[b].options)
                        /\ create'[b].title.units >= 3
                        /\ create'[b].state = "refused" => ~Accepted(create'[b].title, create'[b].options)
      BY DEF GoodRequests
    <3>1. CASE b = c
      BY <1>1, <1>3, <2>2, <2>3, <3>1 DEF FormInv, GoodRequests
    <3>2. CASE b # c
      BY <2>3, <3>2 DEF FormInv, GoodRequests
    <3> QED BY <3>1, <3>2
  <2>6. MadeByRequest'
    BY <1>1, <2>1, <2>2, <2>3 DEF FormInv, MadeByRequest
  <2> QED BY <2>4, <2>5, <2>6 DEF FormInv
<1> QED BY <1>2, <1>3

\* A request is over, and the rest is left to the page.
LEMMA RequestOver ==
    ASSUME FormInv, NEW c \in Creates, create[c] # None,
           create' = [create EXCEPT ![c].state = "over"], UNCHANGED polls
    PROVE  /\ create' \in [Creates -> Create \cup {None}] /\ GoodRequests' /\ MadeByRequest'
<1> DEFINE q == [create[c] EXCEPT !.state = "over"]
<1>1. create[c] \in Create /\ create \in [Creates -> Create \cup {None}]
  BY DEF FormInv, PollFormTypeOK
<1>2. /\ q \in Create /\ q.title = create[c].title /\ q.options = create[c].options
      /\ q.state = "over" /\ q.poll = create[c].poll
  BY <1>1 DEF Create
<1>3. create' = [create EXCEPT ![c] = q]
  OBVIOUS
<1> HIDE DEF q
<1>4. q # None /\ create'[c] = q /\ \A b \in Creates \ {c} : create'[b] = create[b]
  BY <1>1, <1>2, <1>3, NoneIsNothing
<1>5. GoodRequests'
  <2> SUFFICES ASSUME NEW b \in Creates, create'[b] # None
               PROVE  /\ Len(create'[b].options) \in 2 .. MaxOptions /\ Unique(create'[b].options)
                      /\ create'[b].title.units >= 3
                      /\ create'[b].state = "refused" => ~Accepted(create'[b].title, create'[b].options)
    BY DEF GoodRequests
  <2>1. CASE b = c
    BY <1>2, <1>4, <2>1 DEF FormInv, GoodRequests
  <2>2. CASE b # c
    BY <1>4, <2>2 DEF FormInv, GoodRequests
  <2> QED BY <2>1, <2>2
<1>6. MadeByRequest'
  BY <1>2, <1>4 DEF FormInv, MadeByRequest
<1>7. create' \in [Creates -> Create \cup {None}]
  BY <1>1, <1>2, <1>3
<1> QED BY <1>5, <1>6, <1>7

LEMMA CreateFailsInv ==
    ASSUME FormInv, NEW c \in Creates, CreateFails(c)
    PROVE  FormInv'
<1>1. /\ create[c] # None /\ create' = [create EXCEPT ![c].state = "over"] /\ UNCHANGED <<page, polls>>
      /\ form' = IF form # None /\ form.awaits = c THEN [form EXCEPT !.awaits = 0] ELSE form
  BY DEF CreateFails
<1>2. /\ form' = None \/ (form' \in Form /\ Len(form'.options) \in 2 .. MaxOptions)
      /\ (form' # None) = (page = "create")
  <2>1. CASE form' = form
    BY <2>1 DEF FormInv, PollFormTypeOK
  <2>2. CASE form # None /\ form' = [form EXCEPT !.awaits = 0]
    <3>1. form \in Form /\ Len(form.options) \in 2 .. MaxOptions /\ page = "create"
      BY <2>2 DEF FormInv, PollFormTypeOK
    <3>2. form' \in Form /\ form'.options = form.options
      BY <2>2, <3>1, PollFormAssumption DEF Form
    <3> QED BY <3>1, <3>2, NoneIsNothing
  <2> QED BY <1>1, <2>1, <2>2
<1> QED BY <1>1, <1>2, RequestOver DEF FormInv, PollFormTypeOK

LEMMA FormStepInv ==
    ASSUME FormInv, FormStep
    PROVE  FormInv'
BY EditInv, HandleSubmitInv, ServeCreateInv, CreateFailsInv DEF FormStep

LEMMA Bounds ==
    ASSUME NEW n \in 2 .. MaxOptions, NEW title \in Titles, title.units >= 3,
           title.runes = title.units
    PROVE  n \in 2 .. 10 /\ title.runes \in 3 .. 300
<1>1. title.units \in Nat /\ title.units <= 250 /\ MaxOptions \in 2 .. 8
  BY PollFormAssumption
<1> QED BY <1>1

\* What passes the form and is counted, trimmed and lowered alike passes the server.
LEMMA FormToServer ==
    ASSUME NEW title \in Titles, NEW options \in Seq(Texts),
           title.units >= 3, Len(options) \in 2 .. MaxOptions, Unique(options),
           title.runes = title.units,
           \A x \in Range(options) : x \notin LongTexts /\ TrimGo[x] = x,
           \A x, y \in Range(options) : LowerGo[x] = LowerGo[y] => LowerJS[x] = LowerJS[y]
    PROVE  Accepted(title, options)
<1>1. title.runes \in 3 .. 300 /\ Len(options) \in 2 .. 10
  BY Bounds, Zenon
<1>2. \A i \in DOMAIN options : options[i] \in Range(options)
  BY DEF Range
<1>3. Bound(title, options)
  BY <1>1, <1>2 DEF Bound
<1>4. Kept(options) = options
  <2>1. [i \in DOMAIN options |-> TrimGo[options[i]]] = options
    BY <1>2
  <2>2. options \in [1 .. Len(options) -> Texts] /\ Len(options) \in Nat
    OBVIOUS
  <2>3. NonBlank(options) = options
    BY <2>2, NonBlankOfAll
  <2> QED BY <2>1, <2>3 DEF Kept
<1>5. IsInjective([i \in DOMAIN options |-> LowerGo[options[i]]])
  <2>1. \A i, j \in DOMAIN options : LowerJS[options[i]] = LowerJS[options[j]] => i = j
    BY DEF Unique, IsInjective
  <2> QED BY <1>2, <2>1 DEF IsInjective
<1>6. Len(options) >= 2
  BY <1>1
<1> QED BY <1>3, <1>4, <1>5, <1>6 DEF Accepted

LEMMA Agreement ==
    ASSUME FormInv
    PROVE  ServerAgrees
<1>1. ASSUME NEW c \in Creates, create[c] # None
      PROVE  /\ create[c].title \in Titles /\ create[c].options \in Seq(Texts)
             /\ Len(create[c].options) \in 2 .. MaxOptions /\ Unique(create[c].options)
             /\ create[c].title.units >= 3
             /\ create[c].state = "refused" => ~Accepted(create[c].title, create[c].options)
  BY <1>1 DEF FormInv, PollFormTypeOK, GoodRequests, Create
<1> QED BY <1>1, FormToServer DEF ServerAgrees

(***************************************************************************)
(* The list.                                                               *)
(***************************************************************************)

\* What the requests under way are about.
CallsFit ==
    \A k \in Calls : call[k] # None =>
        /\ call[k].kind # "list" => call[k].poll \in DOMAIN polls
        /\ call[k].answer = "found" => call[k].kind # "list"
        /\ call[k].seen # None => DOMAIN call[k].seen \subseteq DOMAIN polls

\* A dashboard asks for the list once, and its buttons appear with the list.
ListFirst ==
    /\ \A k \in Calls : call[k] # None /\ call[k].here =>
          /\ page = "dashboard"
          /\ IF call[k].kind = "list" THEN list = None ELSE list # None
    /\ \A j, k \in Calls :
          /\ call[j] # None /\ call[j].here /\ call[j].kind = "list"
          /\ call[k] # None /\ call[k].here /\ call[k].kind = "list"
          => j = k
    /\ list = None => gone = {}

DashboardInv == FormInv /\ DashboardTypeOK /\ CallsFit /\ ListFirst /\ DeletedStaysOff

LEMMA InitDashboard ==
    ASSUME DashboardInit
    PROVE  DashboardInv
<1>1. FormInv
  BY NoneIsNothing DEF DashboardInit, FormInv, PollFormTypeOK, GoodRequests, MadeByRequest
<1>2. DashboardTypeOK
  BY <1>1, DashboardAssumption DEF DashboardInit, DashboardTypeOK, FormInv
<1>3. CallsFit /\ ListFirst /\ DeletedStaysOff
  BY DEF DashboardInit, CallsFit, ListFirst, DeletedStaysOff
<1> QED BY <1>1, <1>2, <1>3 DEF DashboardInv

LEMMA NewCallType ==
    ASSUME NEW kind \in {"list", "toggle", "delete"}, NEW n \in Nat, NEW active \in BOOLEAN
    PROVE  /\ NewCall(kind, n, active) \in Call /\ NewCall(kind, n, active) # None
           /\ NewCall(kind, n, active).kind = kind /\ NewCall(kind, n, active).poll = n
           /\ NewCall(kind, n, active).here /\ NewCall(kind, n, active).seen = None
           /\ NewCall(kind, n, active).answer = "none"
<1>1. NewCall(kind, n, active) \in Call
  BY DEF NewCall, Call
<1> QED BY <1>1, NoneIsNothing DEF NewCall

LEMMA ListCall ==
    /\ NewCall("list", 0, FALSE) \in Call /\ NewCall("list", 0, FALSE) # None
    /\ NewCall("list", 0, FALSE).kind = "list" /\ NewCall("list", 0, FALSE).here
    /\ NewCall("list", 0, FALSE).seen = None /\ NewCall("list", 0, FALSE).answer = "none"
<1>1. NewCall("list", 0, FALSE) \in Call
  BY DEF NewCall, Call
<1> QED BY <1>1, NoneIsNothing DEF NewCall

\* A request takes at most one place.
LEMMA SentParts ==
    ASSUME NEW calls \in [Calls -> Call \cup {None}], NEW c \in Call
    PROVE  /\ Sent(calls, c) \in [Calls -> Call \cup {None}]
           /\ \A k \in Calls : Sent(calls, c)[k] = calls[k] \/ Sent(calls, c)[k] = c
           /\ \A j, k \in Calls : Sent(calls, c)[j] # calls[j] /\ Sent(calls, c)[k] # calls[k] => j = k
<1> DEFINE p == CHOOSE k \in Calls : calls[k] = None /\ \A j \in 1 .. k - 1 : calls[j] # None
<1>1. Sent(calls, c) = [calls EXCEPT ![p] = c]
  BY DEF Sent
<1> HIDE DEF p
<1> QED BY <1>1

\* The form goes on while the list is not there.
LEMMA FormStepList ==
    ASSUME DashboardInv, FormStep, UNCHANGED <<list, call, acts, gone>>
    PROVE  DashboardInv'
<1>1. FormInv'
  BY FormStepInv DEF DashboardInv
<1>2. page' = page
  BY DEF FormStep, ChangeTitle, HandleOptionChange, HandleAddOption, HandleRemoveOption, Edit,
     HandleSubmit, ServeCreate, CreateFails
<1>3. DOMAIN polls \subseteq DOMAIN polls'
  <2>1. polls' = polls \/ \E x : polls' = Append(polls, x)
    BY DEF FormStep, ChangeTitle, HandleOptionChange, HandleAddOption, HandleRemoveOption, Edit,
       HandleSubmit, ServeCreate, CreateFails
  <2>2. polls \in Seq(Poll)
    BY DEF DashboardInv, FormInv, PollFormTypeOK
  <2> QED BY <2>1, <2>2
<1>4. DashboardTypeOK'
  BY <1>1, <1>2, <1>3 DEF DashboardInv, DashboardTypeOK, FormInv
<1>5. CallsFit'
  BY <1>3 DEF DashboardInv, CallsFit
<1>6. ListFirst' /\ DeletedStaysOff'
  BY <1>2 DEF DashboardInv, ListFirst, DeletedStaysOff
<1> QED BY <1>1, <1>4, <1>5, <1>6 DEF DashboardInv

LEMMA ShowInv ==
    ASSUME DashboardInv, NEW p \in {"create", "dashboard", "results"}, Show(p),
           create' \in [Creates -> Create \cup {None}], GoodRequests', MadeByRequest',
           UNCHANGED polls, acts' \in 0 .. MaxActs
    PROVE  DashboardInv'
<1> DEFINE left == [k \in Calls |-> IF call[k] = None THEN None ELSE [call[k] EXCEPT !.here = FALSE]]
           c == NewCall("list", 0, FALSE)
<1>1. /\ page' = p /\ form' = IF p = "create" THEN NewForm ELSE None
      /\ list' = None /\ gone' = {}
      /\ IF p = "dashboard" THEN call' = Sent(left, c) ELSE call' = left
  BY DEF Show
<1>2. call \in [Calls -> Call \cup {None}]
  BY DEF DashboardInv, DashboardTypeOK
<1>3. /\ left \in [Calls -> Call \cup {None}]
      /\ \A k \in Calls : left[k] # None =>
            /\ call[k] # None /\ ~left[k].here
            /\ left[k].kind = call[k].kind /\ left[k].poll = call[k].poll /\ left[k].seen = call[k].seen
            /\ left[k].answer = call[k].answer
  <2> SUFFICES ASSUME NEW k \in Calls
               PROVE  /\ left[k] \in Call \cup {None}
                      /\ left[k] # None =>
                            /\ call[k] # None /\ ~left[k].here
                            /\ left[k].kind = call[k].kind /\ left[k].poll = call[k].poll
                            /\ left[k].seen = call[k].seen /\ left[k].answer = call[k].answer
    OBVIOUS
  <2>1. CASE call[k] = None
    BY <2>1
  <2>2. CASE call[k] # None
    <3>1. call[k] \in Call
      BY <1>2, <2>2
    <3>2. left[k] = [call[k] EXCEPT !.here = FALSE]
      BY <2>2
    <3> QED BY <2>2, <3>1, <3>2 DEF Call
  <2> QED BY <2>1, <2>2
<1>4. /\ c \in Call /\ c # None /\ c.kind = "list" /\ c.here /\ c.seen = None /\ c.answer = "none"
  BY ListCall
<1> HIDE DEF left, c
<1>5. /\ call' \in [Calls -> Call \cup {None}]
      /\ \A k \in Calls : call'[k] = left[k] \/ (p = "dashboard" /\ call'[k] = c)
      /\ \A j, k \in Calls : call'[j] # left[j] /\ call'[k] # left[k] => j = k
  BY <1>1, <1>3, <1>4, SentParts
<1>6. FormInv'
  <2>1. /\ form' = None \/ (form' \in Form /\ Len(form'.options) \in 2 .. MaxOptions)
        /\ (form' # None) = (page' = "create")
    BY <1>1, NoneIsNothing
  <2> QED BY <1>1, <2>1 DEF DashboardInv, FormInv, PollFormTypeOK
<1>7. DashboardTypeOK'
  BY <1>1, <1>5, <1>6 DEF DashboardTypeOK, FormInv
<1>8. CallsFit'
  BY <1>3, <1>4, <1>5 DEF DashboardInv, CallsFit
<1>9. ListFirst'
  BY <1>1, <1>3, <1>4, <1>5 DEF ListFirst
<1>10. DeletedStaysOff'
  BY <1>1 DEF DeletedStaysOff
<1> QED BY <1>6, <1>7, <1>8, <1>9, <1>10 DEF DashboardInv

LEMMA ButtonInv ==
    ASSUME DashboardInv, NEW n \in DOMAIN polls, HandleToggleStatus(n) \/ HandleDelete(n)
    PROVE  DashboardInv'
<1>1. PICK c : /\ call' = Sent(call, c) /\ c \in Call /\ c # None
               /\ c.kind # "list" /\ c.poll = n /\ c.here /\ c.seen = None /\ c.answer = "none"
  <2>1. n \in Nat
    BY CountOfPolls DEF DashboardInv
  <2>2. CASE HandleToggleStatus(n)
    <3> DEFINE active == ~list[n]
    <3>1. list # None /\ n \in DOMAIN list /\ call' = Sent(call, NewCall("toggle", n, active))
      BY <2>2 DEF HandleToggleStatus
    <3>2. active \in BOOLEAN
      BY Zenon
    <3> HIDE DEF active
    <3>3. "toggle" \in {"list", "toggle", "delete"} /\ "toggle" # "list"
      OBVIOUS
    <3> DEFINE x == NewCall("toggle", n, active)
    <3>4. /\ x \in Call /\ x # None /\ x.kind = "toggle"
          /\ x.poll = n /\ x.here /\ x.seen = None /\ x.answer = "none"
      BY <2>1, <3>2, <3>3, NewCallType
    <3>5. call' = Sent(call, x)
      BY <3>1
    <3> HIDE DEF x
    <3> QED BY <3>3, <3>4, <3>5
  <2>3. CASE HandleDelete(n)
    <3>1. call' = Sent(call, NewCall("delete", n, FALSE))
      BY <2>3 DEF HandleDelete
    <3>2. "delete" \in {"list", "toggle", "delete"} /\ "delete" # "list" /\ FALSE \in BOOLEAN
      OBVIOUS
    <3> DEFINE x == NewCall("delete", n, FALSE)
    <3>4. /\ x \in Call /\ x # None /\ x.kind = "delete"
          /\ x.poll = n /\ x.here /\ x.seen = None /\ x.answer = "none"
      BY <2>1, <3>2, NewCallType, Zenon
    <3>5. call' = Sent(call, x)
      BY <3>1
    <3> HIDE DEF x
    <3> QED BY <3>2, <3>4, <3>5
  <2> QED BY <2>2, <2>3
<1>2. /\ list # None /\ UNCHANGED <<formVars, list, gone>>
      /\ acts < MaxActs /\ acts' = acts + 1
  BY DEF HandleToggleStatus, HandleDelete, Act
<1>3. acts' \in 0 .. MaxActs
  BY <1>2, DashboardAssumption DEF DashboardInv, DashboardTypeOK
<1>4. page = "dashboard" /\ call \in [Calls -> Call \cup {None}]
  BY <1>2 DEF DashboardInv, DashboardTypeOK
<1>5. /\ call' \in [Calls -> Call \cup {None}]
      /\ \A k \in Calls : call'[k] = call[k] \/ call'[k] = c
  BY <1>1, <1>4, SentParts
<1>6. FormInv'
  BY <1>2 DEF DashboardInv, formVars, FormInv, PollFormTypeOK, GoodRequests, MadeByRequest
<1>7. DashboardTypeOK'
  BY <1>2, <1>3, <1>5, <1>6 DEF DashboardInv, DashboardTypeOK, FormInv, formVars
<1>8. CallsFit'
  BY <1>1, <1>2, <1>5 DEF DashboardInv, CallsFit, formVars
<1>9. ListFirst'
  BY <1>1, <1>2, <1>4, <1>5 DEF DashboardInv, ListFirst, formVars
<1>10. DeletedStaysOff'
  BY <1>2 DEF DashboardInv, DeletedStaysOff
<1> QED BY <1>6, <1>7, <1>8, <1>9, <1>10 DEF DashboardInv

\* A list of some of the polls is one of the lists.
LEMMA SomePolls ==
    ASSUME NEW l, DOMAIN l \subseteq Creates, l = [n \in DOMAIN l |-> l[n]],
           \A n \in DOMAIN l : l[n] \in BOOLEAN
    PROVE  l \in List /\ l # None
<1>1. l \in [DOMAIN l -> BOOLEAN]
  OBVIOUS
<1>2. DOMAIN l \in SUBSET Creates
  OBVIOUS
<1>3. l \in List
  BY <1>1, <1>2 DEF List
<1> QED BY <1>3, NoCallAssumption

\* The polls that the server has and the list are among those that were created.
LEMMA KnownPolls ==
    ASSUME DashboardInv
    PROVE  /\ DOMAIN polls \subseteq Creates
           /\ \A n \in DOMAIN polls : polls[n] \in Poll
           /\ list # None => /\ DOMAIN list \subseteq DOMAIN polls
                             /\ \A n \in DOMAIN list : list[n] \in BOOLEAN
<1>1. DOMAIN polls \subseteq Creates /\ polls \in Seq(Poll)
  BY CountOfPolls DEF DashboardInv, FormInv, PollFormTypeOK
<1>2. \A n \in DOMAIN polls : polls[n] \in Poll
  BY <1>1
<1>3. list # None => /\ list \in List /\ DOMAIN list \subseteq DOMAIN polls
  BY DEF DashboardInv, DashboardTypeOK
<1>4. list \in List => \A n \in DOMAIN list : list[n] \in BOOLEAN
  BY DEF List
<1> QED BY <1>1, <1>2, <1>3, <1>4

\* What is left of the invariant when the server changes a poll.
LEMMA PollChanges ==
    ASSUME DashboardInv, NEW n \in DOMAIN polls, NEW new \in Poll,
           new.options = polls[n].options, polls' = [polls EXCEPT ![n] = new],
           UNCHANGED <<page, form, create>>
    PROVE  FormInv' /\ DOMAIN polls' = DOMAIN polls
<1>1. polls \in Seq(Poll)
  BY DEF DashboardInv, FormInv, PollFormTypeOK
<1>2. polls' \in Seq(Poll) /\ DOMAIN polls' = DOMAIN polls /\ Len(polls') = Len(polls)
  BY <1>1
<1>3. PollFormTypeOK' /\ GoodRequests'
  BY <1>2 DEF DashboardInv, FormInv, PollFormTypeOK, GoodRequests
<1>4. MadeByRequest'
  BY <1>2 DEF DashboardInv, FormInv, MadeByRequest
<1> QED BY <1>2, <1>3, <1>4 DEF FormInv

\* A request goes on at the server.
LEMMA CallGoesOn ==
    ASSUME DashboardInv, NEW k \in Calls, call[k] # None, NEW d \in Call, d # None,
           call' = [call EXCEPT ![k] = d],
           d.kind = call[k].kind, d.poll = call[k].poll, d.here = call[k].here,
           d.answer = "found" => d.kind # "list",
           d.seen # None => DOMAIN d.seen \subseteq DOMAIN polls,
           FormInv', DOMAIN polls' = DOMAIN polls,
           UNCHANGED <<page, form, create, list, acts, gone>>
    PROVE  DashboardInv'
<1>1. /\ call' \in [Calls -> Call \cup {None}] /\ call'[k] = d
      /\ \A j \in Calls : j # k => call'[j] = call[j]
  BY DEF DashboardInv, DashboardTypeOK
<1>2. DashboardTypeOK'
  BY <1>1 DEF DashboardInv, DashboardTypeOK, FormInv
<1>3. CallsFit'
  BY <1>1 DEF DashboardInv, CallsFit
<1>4. ListFirst'
  BY <1>1 DEF DashboardInv, ListFirst
<1>5. DeletedStaysOff'
  BY DEF DashboardInv, DeletedStaysOff
<1> QED BY <1>2, <1>3, <1>4, <1>5 DEF DashboardInv

LEMMA ServeCallInv ==
    ASSUME DashboardInv, NEW k \in Calls, ServeCall(k)
    PROVE  DashboardInv'
<1>1. /\ call[k] \in Call /\ call[k] # None /\ call \in [Calls -> Call \cup {None}]
      /\ page' = page /\ form' = form /\ create' = create /\ polls' = polls
      /\ list' = list /\ acts' = acts /\ gone' = gone
  BY DEF ServeCall, DashboardInv, DashboardTypeOK, formVars
<1>2. FormInv' /\ DOMAIN polls' = DOMAIN polls
  BY <1>1 DEF DashboardInv, FormInv, PollFormTypeOK, GoodRequests, MadeByRequest
<1>3. CASE call[k].kind = "list"
  <2> DEFINE l == [m \in Existing |-> polls[m].isActive]
             d == [call[k] EXCEPT !.answer = "ok", !.seen = l]
  <2>1. DOMAIN l \subseteq DOMAIN polls /\ \A m \in DOMAIN l : l[m] \in BOOLEAN
    BY KnownPolls DEF Existing, Poll
  <2>2. l \in List
    <3>1. DOMAIN l \subseteq Creates /\ l = [m \in DOMAIN l |-> l[m]]
      BY <2>1, KnownPolls
    <3> QED BY <2>1, <3>1, SomePolls
  <2>3. call' = [call EXCEPT ![k] = d]
    BY <1>1, <1>3 DEF ServeCall
  <2> HIDE DEF l
  <2>4. /\ d \in Call /\ d.kind = call[k].kind /\ d.poll = call[k].poll
        /\ d.here = call[k].here /\ d.seen = l /\ d.answer = "ok"
    BY <1>1, <2>2 DEF Call
  <2> HIDE DEF d
  <2>5. d # None
    BY <2>4, NoneIsNothing
  <2> QED BY <1>1, <1>2, <2>1, <2>3, <2>4, <2>5, CallGoesOn
<1>4. CASE call[k].kind # "list"
  <2>1. PICK answer \in {"found", "refused"} : call' = [call EXCEPT ![k].answer = answer]
    BY <1>4 DEF ServeCall
  <2> DEFINE d == [call[k] EXCEPT !.answer = answer]
  <2>2. /\ d \in Call /\ d.kind = call[k].kind /\ d.poll = call[k].poll
        /\ d.here = call[k].here /\ d.seen = call[k].seen
    BY <1>1 DEF Call
  <2>3. call' = [call EXCEPT ![k] = d]
    BY <1>1, <2>1
  <2> HIDE DEF d
  <2>4. d # None /\ (d.seen # None => DOMAIN d.seen \subseteq DOMAIN polls)
    BY <1>1, <2>2, NoneIsNothing DEF DashboardInv, CallsFit
  <2> QED BY <1>1, <1>2, <1>4, <2>2, <2>3, <2>4, CallGoesOn
<1> QED BY <1>3, <1>4

\* The poll that was found may be gone by now; it is still one of those created.
LEMMA WriteCallInv ==
    ASSUME DashboardInv, NEW k \in Calls, WriteCall(k)
    PROVE  DashboardInv'
<1> DEFINE n == call[k].poll
           old == polls[n]
           back == old.deleted /\ UseMongo
           new == IF call[k].kind = "delete" THEN [old EXCEPT !.deleted = TRUE]
                  ELSE [old EXCEPT !.isActive = call[k].isActive, !.deleted = back]
           d == [call[k] EXCEPT !.answer = "ok"]
<1>1. /\ call[k] \in Call /\ call[k] # None /\ call[k].answer = "found"
      /\ call \in [Calls -> Call \cup {None}]
      /\ call' = [call EXCEPT ![k].answer = "ok"]
      /\ page' = page /\ form' = form /\ create' = create
      /\ list' = list /\ acts' = acts /\ gone' = gone
  BY DEF WriteCall, DashboardInv, DashboardTypeOK
<1>2. n \in DOMAIN polls
  BY <1>1 DEF DashboardInv, CallsFit
<1>3. polls' = [polls EXCEPT ![n] = new]
  BY DEF WriteCall
<1>4. old \in Poll
  BY <1>2, KnownPolls
<1>5. call[k].isActive \in BOOLEAN
  BY <1>1 DEF Call
<1>6. back \in BOOLEAN
  BY Zenon
<1> HIDE DEF back
<1>7. new \in Poll /\ new.options = old.options
  BY <1>4, <1>5, <1>6 DEF Poll
<1> HIDE DEF new
<1>8. FormInv' /\ DOMAIN polls' = DOMAIN polls
  BY <1>1, <1>2, <1>3, <1>7, PollChanges
<1>9. /\ d \in Call /\ d.kind = call[k].kind /\ d.poll = call[k].poll
      /\ d.here = call[k].here /\ d.seen = call[k].seen /\ d.answer = "ok"
  BY <1>1 DEF Call
<1>10. call' = [call EXCEPT ![k] = d]
  BY <1>1
<1> HIDE DEF d
<1>11. d # None /\ (d.seen # None => DOMAIN d.seen \subseteq DOMAIN polls)
  BY <1>1, <1>9, NoneIsNothing DEF DashboardInv, CallsFit
<1> QED BY <1>1, <1>8, <1>9, <1>10, <1>11, CallGoesOn

LEMMA OtherTabInv ==
    ASSUME DashboardInv, NEW n \in DOMAIN polls, OtherTab(n)
    PROVE  DashboardInv'
<1> DEFINE old == polls[n]
<1>1. old \in Poll
  BY KnownPolls
<1>2. PICK new \in Poll : new.options = old.options /\ polls' = [polls EXCEPT ![n] = new]
  <2>1. CASE polls' = [polls EXCEPT ![n].isActive = ~@]
    <3> DEFINE active == ~old.isActive
               new == [old EXCEPT !.isActive = active]
    <3>1. active \in BOOLEAN
      BY Zenon
    <3>2. polls' = [polls EXCEPT ![n] = new]
      BY <2>1
    <3> HIDE DEF active
    <3>3. new \in Poll /\ new.options = old.options
      BY <1>1, <3>1 DEF Poll
    <3> HIDE DEF new
    <3> QED BY <3>2, <3>3
  <2>2. CASE polls' = [polls EXCEPT ![n].deleted = TRUE]
    <3> DEFINE new == [old EXCEPT !.deleted = TRUE]
    <3>1. polls' = [polls EXCEPT ![n] = new]
      BY <2>2
    <3>2. new \in Poll /\ new.options = old.options
      BY <1>1 DEF Poll
    <3> HIDE DEF new
    <3> QED BY <3>1, <3>2
  <2> QED BY <2>1, <2>2 DEF OtherTab
<1>3. /\ UNCHANGED <<page, form, create, list, call, gone>>
      /\ acts < MaxActs /\ acts' = acts + 1
  BY DEF OtherTab, Act
<1>4. FormInv' /\ DOMAIN polls' = DOMAIN polls
  BY <1>2, <1>3, PollChanges
<1>5. acts' \in 0 .. MaxActs
  BY <1>3, DashboardAssumption DEF DashboardInv, DashboardTypeOK
<1>6. DashboardTypeOK' /\ CallsFit' /\ ListFirst' /\ DeletedStaysOff'
  BY <1>3, <1>4, <1>5 DEF DashboardInv, DashboardTypeOK, FormInv, CallsFit, ListFirst, DeletedStaysOff
<1> QED BY <1>4, <1>6 DEF DashboardInv

\* An answer: the list as it becomes, and the confirmed deletions.
LEMMA AnswerInv ==
    ASSUME DashboardInv, NEW k \in Calls, call[k] # None, call' = [call EXCEPT ![k] = None],
           UNCHANGED <<formVars, acts>>,
           list' # list => call[k].here,
           (list' = None) = (list = None) \/ call[k].kind = "list",
           list' # None => DOMAIN list' \subseteq DOMAIN polls,
           list' # None => list' \in List,
           gone' \subseteq DOMAIN polls,
           list' = None => gone' = {},
           DeletedStaysOff'
    PROVE  DashboardInv'
<1>1. page' = page /\ form' = form /\ create' = create /\ polls' = polls /\ acts' = acts
  BY DEF formVars
<1>2. FormInv'
  BY <1>1 DEF DashboardInv, FormInv, PollFormTypeOK, GoodRequests, MadeByRequest
<1>3. /\ call' \in [Calls -> Call \cup {None}] /\ call'[k] = None
      /\ \A j \in Calls : j # k => call'[j] = call[j]
  BY DEF DashboardInv, DashboardTypeOK
<1>4. DashboardTypeOK'
  <2>1. list' # None => page' = "dashboard"
    BY <1>1 DEF DashboardInv, DashboardTypeOK, ListFirst
  <2> QED BY <1>1, <1>2, <1>3, <2>1 DEF DashboardInv, DashboardTypeOK, FormInv
<1>5. CallsFit'
  BY <1>1, <1>3 DEF DashboardInv, CallsFit
<1>6. ListFirst'
  <2>1. ASSUME NEW j \in Calls, call'[j] # None, call'[j].here
        PROVE  IF call'[j].kind = "list" THEN list' = None ELSE list' # None
    <3>1. j # k /\ call'[j] = call[j]
      BY <1>3, <2>1
    <3>2. IF call[j].kind = "list" THEN list = None ELSE list # None
      BY <2>1, <3>1 DEF DashboardInv, ListFirst
    <3>3. CASE call[k].here /\ call[k].kind = "list"
      <4>1. call[j].kind # "list"
        BY <2>1, <3>1, <3>3 DEF DashboardInv, ListFirst
      <4>2. list = None
        BY <3>3 DEF DashboardInv, ListFirst
      <4> QED BY <3>2, <4>1, <4>2
    <3>4. CASE ~(call[k].here /\ call[k].kind = "list")
      <4>1. (list' = None) = (list = None)
        BY <3>4
      <4> QED BY <3>1, <3>2, <4>1
    <3> QED BY <3>3, <3>4
  <2>2. ASSUME NEW j \in Calls, call'[j] # None, call'[j].here
        PROVE  page' = "dashboard"
    BY <1>1, <1>3, <2>2 DEF DashboardInv, ListFirst
  <2>3. ASSUME NEW i \in Calls, NEW j \in Calls,
               call'[i] # None /\ call'[i].here /\ call'[i].kind = "list",
               call'[j] # None /\ call'[j].here /\ call'[j].kind = "list"
        PROVE  i = j
    BY <1>3, <2>3 DEF DashboardInv, ListFirst
  <2> QED BY <2>1, <2>2, <2>3 DEF ListFirst
<1> QED BY <1>2, <1>4, <1>5, <1>6 DEF DashboardInv

LEMMA CallSucceedsInv ==
    ASSUME DashboardInv, NEW k \in Calls, CallSucceeds(k)
    PROVE  DashboardInv'
<1> DEFINE c == call[k]
<1>1. c \in Call /\ c # None
  BY DEF CallSucceeds, DashboardInv, DashboardTypeOK
<1>2. /\ call' = [call EXCEPT ![k] = None] /\ UNCHANGED <<formVars, acts>>
      /\ list' = CASE ~c.here             -> list
                   [] c.here /\ c.kind = "list"   -> c.seen
                   [] c.here /\ c.kind = "toggle" -> Relabel(c)
                   [] c.here /\ c.kind = "delete" -> [n \in DOMAIN list \ {c.poll} |-> list[n]]
      /\ gone' = IF c.here /\ c.kind = "delete" THEN gone \cup {c.poll} ELSE gone
  BY DEF CallSucceeds
<1>3. c.here \in BOOLEAN /\ c.kind \in {"list", "toggle", "delete"} /\ c.isActive \in BOOLEAN
  BY <1>1 DEF Call
<1>4. /\ c.kind # "list" => c.poll \in DOMAIN polls
      /\ c.seen # None => DOMAIN c.seen \subseteq DOMAIN polls
      /\ c.seen \in List \cup {None}
      /\ c.here => IF c.kind = "list" THEN list = None ELSE list # None
      /\ list = None => gone = {}
      /\ gone \subseteq DOMAIN polls
      /\ list # None => list \in List /\ DOMAIN list \subseteq DOMAIN polls
      /\ list # None => gone \cap DOMAIN list = {}
  BY <1>1 DEF DashboardInv, DashboardTypeOK, CallsFit, ListFirst, Call, DeletedStaysOff
<1> HIDE DEF c
<1>5. CASE ~c.here
  <2>1. list' = list /\ gone' = gone
    BY <1>2, <1>5
  <2> QED BY <1>1, <1>2, <1>4, <2>1, AnswerInv DEF c, DeletedStaysOff
<1>6. CASE c.here /\ c.kind = "list"
  <2>1. list' = c.seen /\ gone' = gone /\ gone = {}
    BY <1>2, <1>4, <1>6
  <2>2. /\ list' # None => list' \in List /\ DOMAIN list' \subseteq DOMAIN polls
        /\ DeletedStaysOff'
    BY <1>4, <2>1 DEF DeletedStaysOff
  <2> QED BY <1>1, <1>2, <1>4, <1>6, <2>1, <2>2, AnswerInv DEF c
<1>7. CASE c.here /\ c.kind = "toggle"
  <2>1. list' = Relabel(c) /\ gone' = gone /\ list # None
    BY <1>2, <1>4, <1>7
  <2>2. /\ DOMAIN list' = DOMAIN list /\ \A n \in DOMAIN list' : list'[n] \in BOOLEAN
        /\ list' = [n \in DOMAIN list' |-> list'[n]]
    BY <1>3, <2>1, KnownPolls DEF Relabel
  <2>3. list' \in List /\ list' # None /\ DOMAIN list' \subseteq DOMAIN polls
    BY <1>4, <2>1, <2>2, SomePolls, KnownPolls
  <2>4. DeletedStaysOff'
    BY <1>4, <2>1, <2>2 DEF DeletedStaysOff
  <2> QED BY <1>1, <1>2, <1>4, <1>7, <2>1, <2>3, <2>4, AnswerInv DEF c
<1>8. CASE c.here /\ c.kind = "delete"
  <2>1. /\ list' = [n \in DOMAIN list \ {c.poll} |-> list[n]] /\ gone' = gone \cup {c.poll}
        /\ list # None /\ c.poll \in DOMAIN polls
    BY <1>2, <1>4, <1>8
  <2>2. /\ DOMAIN list' = DOMAIN list \ {c.poll} /\ \A n \in DOMAIN list' : list'[n] \in BOOLEAN
        /\ list' = [n \in DOMAIN list' |-> list'[n]]
    BY <2>1, KnownPolls
  <2>3. list' \in List /\ list' # None /\ DOMAIN list' \subseteq DOMAIN polls
    BY <1>4, <2>1, <2>2, SomePolls, KnownPolls
  <2>4. DeletedStaysOff'
    BY <1>4, <2>1, <2>2 DEF DeletedStaysOff
  <2> QED BY <1>1, <1>2, <1>4, <1>8, <2>1, <2>3, <2>4, AnswerInv DEF c
<1> QED BY <1>3, <1>5, <1>6, <1>7, <1>8

LEMMA CallFailsInv ==
    ASSUME DashboardInv, NEW k \in Calls, CallFails(k)
    PROVE  DashboardInv'
<1>1. /\ call[k] # None /\ call' = [call EXCEPT ![k] = None]
      /\ list' = IF call[k].here /\ call[k].kind = "list" THEN <<>> ELSE list
      /\ UNCHANGED <<formVars, acts>> /\ gone' = gone
  BY DEF CallFails
<1>2. /\ call[k].here /\ call[k].kind = "list" => list = None
      /\ list = None => gone = {}
      /\ gone \subseteq DOMAIN polls
      /\ list # None => list \in List /\ DOMAIN list \subseteq DOMAIN polls
  BY <1>1 DEF DashboardInv, DashboardTypeOK, ListFirst
<1>3. CASE call[k].here /\ call[k].kind = "list"
  <2>1. list' = <<>> /\ gone = {}
    BY <1>1, <1>2, <1>3
  <2>2. DOMAIN list' = {} /\ list' = [n \in DOMAIN list' |-> list'[n]]
    BY <2>1
  <2>3. list' \in List /\ list' # None
    BY <2>2, SomePolls
  <2>4. DeletedStaysOff'
    BY <2>2 DEF DeletedStaysOff
  <2> QED BY <1>1, <1>2, <1>3, <2>1, <2>2, <2>3, <2>4, AnswerInv
<1>4. CASE ~(call[k].here /\ call[k].kind = "list")
  <2>1. list' = list
    BY <1>1, <1>4
  <2> QED BY <1>1, <1>2, <2>1, AnswerInv DEF DashboardInv, DeletedStaysOff
<1> QED BY <1>3, <1>4

LEMMA DashboardStep ==
    ASSUME DashboardInv, [DashboardNext]_dashboardVars
    PROVE  DashboardInv'
<1>1. CASE FormStep /\ UNCHANGED <<list, call, acts, gone>>
  BY <1>1, FormStepList
<1>2. ASSUME NEW c \in Creates, CreateSucceeds(c)
      PROVE  DashboardInv'
  <2>1. /\ create[c] # None /\ create' = [create EXCEPT ![c].state = "over"]
        /\ Show("results") /\ UNCHANGED polls /\ acts' = acts
    BY <1>2 DEF CreateSucceeds
  <2>2. create' \in [Creates -> Create \cup {None}] /\ GoodRequests' /\ MadeByRequest'
    BY <2>1, RequestOver DEF DashboardInv
  <2>3. acts' \in 0 .. MaxActs /\ "results" \in {"create", "dashboard", "results"}
    BY <2>1 DEF DashboardInv, DashboardTypeOK
  <2> QED BY <2>1, <2>2, <2>3, ShowInv
<1>3. ASSUME NEW p \in {"create", "dashboard", "results"}, Navigate(p)
      PROVE  DashboardInv'
  <2>1. Show(p) /\ UNCHANGED <<create, polls>> /\ acts < MaxActs /\ acts' = acts + 1
    BY <1>3 DEF Navigate, Act
  <2>2. create' \in [Creates -> Create \cup {None}] /\ GoodRequests' /\ MadeByRequest'
    BY <2>1 DEF DashboardInv, FormInv, PollFormTypeOK, GoodRequests, MadeByRequest
  <2>3. acts' \in 0 .. MaxActs
    BY <2>1, DashboardAssumption DEF DashboardInv, DashboardTypeOK
  <2> QED BY <2>1, <2>2, <2>3, ShowInv
<1>4. ASSUME NEW n \in DOMAIN polls, HandleToggleStatus(n) \/ HandleDelete(n) \/ OtherTab(n)
      PROVE  DashboardInv'
  BY <1>4, ButtonInv, OtherTabInv
<1>5. ASSUME NEW k \in Calls, ServeCall(k) \/ WriteCall(k) \/ CallSucceeds(k) \/ CallFails(k)
      PROVE  DashboardInv'
  BY <1>5, ServeCallInv, WriteCallInv, CallSucceedsInv, CallFailsInv
<1>6. CASE UNCHANGED dashboardVars
  BY <1>6 DEF dashboardVars, formVars, DashboardInv, FormInv, PollFormTypeOK, GoodRequests,
     MadeByRequest, DashboardTypeOK, CallsFit, ListFirst, DeletedStaysOff, Existing
<1> QED BY <1>1, <1>2, <1>3, <1>4, <1>5, <1>6 DEF DashboardNext

LEMMA DashboardInvariant == DashboardSpec => []DashboardInv
<1>1. DashboardInit => DashboardInv
  BY InitDashboard
<1>2. DashboardInv /\ [DashboardNext]_dashboardVars => DashboardInv'
  BY DashboardStep
<1> QED BY <1>1, <1>2, PTL DEF DashboardSpec

\* The form keeps between two and MaxOptions options, it is there on the page for new
\* polls only, the list is shown on the dashboard only and has only polls that were
\* created, and every request is of its kind (the state of CreatePoll.jsx:6 and
\* Dashboard.jsx:10).
THEOREM DashboardTypeCorrect == DashboardSpec => []DashboardTypeOK
<1>1. DashboardInv => DashboardTypeOK
  BY DEF DashboardInv
<1> QED BY <1>1, DashboardInvariant, PTL

\* What the form lets through (CreatePoll.jsx:31) the bindings of the request
\* (models/poll.go:28) and CreatePoll (poll_service.go:37) take as well, as long as the two
\* count, trim and lower the texts alike and no option is too long: whatever is typed,
\* edited and removed before, and whichever requests are under way.
THEOREM FormAndServerAgree == DashboardSpec => []ServerAgrees
<1>1. DashboardInv => ServerAgrees
  BY Agreement DEF DashboardInv
<1> QED BY <1>1, DashboardInvariant, PTL

\* A poll of which the dashboard was told that it is deleted (handleDelete,
\* Dashboard.jsx:43) is not on its list again, in whatever order the answers of the list,
\* of the buttons and of the deletions arrive.
THEOREM DeletedStaysOffList == DashboardSpec => []DeletedStaysOff
<1>1. DashboardInv => DeletedStaysOff
  BY DEF DashboardInv
<1> QED BY <1>1, DashboardInvariant, PTL
=============================================================================
