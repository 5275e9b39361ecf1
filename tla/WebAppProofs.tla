---------------------------- MODULE WebAppProofs ----------------------------
(* Proofs about AuthService and WebApp, for every value of their constants. *)
EXTENDS WebApp, FiniteSetTheorems, SequenceTheorems, TLAPS

(***************************************************************************)
(* The server.  Tokens that are sent are tokens that were made, an answer  *)
(* is a token with its account, and of the stores only MongoDB has         *)
(* registrations between their two commands.                               *)
(***************************************************************************)

Sound(q) ==
    /\ q.token <= Len(issued)
    /\ q.kind # "me" => q.email \in Emails /\ q.password \in Passwords
    /\ q.stage = "answered" =>
          /\ q.answer \in Answer
          /\ q.answer # Refused =>
                /\ q.answer.token \in 1 .. Len(issued)
                /\ q.answer.user = issued[q.answer.token]
                /\ q.kind = "me" => q.answer.token = q.token

RequestsSound == \A r \in Requests : request[r] # None => Sound(request[r])
InMemoryAtOnce == store = "memory" => \A r \in Requests : ~At(r, "register", "checked")

AuthInv == /\ AuthTypeOK /\ IsFiniteSet(accounts)
           /\ RequestsSound /\ InMemoryAtOnce /\ OneAccountPerAddress

\* Tokens stay what they are.
Grown == /\ Len(issued) <= Len(issued')
         /\ \A n \in 1 .. Len(issued) : issued'[n] = issued[n]

\* Requests under way stay what they are, but for their stage and answer.
Pending(r) == /\ request[r] = None <=> request'[r] = None
              /\ request[r] # None => /\ request'[r].kind = request[r].kind
                                      /\ request'[r].token = request[r].token

LEMMA RefusedIsAnswer == Refused \in Answer
BY DEF Refused, Answer

LEMMA RequestType ==
    ASSUME AuthTypeOK, NEW r \in Requests, request[r] # None
    PROVE  request[r] \in Request
BY DEF AuthTypeOK

\* A request with another stage and answer.
LEMMA Replied ==
    ASSUME AuthTypeOK, NEW r \in Requests, request[r] # None,
           NEW s \in {"sent", "checked", "answered"}, NEW a \in Answer \cup {None},
           request' = [request EXCEPT ![r].stage = s, ![r].answer = a]
    PROVE  /\ request' \in [Requests -> Request \cup {None}]
           /\ request'[r] \in Request
           /\ request'[r].stage = s /\ request'[r].answer = a
           /\ request'[r].token = request[r].token /\ request'[r].kind = request[r].kind
           /\ request'[r].email = request[r].email /\ request'[r].password = request[r].password
           /\ \A q \in Requests \ {r} : request'[q] = request[q]
           /\ \A q \in Requests : Pending(q)
<1> DEFINE new == [request[r] EXCEPT !.stage = s, !.answer = a]
<1>1. request[r] \in Request
  BY RequestType
<1>2. request' = [request EXCEPT ![r] = new]
  BY DEF AuthTypeOK
<1>3. /\ new \in Request /\ new.stage = s /\ new.answer = a
      /\ new.token = request[r].token /\ new.kind = request[r].kind
      /\ new.email = request[r].email /\ new.password = request[r].password
  BY <1>1 DEF Request
<1> HIDE DEF new
<1>4. new # None
  BY <1>3, NoRequest
<1>5. request'[r] = new /\ \A q \in Requests \ {r} : request'[q] = request[q]
  BY <1>2 DEF AuthTypeOK
<1>6. request' \in [Requests -> Request \cup {None}]
  BY <1>2, <1>3 DEF AuthTypeOK
<1>7. \A q \in Requests : Pending(q)
  <2> TAKE q \in Requests
  <2>1. CASE q = r
    BY <2>1, <1>3, <1>4, <1>5 DEF Pending
  <2>2. CASE q # r
    BY <2>2, <1>5 DEF Pending
  <2> QED BY <2>1, <2>2
<1> QED BY <1>3, <1>5, <1>6, <1>7

LEMMA NewToken ==
    ASSUME AuthTypeOK, NEW id \in Nat \ {0}, issued' = Append(issued, id)
    PROVE  /\ issued' \in Seq(Nat \ {0}) /\ Len(issued') = Len(issued) + 1
           /\ issued'[Len(issued) + 1] = id
           /\ Grown /\ expired \subseteq 1 .. Len(issued')
<1>1. issued \in Seq(Nat \ {0}) /\ expired \subseteq 1 .. Len(issued)
  BY DEF AuthTypeOK
<1> QED BY <1>1 DEF Grown

LEMMA AccountsNumbered ==
    ASSUME AuthInv
    PROVE  Cardinality(accounts) + 1 \in Nat \ {0}
<1>1. Cardinality(accounts) \in Nat
  BY FS_CardinalityType DEF AuthInv
<1> QED BY <1>1

\* What was sound stays so when tokens are added.
LEMMA StaysSound ==
    ASSUME AuthInv, Grown, NEW q \in Requests, request'[q] = request[q],
           request'[q] # None, issued \in Seq(Nat \ {0}), issued' \in Seq(Nat \ {0})
    PROVE  Sound(request[q])'
<1>1. Sound(request[q]) /\ request[q] \in Request
  BY RequestType DEF AuthInv, RequestsSound
<1>2. request[q].token \in Nat /\ Len(issued) \in Nat /\ Len(issued') \in Nat
  BY <1>1 DEF Request
<1>3. Len(issued) <= Len(issued') /\ \A n \in 1 .. Len(issued) : issued'[n] = issued[n]
  BY DEF Grown
<1> QED BY <1>1, <1>2, <1>3 DEF Sound

\* Request r gets an answer that is sound, and the others stay.
LEMMA AnswerKeeps ==
    ASSUME AuthInv, Grown, NEW r \in Requests, request[r] # None,
           NEW a \in Answer, Reply(r, a),
           a # Refused => /\ a.token \in 1 .. Len(issued') /\ a.user = issued'[a.token]
                          /\ request[r].kind = "me" => a.token = request[r].token,
           issued' \in Seq(Nat \ {0}), store' = store
    PROVE  /\ request' \in [Requests -> Request \cup {None}]
           /\ RequestsSound' /\ InMemoryAtOnce'
           /\ \A q \in Requests : Pending(q)
<1> AuthTypeOK /\ issued \in Seq(Nat \ {0})
  BY DEF AuthInv, AuthTypeOK
<1>1. request' = [request EXCEPT ![r].stage = "answered", ![r].answer = a]
  BY DEF Reply
<1>2. /\ request' \in [Requests -> Request \cup {None}]
      /\ request'[r] \in Request
      /\ request'[r].stage = "answered" /\ request'[r].answer = a
      /\ request'[r].token = request[r].token /\ request'[r].kind = request[r].kind
      /\ request'[r].email = request[r].email /\ request'[r].password = request[r].password
      /\ \A q \in Requests \ {r} : request'[q] = request[q]
      /\ \A q \in Requests : Pending(q)
  BY <1>1, Replied
<1>3. Sound(request[r])'
  <2>1. request[r].token <= Len(issued) /\ request[r].token \in Nat
    BY RequestType DEF AuthInv, RequestsSound, Sound, Request
  <2>2. request[r].token <= Len(issued')
    BY <2>1 DEF Grown
  <2>3. request[r].kind # "me" => request[r].email \in Emails /\ request[r].password \in Passwords
    BY DEF AuthInv, RequestsSound, Sound
  <2> QED BY <2>2, <2>3, <1>2 DEF Sound
<1>4. \A q \in Requests \ {r} : request'[q] # None => Sound(request[q])'
  BY <1>2, StaysSound
<1>5. RequestsSound'
  BY <1>3, <1>4 DEF RequestsSound
<1>6. InMemoryAtOnce'
  BY <1>2 DEF InMemoryAtOnce, AuthInv, At
<1> QED BY <1>2, <1>5, <1>6

LEMMA TokenKeeps ==
    ASSUME AuthInv, NEW r \in Requests, request[r] # None, request[r].kind # "me",
           NEW id \in Nat \ {0}, ReplyWithToken(r, id), store' = store, expired' = expired
    PROVE  /\ request' \in [Requests -> Request \cup {None}]
           /\ issued' \in Seq(Nat \ {0}) /\ expired' \subseteq 1 .. Len(issued')
           /\ RequestsSound' /\ InMemoryAtOnce' /\ Grown
           /\ \A q \in Requests : Pending(q)
<1> DEFINE a == [user |-> id, token |-> Len(issued) + 1]
<1>1. AuthTypeOK /\ issued' = Append(issued, id) /\ Reply(r, a)
  BY DEF AuthInv, ReplyWithToken
<1>2. /\ issued' \in Seq(Nat \ {0}) /\ Len(issued') = Len(issued) + 1
      /\ issued'[Len(issued) + 1] = id
      /\ Grown /\ expired \subseteq 1 .. Len(issued')
  BY <1>1, NewToken
<1>3. Len(issued) \in Nat
  BY <1>1 DEF AuthTypeOK
<1>4. a \in Answer /\ a.token = Len(issued) + 1 /\ a.user = id
  BY <1>3 DEF Answer
<1> HIDE DEF a
<1>5. a.token \in 1 .. Len(issued') /\ a.user = issued'[a.token]
  BY <1>2, <1>3, <1>4
<1> QED BY <1>1, <1>2, <1>4, <1>5, AnswerKeeps

LEMMA RefusalKeeps ==
    ASSUME AuthInv, NEW r \in Requests, request[r] # None, Reply(r, Refused),
           store' = store, expired' = expired, issued' = issued
    PROVE  /\ request' \in [Requests -> Request \cup {None}]
           /\ issued' \in Seq(Nat \ {0}) /\ expired' \subseteq 1 .. Len(issued')
           /\ RequestsSound' /\ InMemoryAtOnce' /\ Grown
           /\ \A q \in Requests : Pending(q)
<1>1. AuthTypeOK /\ issued \in Seq(Nat \ {0}) /\ expired \subseteq 1 .. Len(issued)
  BY DEF AuthInv, AuthTypeOK
<1>2. Grown
  BY <1>1 DEF Grown
<1> QED BY <1>1, <1>2, RefusedIsAnswer, AnswerKeeps

\* An account is added where there was none for its address.
LEMMA AddKeeps ==
    ASSUME AuthInv, NEW r \in Requests, request[r] # None, request[r].kind = "register",
           request[r].email \in Emails, request[r].password \in Passwords,
           store # "unindexed" => AccountsOf(request[r].email) = {},
           AddAccount(r), store' = store
    PROVE  accounts' \subseteq Account /\ IsFiniteSet(accounts)' /\ OneAccountPerAddress'
<1> DEFINE new == [id |-> Cardinality(accounts) + 1,
                   email |-> request[r].email, password |-> request[r].password]
<1>1. accounts' = accounts \cup {new}
  BY DEF AddAccount
<1>2. new \in Account /\ new.email = request[r].email
  BY AccountsNumbered DEF Account
<1> HIDE DEF new
<1>3. accounts' \subseteq Account
  BY <1>1, <1>2 DEF AuthInv, AuthTypeOK
<1>4. IsFiniteSet(accounts')
  BY <1>1, FS_AddElement DEF AuthInv
<1>5. OneAccountPerAddress'
  BY <1>1, <1>2 DEF OneAccountPerAddress, AccountsOf, AuthInv
<1> QED BY <1>3, <1>4, <1>5

\* A step of the server that leaves the accounts alone.
LEMMA SameAccounts ==
    ASSUME AuthInv, accounts' = accounts, store' = store
    PROVE  accounts' \subseteq Account /\ IsFiniteSet(accounts)' /\ OneAccountPerAddress'
BY DEF AuthInv, AuthTypeOK, OneAccountPerAddress

\* What the steps below come down to.
LEMMA AuthInvFromParts ==
    ASSUME AuthInv, store' = store,
           accounts' \subseteq Account /\ IsFiniteSet(accounts)' /\ OneAccountPerAddress',
           request' \in [Requests -> Request \cup {None}],
           issued' \in Seq(Nat \ {0}) /\ expired' \subseteq 1 .. Len(issued'),
           RequestsSound' /\ InMemoryAtOnce'
    PROVE  AuthInv'
BY DEF AuthInv, AuthTypeOK

LEMMA SignInFields ==
    ASSUME AuthInv, NEW r \in Requests, request[r] # None, request[r].kind # "me"
    PROVE  request[r].email \in Emails /\ request[r].password \in Passwords
BY DEF AuthInv, RequestsSound, Sound

LEMMA FindsKeeps ==
    ASSUME AuthInv, NEW r \in Requests, RegisterFinds(r)
    PROVE  AuthInv' /\ Grown /\ \A q \in Requests : Pending(q)
<1>1. /\ store # "memory" /\ request[r] # None /\ request[r].kind = "register"
      /\ request[r].stage = "sent"
      /\ store' = store /\ accounts' = accounts /\ issued' = issued /\ expired' = expired
  BY DEF RegisterFinds, At
<1>2. CASE Reply(r, Refused)
  BY <1>1, <1>2, RefusalKeeps, SameAccounts, AuthInvFromParts
<1>3. CASE request' = [request EXCEPT ![r].stage = "checked"]
  <2>1. AuthTypeOK /\ request[r] \in Request
    BY <1>1, RequestType DEF AuthInv
  <2>2. request[r].answer \in Answer \cup {None}
    BY <2>1 DEF Request
  <2>3. request' = [request EXCEPT ![r].stage = "checked", ![r].answer = request[r].answer]
    <3>1. [request[r] EXCEPT !.stage = "checked"] =
             [request[r] EXCEPT !.stage = "checked", !.answer = request[r].answer]
      BY <2>1 DEF Request
    <3> QED BY <2>1, <3>1, <1>3 DEF AuthTypeOK
  <2>4. /\ request' \in [Requests -> Request \cup {None}]
        /\ request'[r].stage = "checked"
        /\ request'[r].token = request[r].token /\ request'[r].kind = request[r].kind
        /\ request'[r].email = request[r].email /\ request'[r].password = request[r].password
        /\ \A q \in Requests \ {r} : request'[q] = request[q]
        /\ \A q \in Requests : Pending(q)
    BY <2>1, <2>2, <2>3, <1>1, Replied
  <2>5. Grown /\ issued' \in Seq(Nat \ {0}) /\ expired' \subseteq 1 .. Len(issued')
    BY <1>1, <2>1 DEF Grown, AuthTypeOK
  <2>6. RequestsSound'
    BY <2>4, <1>1 DEF RequestsSound, Sound, AuthInv
  <2>7. InMemoryAtOnce'
    BY <1>1 DEF InMemoryAtOnce
  <2> QED BY <2>4, <2>5, <2>6, <2>7, <1>1, SameAccounts, AuthInvFromParts
<1> QED BY <1>2, <1>3 DEF RegisterFinds

LEMMA InsertsKeeps ==
    ASSUME AuthInv, NEW r \in Requests, RegisterInserts(r)
    PROVE  AuthInv' /\ Grown /\ \A q \in Requests : Pending(q)
<1>1. /\ request[r] # None /\ request[r].kind = "register"
      /\ At(r, "register", "checked") /\ store' = store /\ expired' = expired
  BY DEF RegisterInserts, At
<1>2. store # "memory" /\ store \in {"mongo", "unindexed", "memory"}
  BY <1>1, StoresAssumption DEF AuthInv, InMemoryAtOnce, AuthTypeOK
<1>3. ASSUME store = "mongo" => AccountsOf(request[r].email) = {}, AddAccount(r)
      PROVE  accounts' \subseteq Account /\ IsFiniteSet(accounts)' /\ OneAccountPerAddress'
  BY <1>1, <1>2, <1>3, SignInFields, AddKeeps
<1>4. CASE /\ store = "mongo" => AccountsOf(request[r].email) = {}
           /\ AddAccount(r) /\ ReplyWithToken(r, Cardinality(accounts) + 1)
  BY <1>1, <1>3, <1>4, AccountsNumbered, TokenKeeps, AuthInvFromParts
<1>5. CASE /\ store = "mongo" => AccountsOf(request[r].email) = {}
           /\ AddAccount(r) /\ Reply(r, Refused) /\ UNCHANGED issued
  BY <1>1, <1>3, <1>5, RefusalKeeps, AuthInvFromParts
<1>6. CASE Reply(r, Refused) /\ UNCHANGED <<accounts, issued>>
  BY <1>1, <1>6, RefusalKeeps, SameAccounts, AuthInvFromParts
<1> QED BY <1>4, <1>5, <1>6 DEF RegisterInserts

LEMMA InMemoryKeeps ==
    ASSUME AuthInv, NEW r \in Requests, RegisterInMemory(r)
    PROVE  AuthInv' /\ Grown /\ \A q \in Requests : Pending(q)
<1>1. /\ request[r] # None /\ request[r].kind = "register"
      /\ store' = store /\ expired' = expired
  BY DEF RegisterInMemory, At
<1>2. CASE AccountsOf(request[r].email) = {}
  <2>1. AddAccount(r) /\ ReplyWithToken(r, Cardinality(accounts) + 1)
    BY <1>2 DEF RegisterInMemory
  <2>2. accounts' \subseteq Account /\ IsFiniteSet(accounts)' /\ OneAccountPerAddress'
    BY <1>1, <1>2, <2>1, SignInFields, AddKeeps
  <2> QED BY <1>1, <2>1, <2>2, AccountsNumbered, TokenKeeps, AuthInvFromParts
<1>3. CASE AccountsOf(request[r].email) # {}
  <2>1. Reply(r, Refused) /\ UNCHANGED <<accounts, issued>>
    BY <1>3 DEF RegisterInMemory
  <2> QED BY <1>1, <2>1, RefusalKeeps, SameAccounts, AuthInvFromParts
<1> QED BY <1>2, <1>3

LEMMA LoginKeeps ==
    ASSUME AuthInv, NEW r \in Requests, Login(r)
    PROVE  AuthInv' /\ Grown /\ \A q \in Requests : Pending(q)
<1>1. /\ request[r] # None /\ request[r].kind = "login"
      /\ store' = store /\ accounts' = accounts /\ expired' = expired
  BY DEF Login, At
<1>2. ASSUME NEW a \in AccountsOf(request[r].email), ReplyWithToken(r, a.id)
      PROVE  AuthInv' /\ Grown /\ \A q \in Requests : Pending(q)
  <2>1. a.id \in Nat \ {0}
    BY DEF AuthInv, AuthTypeOK, AccountsOf, Account
  <2> QED BY <1>1, <1>2, <2>1, TokenKeeps, SameAccounts, AuthInvFromParts
<1>3. ASSUME Reply(r, Refused), UNCHANGED issued
      PROVE  AuthInv' /\ Grown /\ \A q \in Requests : Pending(q)
  BY <1>1, <1>3, RefusalKeeps, SameAccounts, AuthInvFromParts
<1> QED BY <1>2, <1>3 DEF Login

LEMMA MeKeeps ==
    ASSUME AuthInv, NEW r \in Requests, Me(r)
    PROVE  AuthInv' /\ Grown /\ \A q \in Requests : Pending(q)
<1>1. /\ request[r] # None /\ request[r].kind = "me"
      /\ store' = store /\ accounts' = accounts /\ issued' = issued /\ expired' = expired
  BY DEF Me, At
<1>2. CASE ~Valid(request[r].token)
  <2>1. Reply(r, Refused)
    BY <1>2 DEF Me
  <2> QED BY <1>1, <2>1, RefusalKeeps, SameAccounts, AuthInvFromParts
<1>3. CASE Valid(request[r].token)
  <2> DEFINE a == [user |-> issued[request[r].token], token |-> request[r].token]
  <2>1. Reply(r, a)
    BY <1>3 DEF Me
  <2>2. request[r].token \in Nat /\ request[r].token # 0 /\ request[r].token <= Len(issued)
    BY <1>1, <1>3, RequestType DEF AuthInv, RequestsSound, Sound, Request, Valid
  <2>3. /\ issued \in Seq(Nat \ {0}) /\ Len(issued) \in Nat
        /\ issued' \in Seq(Nat \ {0}) /\ expired' \subseteq 1 .. Len(issued')
    BY <1>1 DEF AuthInv, AuthTypeOK
  <2>4. Grown
    BY <1>1, <2>3 DEF Grown
  <2>5. a \in Answer /\ a.token = request[r].token /\ a.user = issued[request[r].token]
    BY <2>2, <2>3 DEF Answer
  <2> HIDE DEF a
  <2>6. a.token \in 1 .. Len(issued') /\ a.user = issued'[a.token]
    BY <1>1, <2>2, <2>3, <2>5
  <2> QED BY <1>1, <2>1, <2>3, <2>4, <2>5, <2>6, AnswerKeeps, SameAccounts, AuthInvFromParts
<1> QED BY <1>2, <1>3

LEMMA ServeKeeps ==
    ASSUME AuthInv, NEW r \in Requests, Serve(r)
    PROVE  AuthInv' /\ Grown /\ \A q \in Requests : Pending(q)
BY FindsKeeps, InsertsKeeps, InMemoryKeeps, LoginKeeps, MeKeeps DEF Serve

LEMMA ExpireKeeps ==
    ASSUME AuthInv, Expire
    PROVE  AuthInv' /\ Grown /\ \A q \in Requests : Pending(q)
<1>1. /\ Cardinality(expired) < Len(issued)
      /\ expired' = expired \cup {Cardinality(expired) + 1}
      /\ store' = store /\ accounts' = accounts /\ issued' = issued /\ request' = request
  BY DEF Expire
<1>2. issued \in Seq(Nat \ {0}) /\ Len(issued) \in Nat /\ expired \subseteq 1 .. Len(issued)
  BY DEF AuthInv, AuthTypeOK
<1>3. Cardinality(expired) \in Nat
  <2>1. IsFiniteSet(1 .. Len(issued))
    BY <1>2, FS_Interval
  <2>2. IsFiniteSet(expired)
    BY <1>2, <2>1, FS_Subset
  <2> QED BY <2>2, FS_CardinalityType
<1>4. expired' \subseteq 1 .. Len(issued')
  <2>1. \A n \in Nat : n < Len(issued) => n + 1 \in 1 .. Len(issued)
    BY <1>2
  <2>2. Cardinality(expired) + 1 \in 1 .. Len(issued)
    BY <1>1, <1>3, <2>1
  <2> QED BY <1>1, <1>2, <2>2, Zenon
<1>5. RequestsSound' /\ InMemoryAtOnce'
  BY <1>1 DEF AuthInv, RequestsSound, Sound, InMemoryAtOnce, At
<1>6. /\ issued' \in Seq(Nat \ {0}) /\ request' \in [Requests -> Request \cup {None}]
  BY <1>1 DEF AuthInv, AuthTypeOK
<1>7. AuthInv'
  BY <1>1, <1>4, <1>5, <1>6, SameAccounts, AuthInvFromParts
<1> QED BY <1>1, <1>2, <1>7 DEF Grown, Pending

(***************************************************************************)
(* The tabs.                                                               *)
(***************************************************************************)

\* A form that waits is on the screen.
Forms(w) == w.form # 0 => Screen(w) \in {"login", "register"}

\* What holds of a tab by itself.
Fine(w) == /\ w \in Tab /\ w.at \in 1 .. Len(w.history)
           /\ w.token <= Len(issued) /\ Forms(w)

\* v is w, but for where it is and what its form awaits.
SameSession(v, w) == /\ v.token = w.token /\ v.user = w.user
                     /\ v.loading = w.loading /\ v.due = w.due

LEMMA FormOfScreen ==
    ASSUME NEW w
    PROVE  FormOf(w) = <<>> <=> Screen(w) \notin {"login", "register"}
<1>1. <<w.page.view, Screen(w)>> # <<>>
  OBVIOUS
<1> QED BY <1>1 DEF FormOf

\* React keeps or forgets the state of the form, and nothing else.
LEMMA RenderedFine ==
    ASSUME NEW w \in Tab, Forms(w), NEW new \in Tab, new.form = w.form,
           new.at \in 1 .. Len(new.history), new.token <= Len(issued)
    PROVE  /\ Fine(Rendered(w, new)) /\ SameSession(Rendered(w, new), new)
           /\ Rendered(w, new).form \in {0, w.form}
           /\ Screen(Rendered(w, new)) = Screen(new)
           /\ Rendered(w, new).form # 0 => FormOf(new) = FormOf(w)
<1>1. CASE FormOf(new) = FormOf(w)
  <2>1. Rendered(w, new) = new
    BY <1>1 DEF Rendered
  <2>2. Forms(new)
    BY <1>1, FormOfScreen DEF Forms
  <2> QED BY <1>1, <2>1, <2>2 DEF Fine, SameSession
<1>2. CASE FormOf(new) # FormOf(w)
  <2> DEFINE bare == [new EXCEPT !.form = 0]
  <2>1. Rendered(w, new) = bare
    BY <1>2 DEF Rendered
  <2>2. /\ bare \in Tab /\ bare.form = 0 /\ bare.at = new.at /\ bare.history = new.history
        /\ bare.token = new.token /\ bare.user = new.user /\ bare.loading = new.loading
        /\ bare.due = new.due /\ bare.page = new.page
    BY DEF Tab
  <2> HIDE DEF bare
  <2>3. Screen(bare) = Screen(new)
    BY <2>2 DEF Screen
  <2> QED BY <2>1, <2>2, <2>3 DEF Fine, SameSession, Forms
<1> QED BY <1>1, <1>2

\* Visit, and going back or forward, change where the tab is.
LEMMA VisitFine ==
    ASSUME NEW w \in Tab, w.at \in 1 .. Len(w.history), NEW p \in Page
    PROVE  /\ Visit(w, p) \in Tab /\ Visit(w, p).at \in 1 .. Len(Visit(w, p).history)
           /\ SameSession(Visit(w, p), w) /\ Visit(w, p).form = w.form
           /\ Visit(w, p).page = p
<1> DEFINE ahead == SubSeq(w.history, 1, w.at)
           h == Append(ahead, p)
<1>1. w.history \in Seq(Page) /\ w.at \in Nat \ {0} /\ Len(w.history) \in Nat
  BY DEF Tab
<1>2. \A i \in 1 .. w.at : w.history[i] \in Page
  BY <1>1
<1>3. ahead \in Seq(Page) /\ Len(ahead) = w.at
  BY <1>1, <1>2, SubSeqProperties
<1>4. h \in Seq(Page) /\ Len(h) = w.at + 1
  BY <1>3
<1>5. Visit(w, p) = [w EXCEPT !.page = p, !.history = h, !.at = w.at + 1]
  BY DEF Visit
<1> HIDE DEF h
<1>6. w.at + 1 \in Nat \ {0} /\ w.at + 1 \in 1 .. Len(h)
  BY <1>1, <1>4
<1> DEFINE n == w.at + 1
<1> HIDE DEF n
<1>7. LET v == [w EXCEPT !.page = p, !.history = h, !.at = n] IN
      /\ n \in Nat \ {0} => v \in Tab
      /\ v.at = n /\ v.history = h /\ v.page = p /\ v.form = w.form
      /\ v.token = w.token /\ v.user = w.user /\ v.loading = w.loading /\ v.due = w.due
  BY <1>4 DEF Tab
<1> QED BY <1>5, <1>6, <1>7 DEF SameSession, n

LEMMA TraverseFine ==
    ASSUME NEW w \in Tab, NEW n \in 1 .. Len(w.history)
    PROVE  LET v == [w EXCEPT !.page = w.history[n], !.at = n] IN
           /\ v \in Tab /\ v.at \in 1 .. Len(v.history)
           /\ SameSession(v, w) /\ v.form = w.form
<1> DEFINE p == w.history[n]
<1>1. w.history \in Seq(Page) /\ Len(w.history) \in Nat
  BY DEF Tab
<1>2. n \in Nat \ {0} /\ p \in Page
  BY <1>1
<1> HIDE DEF p
<1>3. LET v == [w EXCEPT !.page = p, !.at = n] IN
      /\ v \in Tab /\ v.at = n /\ v.history = w.history /\ v.form = w.form
      /\ v.token = w.token /\ v.user = w.user /\ v.loading = w.loading /\ v.due = w.due
  BY <1>2 DEF Tab
<1> QED BY <1>3 DEF SameSession, p

LEMMA WithTokenFields ==
    ASSUME NEW w \in Tab, NEW token \in Nat, NEW user \in Nat
    PROVE  LET v == WithToken(w, token, user) IN
           /\ v \in Tab /\ v.at = w.at /\ v.history = w.history /\ v.form = w.form
           /\ v.page = w.page /\ v.loading = w.loading
           /\ v.token = token /\ v.user = user /\ v.due = (w.due \/ token # w.token)
<1> DEFINE d == w.due \/ token # w.token
<1>1. d \in BOOLEAN
  OBVIOUS
<1>2. WithToken(w, token, user) = [w EXCEPT !.token = token, !.user = user, !.due = d]
  BY Zenon DEF WithToken
<1> HIDE DEF d
<1>3. LET v == [w EXCEPT !.token = token, !.user = user, !.due = d] IN
      /\ v \in Tab /\ v.at = w.at /\ v.history = w.history /\ v.form = w.form
      /\ v.page = w.page /\ v.loading = w.loading
      /\ v.token = token /\ v.user = user /\ v.due = d
  BY <1>1 DEF Tab
<1>4. d = (w.due \/ token # w.token)
  BY DEF d
<1> QED BY <1>2, <1>3, <1>4, Zenon

\* Links lead to pages.
LEMMA LinksArePages ==
    ASSUME NEW w \in Tab
    PROVE  Links(w) \subseteq Page
<1>1. /\ \A v \in Views : To(v) \in Page
      /\ \A v \in Views, p \in Polls : ToPoll(v, p) \in Page
  BY DEF To, ToPoll, Page
<1>2. \A p \in Polls : ShareLinks(p) \subseteq Page
  BY <1>1 DEF ShareLinks, Views
<1>3. w.page.id # None => ShareLinks(w.page.id) \subseteq Page
  BY <1>2 DEF Tab, Page
<1>4. NavbarLinks(w) \subseteq Page /\ HomeLinks(w) \subseteq Page
  BY <1>1 DEF NavbarLinks, HomeLinks, Views
<1>5. JoinPoll \subseteq Page
  BY <1>1 DEF JoinPoll, Views
<1>6. LoginLinks \subseteq Page /\ RegisterLinks \subseteq Page /\ CreateLinks \subseteq Page
  BY <1>1 DEF LoginLinks, RegisterLinks, CreateLinks, Views
<1>7. DashboardLinks \subseteq Page
  BY <1>1, <1>2 DEF DashboardLinks, Views
<1>8. VoteLinks(w) \subseteq Page /\ ResultsLinks(w) \subseteq Page
  BY <1>1, <1>3 DEF VoteLinks, ResultsLinks, Views
<1> QED BY <1>4, <1>5, <1>6, <1>7, <1>8 DEF Links

TabsOK ==
    /\ ls \in 0 .. Len(issued)
    /\ tab \in [Tabs -> Tab] /\ \A t \in Tabs : Fine(tab[t])
    /\ caller \in [Requests -> Tabs \cup {None}]
    /\ \A r \in Requests : request[r] = None => caller[r] = None
    /\ acts \in 0 .. MaxActs /\ overtaken \subseteq Tabs

\* NothingStuck of a tab.
Served(t) ==
    /\ tab[t].loading => Checking(t)
    /\ tab[t].form # 0 => /\ caller[tab[t].form] = t
                          /\ request[tab[t].form] # None
                          /\ request[tab[t].form].kind # "me"

\* SessionConsistent of a tab, with what a check that is due or under way is about: unless
\* it has been overtaken it is about the token of the tab.
Consistent(t) ==
    t \notin overtaken =>
        /\ tab[t].due => tab[t].token = ls
        /\ \A r \in Requests : Awaits(t, r) => request[r].token = tab[t].token
        /\ tab[t].user # 0 => tab[t].token # 0 /\ issued[tab[t].token] = tab[t].user
        /\ tab[t].token # 0 /\ ~Checking(t) => tab[t].user # 0

WebAppInv == AuthInv /\ TabsOK /\ \A t \in Tabs : Served(t) /\ Consistent(t)

LEMMA NoneIsNoTab == None \notin Tabs
BY WebAppAssumption

LEMMA FormType ==
    ASSUME TabsOK, NEW t \in Tabs
    PROVE  /\ tab[t] \in Tab /\ tab[t].form \in {0} \cup Requests /\ 0 \notin Requests
           /\ tab[t].token \in Nat /\ tab[t].token <= Len(issued)
BY DEF TabsOK, Fine, Tab, Requests

(***************************************************************************)
(* What a step leaves to the tabs it is not about.                         *)
(***************************************************************************)

\* What tab u waits for is still under way, and nothing else.
KeptFor(u) == \A r \in Requests : /\ caller[r] = u <=> caller'[r] = u
                                  /\ caller[r] = u => Pending(r)

LEMMA AwaitsKept ==
    ASSUME NEW u \in Tabs, KeptFor(u)
    PROVE  \A r \in Requests : /\ Awaits(u, r)' <=> Awaits(u, r)
                               /\ Awaits(u, r) => request'[r].token = request[r].token
BY DEF KeptFor, Awaits, Pending

LEMMA TabKept ==
    ASSUME WebAppInv, NEW u \in Tabs, Grown, KeptFor(u),
           SameSession(tab'[u], tab[u]), tab'[u].form \in {0, tab[u].form},
           u \in overtaken => u \in overtaken',
           ls' = ls \/ ~tab[u].due \/ u \in overtaken'
    PROVE  Served(u)' /\ Consistent(u)'
<1>1. /\ tab'[u].token = tab[u].token /\ tab'[u].user = tab[u].user
      /\ tab'[u].loading = tab[u].loading /\ tab'[u].due = tab[u].due
  BY DEF SameSession
<1>2. Checking(u)' <=> Checking(u)
  BY <1>1, AwaitsKept DEF Checking
<1>3. Served(u) /\ Consistent(u)
  BY DEF WebAppInv
<1>4. Served(u)'
  <2>1. tab[u].form \in {0} \cup Requests
    BY FormType DEF WebAppInv
  <2>2. tab'[u].form # 0 =>
           /\ caller'[tab[u].form] = u /\ request'[tab[u].form] # None
           /\ request'[tab[u].form].kind # "me"
    BY <2>1, <1>3 DEF Served, KeptFor, Pending
  <2> QED BY <1>1, <1>2, <1>3, <2>2 DEF Served
<1>5. Consistent(u)'
  <2> SUFFICES ASSUME u \notin overtaken' PROVE Consistent(u)'
    BY DEF Consistent
  <2>1. u \notin overtaken
    OBVIOUS
  <2>2. tab'[u].due => tab'[u].token = ls'
    BY <2>1, <1>1, <1>3 DEF Consistent
  <2>3. \A r \in Requests : Awaits(u, r)' => request'[r].token = tab'[u].token
    BY <2>1, <1>1, <1>3, AwaitsKept DEF Consistent
  <2>4. tab[u].token # 0 => issued'[tab[u].token] = issued[tab[u].token]
    <3>1. tab[u].token \in Nat /\ tab[u].token <= Len(issued)
      BY FormType DEF WebAppInv
    <3>2. Len(issued) \in Nat
      BY DEF WebAppInv, AuthInv, AuthTypeOK
    <3> QED BY <3>1, <3>2 DEF Grown
  <2>5. tab'[u].user # 0 => tab'[u].token # 0 /\ issued'[tab'[u].token] = tab'[u].user
    BY <2>1, <2>4, <1>1, <1>3 DEF Consistent
  <2>6. tab'[u].token # 0 /\ ~Checking(u)' => tab'[u].user # 0
    BY <2>1, <1>1, <1>2, <1>3 DEF Consistent
  <2> QED BY <2>2, <2>3, <2>5, <2>6 DEF Consistent
<1> QED BY <1>4, <1>5

LEMMA KeptBySame ==
    ASSUME request' = request, caller' = caller, NEW u
    PROVE  KeptFor(u)
BY DEF KeptFor, Pending

LEMMA GrownBySame ==
    ASSUME AuthInv, issued' = issued
    PROVE  Grown
<1>1. Len(issued) \in Nat
  BY DEF AuthInv, AuthTypeOK
<1> QED BY <1>1 DEF Grown

LEMMA SameSessionRefl == \A w : SameSession(w, w)
BY DEF SameSession

\* Tab t changes; the others do not.
LEMMA TabChanges ==
    ASSUME AuthInv, TabsOK, NEW t \in Tabs, NEW v, Fine(v), tab' = [tab EXCEPT ![t] = v],
           issued' = issued
    PROVE  /\ tab' \in [Tabs -> Tab] /\ (\A u \in Tabs : Fine(tab[u]))'
           /\ tab'[t] = v /\ \A u \in Tabs \ {t} : tab'[u] = tab[u]
<1>1. v \in Tab
  BY DEF Fine
<1>2. tab'[t] = v /\ \A u \in Tabs \ {t} : tab'[u] = tab[u]
  BY DEF TabsOK
<1>3. tab' \in [Tabs -> Tab]
  BY <1>1 DEF TabsOK
<1>4. ASSUME NEW u \in Tabs PROVE Fine(tab[u])'
  <2>1. Fine(tab'[u])
    BY <1>2 DEF TabsOK
  <2> QED BY <2>1 DEF Fine
<1> QED BY <1>2, <1>3, <1>4

\* What the rest of TabsOK comes down to.
LEMMA TabsFromParts ==
    ASSUME ls' \in 0 .. Len(issued'),
           tab' \in [Tabs -> Tab] /\ (\A t \in Tabs : Fine(tab[t]))',
           caller' \in [Requests -> Tabs \cup {None}],
           \A r \in Requests : request'[r] = None => caller'[r] = None,
           acts' \in 0 .. MaxActs, overtaken' \subseteq Tabs
    PROVE  TabsOK'
BY DEF TabsOK

LEMMA ActCounts ==
    ASSUME TabsOK, acts < MaxActs, acts' = acts + 1
    PROVE  acts' \in 0 .. MaxActs
BY WebAppAssumption DEF TabsOK

LEMMA AuthUnchanged ==
    ASSUME AuthInv, UNCHANGED authVars
    PROVE  AuthInv' /\ issued' = issued /\ request' = request /\ Grown
<1>1. /\ store' = store /\ accounts' = accounts /\ issued' = issued
      /\ expired' = expired /\ request' = request
  BY DEF authVars
<1>2. AuthInv'
  BY <1>1 DEF AuthInv, AuthTypeOK, RequestsSound, Sound, InMemoryAtOnce, At,
              OneAccountPerAddress
<1> QED BY <1>1, <1>2, GrownBySame

(***************************************************************************)
(* The steps of a tab.                                                     *)
(***************************************************************************)

\* A tab goes somewhere else.
LEMMA MoveKeeps ==
    ASSUME WebAppInv, NEW t \in Tabs, NEW v \in Tab, v.at \in 1 .. Len(v.history),
           SameSession(v, tab[t]), v.form = tab[t].form,
           tab' = [tab EXCEPT ![t] = Rendered(tab[t], v)],
           acts < MaxActs, acts' = acts + 1, UNCHANGED <<authVars, ls, caller, overtaken>>
    PROVE  WebAppInv'
<1> DEFINE x == Rendered(tab[t], v)
<1>1. AuthInv /\ TabsOK /\ tab[t] \in Tab /\ Forms(tab[t])
  BY DEF WebAppInv, TabsOK, Fine
<1>2. AuthInv' /\ issued' = issued /\ request' = request /\ Grown
  BY <1>1, AuthUnchanged
<1>3. v.token <= Len(issued)
  BY <1>1, FormType DEF SameSession
<1>4. Fine(x) /\ SameSession(x, v) /\ x.form \in {0, tab[t].form}
  BY <1>1, <1>3, RenderedFine
<1>5. SameSession(x, tab[t])
  BY <1>4 DEF SameSession
<1> HIDE DEF x
<1>6. /\ tab' \in [Tabs -> Tab] /\ (\A u \in Tabs : Fine(tab[u]))'
      /\ tab'[t] = x /\ \A u \in Tabs \ {t} : tab'[u] = tab[u]
  <2>1. tab' = [tab EXCEPT ![t] = x]
    BY DEF x
  <2> QED BY <2>1, <1>1, <1>2, <1>4, TabChanges
<1>7. ls' = ls /\ caller' = caller /\ overtaken' = overtaken
  OBVIOUS
<1>8. acts' \in 0 .. MaxActs
  BY <1>1, ActCounts
<1>9. TabsOK'
  BY <1>1, <1>2, <1>6, <1>7, <1>8, TabsFromParts DEF TabsOK
<1>10. ASSUME NEW u \in Tabs PROVE Served(u)' /\ Consistent(u)'
  <2>1. KeptFor(u)
    BY <1>2, <1>7, KeptBySame
  <2>2. SameSession(tab'[u], tab[u]) /\ tab'[u].form \in {0, tab[u].form}
    BY <1>4, <1>5, <1>6, SameSessionRefl
  <2> QED BY <2>1, <2>2, <1>2, <1>7, TabKept
<1> QED BY <1>2, <1>9, <1>10 DEF WebAppInv

LEMMA TraverseKeeps ==
    ASSUME WebAppInv, NEW t \in Tabs, Traverse(t)
    PROVE  WebAppInv'
<1> DEFINE w == tab[t]
<1>1. w \in Tab
  BY DEF WebAppInv, TabsOK
<1>2. PICK n \in {w.at - 1, w.at + 1} \cap (1 .. Len(w.history)) :
         tab' = [tab EXCEPT ![t] = Rendered(w, [w EXCEPT !.page = w.history[n], !.at = n])]
  BY DEF Traverse
<1> DEFINE v == [w EXCEPT !.page = w.history[n], !.at = n]
<1>3. n \in 1 .. Len(w.history) /\ tab' = [tab EXCEPT ![t] = Rendered(w, v)]
  BY <1>2
<1>4. v \in Tab /\ v.at \in 1 .. Len(v.history) /\ SameSession(v, w) /\ v.form = w.form
  BY <1>1, <1>3, TraverseFine
<1> HIDE DEF v
<1> QED BY <1>3, <1>4, MoveKeeps DEF Traverse

LEMMA FollowLinkKeeps ==
    ASSUME WebAppInv, NEW t \in Tabs, FollowLink(t)
    PROVE  WebAppInv'
<1>1. tab[t] \in Tab /\ tab[t].at \in 1 .. Len(tab[t].history)
  BY DEF WebAppInv, TabsOK, Fine
<1>2. PICK p \in Links(tab[t]) : tab' = [tab EXCEPT ![t] = Rendered(tab[t], Visit(tab[t], p))]
  BY DEF FollowLink, TabsOK, WebAppInv
<1>3. p \in Page
  BY <1>1, <1>2, LinksArePages
<1>4. /\ Visit(tab[t], p) \in Tab
      /\ Visit(tab[t], p).at \in 1 .. Len(Visit(tab[t], p).history)
      /\ SameSession(Visit(tab[t], p), tab[t]) /\ Visit(tab[t], p).form = tab[t].form
  BY <1>1, <1>3, VisitFine
<1> QED BY <1>2, <1>4, MoveKeeps DEF FollowLink

\* What the browser holds of a page that has just been loaded.
LEMMA LoadedFine ==
    ASSUME AuthInv, ls \in 0 .. Len(issued), NEW h \in Seq(Page), NEW n \in 1 .. Len(h)
    PROVE  LET v == Loaded(h, n) IN
           /\ Fine(v) /\ v.token = ls /\ v.user = 0 /\ v.loading /\ v.due /\ v.form = 0
<1>1. ls \in Nat /\ ls <= Len(issued) /\ h[n] \in Page /\ n \in Nat \ {0}
  BY DEF AuthInv, AuthTypeOK
<1>2. LET v == Loaded(h, n) IN
      /\ v \in Tab /\ v.token = ls /\ v.user = 0 /\ v.loading /\ v.due /\ v.form = 0
      /\ v.at = n /\ v.history = h
  BY <1>1 DEF Loaded, Tab
<1> QED BY <1>1, <1>2 DEF Fine, Forms

LEMMA ReloadKeeps ==
    ASSUME WebAppInv, NEW t \in Tabs, Reload(t)
    PROVE  WebAppInv'
<1> DEFINE x == Loaded(tab[t].history, tab[t].at)
<1>1. /\ AuthInv /\ TabsOK /\ tab[t] \in Tab /\ tab[t].at \in 1 .. Len(tab[t].history)
      /\ ls \in 0 .. Len(issued)
  BY DEF WebAppInv, TabsOK, Fine
<1>2. AuthInv' /\ issued' = issued /\ request' = request /\ Grown
  BY <1>1, AuthUnchanged DEF Reload
<1>3. Fine(x) /\ x.token = ls /\ x.user = 0 /\ x.loading /\ x.due /\ x.form = 0
  <2>1. tab[t].history \in Seq(Page)
    BY <1>1 DEF Tab
  <2> QED BY <1>1, <2>1, LoadedFine
<1> HIDE DEF x
<1>4. /\ tab' \in [Tabs -> Tab] /\ (\A u \in Tabs : Fine(tab[u]))'
      /\ tab'[t] = x /\ \A u \in Tabs \ {t} : tab'[u] = tab[u]
  <2>1. tab' = [tab EXCEPT ![t] = x]
    BY DEF x, Reload
  <2> QED BY <2>1, <1>1, <1>2, <1>3, TabChanges
<1>5. /\ ls' = ls /\ overtaken' = overtaken \ {t}
      /\ caller' = [r \in Requests |-> IF caller[r] = t THEN None ELSE caller[r]]
  BY DEF Reload
<1>6. acts' \in 0 .. MaxActs
  BY <1>1, ActCounts DEF Reload
<1>7. TabsOK'
  BY <1>1, <1>2, <1>4, <1>5, <1>6, TabsFromParts DEF TabsOK
<1>8. Served(t)' /\ Consistent(t)'
  <2>1. \A r \in Requests : ~Awaits(t, r)'
    BY <1>5, NoneIsNoTab DEF Awaits
  <2>2. Checking(t)'
    BY <1>3, <1>4 DEF Checking
  <2> QED BY <1>3, <1>4, <1>5, <2>1, <2>2 DEF Served, Consistent
<1>9. ASSUME NEW u \in Tabs \ {t} PROVE Served(u)' /\ Consistent(u)'
  <2>1. KeptFor(u)
    BY <1>2, <1>5, NoneIsNoTab DEF KeptFor, Pending
  <2>2. SameSession(tab'[u], tab[u]) /\ tab'[u].form \in {0, tab[u].form}
    BY <1>4, SameSessionRefl
  <2> QED BY <2>1, <2>2, <1>2, <1>5, TabKept
<1> QED BY <1>2, <1>7, <1>8, <1>9 DEF WebAppInv

(***************************************************************************)
(* Requests that are sent and that are over.                               *)
(***************************************************************************)

LEMMA AuthByRequest ==
    ASSUME AuthInv, UNCHANGED <<store, accounts, issued, expired>>,
           request' \in [Requests -> Request \cup {None}],
           \A r \in Requests : \/ request'[r] \in {None, request[r]}
                               \/ request'[r].stage = "sent" /\ Sound(request'[r])
    PROVE  AuthInv' /\ issued' = issued /\ Grown
<1>1. RequestsSound'
  BY DEF RequestsSound, Sound, AuthInv
<1>2. InMemoryAtOnce'
  BY DEF InMemoryAtOnce, At, AuthInv
<1>3. AuthInv'
  BY <1>1, <1>2 DEF AuthInv, AuthTypeOK, OneAccountPerAddress
<1> QED BY <1>3, GrownBySame

LEMMA SendKeeps ==
    ASSUME AuthInv, TabsOK, NEW t \in Tabs, NEW r \in Requests, NEW req \in Request,
           Sound(req), req.stage = "sent", Send(t, r, req),
           UNCHANGED <<store, accounts, issued, expired>>
    PROVE  /\ AuthInv' /\ issued' = issued /\ Grown
           /\ caller' \in [Requests -> Tabs \cup {None}]
           /\ \A q \in Requests : request'[q] = None => caller'[q] = None
           /\ \A u \in Tabs \ {t} : KeptFor(u)
           /\ request[r] = None /\ request'[r] = req /\ caller'[r] = t
           /\ \A q \in Requests \ {r} : request'[q] = request[q] /\ caller'[q] = caller[q]
<1>1. /\ request[r] = None /\ request' = [request EXCEPT ![r] = req]
      /\ caller' = [caller EXCEPT ![r] = t]
  BY DEF Send
<1>2. request \in [Requests -> Request \cup {None}]
  BY DEF AuthInv, AuthTypeOK
<1>3. /\ request' \in [Requests -> Request \cup {None}] /\ request'[r] = req
      /\ \A q \in Requests \ {r} : request'[q] = request[q]
  BY <1>1, <1>2
<1>4. /\ caller' \in [Requests -> Tabs \cup {None}] /\ caller'[r] = t
      /\ \A q \in Requests \ {r} : caller'[q] = caller[q]
  BY <1>1 DEF TabsOK
<1>5. AuthInv' /\ issued' = issued /\ Grown
  <2>1. \A q \in Requests : \/ request'[q] \in {None, request[q]}
                            \/ request'[q].stage = "sent" /\ Sound(request'[q])
    BY <1>3
  <2>2. UNCHANGED <<store, accounts, issued, expired>>
    OBVIOUS
  <2> QED BY <1>3, <2>1, <2>2, AuthByRequest
<1>6. \A q \in Requests : request'[q] = None => caller'[q] = None
  BY <1>3, <1>4, NoRequest DEF TabsOK
<1>7. \A u \in Tabs \ {t} : KeptFor(u)
  BY <1>1, <1>3, <1>4, NoneIsNoTab DEF KeptFor, Pending, TabsOK
<1> QED BY <1>1, <1>3, <1>4, <1>5, <1>6, <1>7

\* Nobody awaits request r any more.
Dropped(r) ==
    /\ caller' = [caller EXCEPT ![r] = None]
    /\ request' = request \/ request' = [request EXCEPT ![r] = None]
    /\ UNCHANGED <<store, accounts, issued, expired>>

LEMMA DropKeeps ==
    ASSUME AuthInv, TabsOK, NEW r \in Requests, Dropped(r)
    PROVE  /\ AuthInv' /\ issued' = issued /\ Grown
           /\ caller' \in [Requests -> Tabs \cup {None}]
           /\ \A q \in Requests : request'[q] = None => caller'[q] = None
           /\ \A u \in Tabs : u # caller[r] => KeptFor(u)
           /\ caller'[r] = None
           /\ \A q \in Requests \ {r} : request'[q] = request[q] /\ caller'[q] = caller[q]
<1>1. request \in [Requests -> Request \cup {None}]
  BY DEF AuthInv, AuthTypeOK
<1>2. /\ request' \in [Requests -> Request \cup {None}] /\ request'[r] \in {None, request[r]}
      /\ \A q \in Requests \ {r} : request'[q] = request[q]
  BY <1>1 DEF Dropped
<1>3. /\ caller' \in [Requests -> Tabs \cup {None}] /\ caller'[r] = None
      /\ \A q \in Requests \ {r} : caller'[q] = caller[q]
  BY DEF TabsOK, Dropped
<1>4. AuthInv' /\ issued' = issued /\ Grown
  <2>1. \A q \in Requests : \/ request'[q] \in {None, request[q]}
                            \/ request'[q].stage = "sent" /\ Sound(request'[q])
    BY <1>2
  <2>2. UNCHANGED <<store, accounts, issued, expired>>
    BY DEF Dropped
  <2> QED BY <1>2, <2>1, <2>2, AuthByRequest
<1>5. \A q \in Requests : request'[q] = None => caller'[q] = None
  BY <1>2, <1>3 DEF TabsOK
<1>6. \A u \in Tabs : u # caller[r] => KeptFor(u)
  BY <1>2, <1>3, NoneIsNoTab DEF KeptFor, Pending, TabsOK
<1> QED BY <1>2, <1>3, <1>4, <1>5, <1>6

LEMMA DoneDrops == \A r \in Requests : Done(r) => Dropped(r)
BY DEF Done, Dropped

\* The effect when there is no token.
LEMMA CheckNothing ==
    ASSUME WebAppInv, NEW t \in Tabs, CheckAuth(t), tab[t].token = 0
    PROVE  WebAppInv'
<1> DEFINE w == tab[t]
           v == [w EXCEPT !.due = FALSE, !.loading = FALSE]
           x == Rendered(w, v)
<1>1. AuthInv /\ TabsOK /\ w \in Tab /\ Fine(w) /\ Served(t) /\ Consistent(t)
  BY DEF WebAppInv, TabsOK
<1>2. /\ tab' = [tab EXCEPT ![t] = x] /\ UNCHANGED authVars
      /\ ls' = ls /\ caller' = caller /\ overtaken' = overtaken /\ acts' = acts
  BY DEF CheckAuth, authVars
<1>3. AuthInv' /\ issued' = issued /\ request' = request /\ Grown
  BY <1>1, <1>2, AuthUnchanged
<1>4. /\ v \in Tab /\ v.at = w.at /\ v.history = w.history /\ v.form = w.form
      /\ v.token = w.token /\ v.user = w.user /\ ~v.due /\ ~v.loading
  BY <1>1 DEF Tab
<1> HIDE DEF v
<1>5. Fine(x) /\ SameSession(x, v) /\ x.form \in {0, w.form}
  BY <1>1, <1>4, RenderedFine DEF Fine
<1> HIDE DEF x
<1>6. /\ tab' \in [Tabs -> Tab] /\ (\A u \in Tabs : Fine(tab[u]))'
      /\ tab'[t] = x /\ \A u \in Tabs \ {t} : tab'[u] = tab[u]
  BY <1>1, <1>2, <1>3, <1>5, TabChanges
<1>7. TabsOK'
  BY <1>1, <1>2, <1>3, <1>6, TabsFromParts DEF TabsOK
<1>8. \A u \in Tabs : KeptFor(u)
  BY <1>2, <1>3, KeptBySame
<1>9. Served(t)'
  BY <1>1, <1>2, <1>3, <1>4, <1>5, <1>6 DEF Served, SameSession
<1>10. Consistent(t)'
  <2>1. x.token = 0 /\ x.user = w.user /\ ~x.due
    BY <1>4, <1>5 DEF SameSession
  <2>2. \A r \in Requests : Awaits(t, r)' <=> Awaits(t, r)
    BY <1>8, AwaitsKept
  <2> QED BY <1>1, <1>2, <1>3, <1>6, <2>1, <2>2 DEF Consistent
<1>11. ASSUME NEW u \in Tabs \ {t} PROVE Served(u)' /\ Consistent(u)'
  <2>1. SameSession(tab'[u], tab[u]) /\ tab'[u].form \in {0, tab[u].form}
    BY <1>6, SameSessionRefl
  <2> QED BY <2>1, <1>8, <1>2, <1>3, TabKept
<1> QED BY <1>3, <1>7, <1>9, <1>10, <1>11 DEF WebAppInv

\* The effect that sends a check.
LEMMA CheckSends ==
    ASSUME WebAppInv, NEW t \in Tabs, CheckAuth(t), tab[t].token # 0
    PROVE  WebAppInv'
<1> DEFINE w == tab[t]
           x == [w EXCEPT !.due = FALSE]
           req == MeRequest(ls)
<1>1. /\ AuthInv /\ TabsOK /\ w \in Tab /\ Fine(w) /\ Served(t) /\ Consistent(t)
      /\ ls \in 0 .. Len(issued) /\ Len(issued) \in Nat
  BY DEF WebAppInv, TabsOK, AuthInv, AuthTypeOK
<1>2. /\ tab[t].due /\ tab' = [tab EXCEPT ![t] = x]
      /\ UNCHANGED <<store, accounts, issued, expired>>
      /\ ls' = ls /\ overtaken' = overtaken /\ acts' = acts
  BY DEF CheckAuth
<1>3. PICK r \in Requests : Send(t, r, req)
  BY DEF CheckAuth
<1>4. req \in Request /\ req.stage = "sent" /\ req.kind = "me" /\ req.token = ls /\ Sound(req)
  <2>1. ls \in Nat /\ ls <= Len(issued)
    BY <1>1
  <2>2. req \in Request /\ req.stage = "sent" /\ req.kind = "me" /\ req.token = ls
    BY <2>1 DEF MeRequest, Request
  <2> HIDE DEF req
  <2> QED BY <2>1, <2>2 DEF Sound
<1> HIDE DEF req
<1>5. /\ AuthInv' /\ issued' = issued /\ Grown
      /\ caller' \in [Requests -> Tabs \cup {None}]
      /\ \A q \in Requests : request'[q] = None => caller'[q] = None
      /\ \A u \in Tabs \ {t} : KeptFor(u)
      /\ request[r] = None /\ request'[r] = req /\ caller'[r] = t
      /\ \A q \in Requests \ {r} : request'[q] = request[q] /\ caller'[q] = caller[q]
  BY <1>1, <1>2, <1>3, <1>4, SendKeeps
<1>6. /\ x \in Tab /\ x.at = w.at /\ x.history = w.history /\ x.form = w.form
      /\ x.token = w.token /\ x.user = w.user /\ ~x.due /\ x.loading = w.loading
      /\ x.page = w.page
  BY <1>1 DEF Tab
<1> HIDE DEF x
<1>7. Fine(x)
  BY <1>1, <1>6 DEF Fine, Forms, Screen
<1>8. /\ tab' \in [Tabs -> Tab] /\ (\A u \in Tabs : Fine(tab[u]))'
      /\ tab'[t] = x /\ \A u \in Tabs \ {t} : tab'[u] = tab[u]
  BY <1>1, <1>2, <1>5, <1>7, TabChanges
<1>9. TabsOK'
  BY <1>1, <1>2, <1>5, <1>8, TabsFromParts DEF TabsOK
<1>10. Awaits(t, r)' /\ Checking(t)'
  <2>1. Awaits(t, r)'
    BY <1>4, <1>5, NoRequest DEF Awaits
  <2> QED BY <2>1 DEF Checking
<1>11. Served(t)'
  <2>1. w.form # 0 => w.form \in Requests /\ request[w.form] # None
    BY <1>1, FormType DEF Served
  <2>2. w.form # 0 => w.form \in Requests \ {r}
    BY <2>1, <1>5
  <2>3. x.form # 0 => /\ caller'[x.form] = t /\ request'[x.form] # None
                      /\ request'[x.form].kind # "me"
    BY <2>2, <1>1, <1>5, <1>6 DEF Served
  <2> QED BY <2>3, <1>8, <1>10 DEF Served
<1>12. Consistent(t)'
  <2> SUFFICES ASSUME t \notin overtaken' PROVE Consistent(t)'
    BY DEF Consistent
  <2>1. t \notin overtaken /\ w.token = ls
    BY <1>1, <1>2 DEF Consistent
  <2>2. \A q \in Requests : Awaits(t, q)' => request'[q].token = w.token
    BY <1>1, <1>4, <1>5, <2>1 DEF Consistent, Awaits
  <2>3. w.user # 0 => w.token # 0 /\ issued'[w.token] = w.user
    BY <1>1, <1>5, <2>1 DEF Consistent
  <2> QED BY <1>6, <1>8, <1>10, <2>2, <2>3 DEF Consistent
<1>13. ASSUME NEW u \in Tabs \ {t} PROVE Served(u)' /\ Consistent(u)'
  <2>1. SameSession(tab'[u], tab[u]) /\ tab'[u].form \in {0, tab[u].form}
    BY <1>8, SameSessionRefl
  <2> QED BY <2>1, <1>2, <1>5, TabKept
<1> QED BY <1>5, <1>9, <1>11, <1>12, <1>13 DEF WebAppInv

\* The tabs other than t, when these keep what they wait for.
LEMMA OthersKept ==
    ASSUME WebAppInv, NEW t \in Tabs, Grown, \A u \in Tabs \ {t} : KeptFor(u),
           \A u \in Tabs \ {t} : tab'[u] = tab[u],
           \A u \in Tabs \ {t} : u \in overtaken => u \in overtaken',
           \A u \in Tabs \ {t} : ls' = ls \/ ~tab[u].due \/ u \in overtaken'
    PROVE  \A u \in Tabs \ {t} : Served(u)' /\ Consistent(u)'
<1> TAKE u \in Tabs \ {t}
<1>1. SameSession(tab'[u], tab[u]) /\ tab'[u].form \in {0, tab[u].form}
  BY SameSessionRefl
<1> QED BY <1>1, TabKept

\* Tab t gets the token k and the user n, and stores the token.
LEMMA NewSessionKeeps ==
    ASSUME WebAppInv, NEW t \in Tabs, NEW x, NEW k \in 0 .. Len(issued), NEW n \in Nat,
           AuthInv', Grown, issued' = issued,
           Fine(x), tab' = [tab EXCEPT ![t] = x], ls' = k, NewSession(t),
           x.token = k, x.user = n, x.loading = tab[t].loading,
           x.due = (tab[t].due \/ k # tab[t].token),
           n # 0 => k # 0 /\ issued[k] = n, k # 0 => n # 0,
           x.form # 0 => /\ caller'[x.form] = t /\ request'[x.form] # None
                         /\ request'[x.form].kind # "me",
           caller' \in [Requests -> Tabs \cup {None}],
           \A r \in Requests : request'[r] = None => caller'[r] = None,
           acts' \in 0 .. MaxActs,
           \A u \in Tabs \ {t} : KeptFor(u),
           \A r \in Requests : Awaits(t, r)' <=> Awaits(t, r)
    PROVE  WebAppInv'
<1>1. AuthInv /\ TabsOK /\ Served(t) /\ overtaken \subseteq Tabs
  BY DEF WebAppInv, TabsOK
<1>2. /\ tab' \in [Tabs -> Tab] /\ (\A u \in Tabs : Fine(tab[u]))'
      /\ tab'[t] = x /\ \A u \in Tabs \ {t} : tab'[u] = tab[u]
  BY <1>1, TabChanges
<1>3. /\ overtaken' \subseteq Tabs /\ overtaken \subseteq overtaken'
      /\ Checking(t) => t \in overtaken'
      /\ \A u \in Tabs \ {t} : tab[u].due => u \in overtaken'
  BY <1>1 DEF NewSession
<1>4. TabsOK'
  BY <1>2, <1>3, TabsFromParts
<1>5. Served(t)'
  <2>1. x.loading => Checking(t)'
    BY <1>1, <1>2 DEF Served, Checking
  <2> QED BY <1>2, <2>1 DEF Served
<1>6. Consistent(t)'
  <2> SUFFICES ASSUME t \notin overtaken' PROVE Consistent(t)'
    BY DEF Consistent
  <2>1. \A r \in Requests : ~Awaits(t, r)'
    BY <1>3 DEF Checking
  <2> QED BY <1>2, <2>1 DEF Consistent
<1>7. \A u \in Tabs \ {t} : Served(u)' /\ Consistent(u)'
  BY <1>2, <1>3, OthersKept
<1> QED BY <1>4, <1>5, <1>6, <1>7 DEF WebAppInv

LEMMA ToIsPage == \A v \in Views : To(v) \in Page /\ To(v).view = v
BY DEF To, Page

\* The tab after a sign-in or a logout.
LEMMA SessionTab ==
    ASSUME NEW w \in Tab, Fine(w), Len(issued) \in Nat,
           NEW k \in 0 .. Len(issued), NEW n \in Nat, NEW v \in Views
    PROVE  LET new == Visit(WithToken(w, k, n), To(v))
               x   == Rendered(w, new) IN
           /\ Fine(x) /\ x.token = k /\ x.user = n /\ x.loading = w.loading
           /\ x.due = (w.due \/ k # w.token) /\ x.form \in {0, w.form}
           /\ x.form # 0 => /\ w.form # 0 /\ x.form = w.form
                            /\ Screen(new) \in {"login", "register"}
           /\ Screen(new) = IF w.loading THEN "loading"
                            ELSE IF v \in {"dashboard", "create"} /\ n = 0 THEN "login" ELSE v
<1> DEFINE m == WithToken(w, k, n)
           new == Visit(m, To(v))
           x == Rendered(w, new)
<1>1. k \in Nat /\ k <= Len(issued)
  OBVIOUS
<1>2. /\ m \in Tab /\ m.at = w.at /\ m.history = w.history /\ m.form = w.form
      /\ m.loading = w.loading /\ m.token = k /\ m.user = n
      /\ m.due = (w.due \/ k # w.token)
  <2>1. LET z == WithToken(w, k, n) IN
        /\ z \in Tab /\ z.at = w.at /\ z.history = w.history /\ z.form = w.form
        /\ z.page = w.page /\ z.loading = w.loading
        /\ z.token = k /\ z.user = n /\ z.due = (w.due \/ k # w.token)
    <3> HIDE DEF new, x, m
    <3> QED BY <1>1, WithTokenFields, Zenon
  <2> QED BY <2>1, Zenon
<1> HIDE DEF m
<1>3. m.at \in 1 .. Len(m.history)
  BY <1>2 DEF Fine
<1>4. /\ new \in Tab /\ new.at \in 1 .. Len(new.history)
      /\ SameSession(new, m) /\ new.form = m.form /\ new.page = To(v)
  BY <1>2, <1>3, ToIsPage, VisitFine
<1> HIDE DEF new
<1>5. /\ Fine(x) /\ SameSession(x, new) /\ x.form \in {0, w.form}
      /\ x.form # 0 => FormOf(new) = FormOf(w)
  BY <1>1, <1>2, <1>4, RenderedFine DEF Fine, SameSession
<1> HIDE DEF x
<1>6. /\ x.token = k /\ x.user = n /\ x.loading = w.loading
      /\ x.due = (w.due \/ k # w.token)
  <2>1. x.token = new.token /\ x.user = new.user /\ x.loading = new.loading /\ x.due = new.due
    BY <1>5 DEF SameSession
  <2>2. new.token = m.token /\ new.user = m.user /\ new.loading = m.loading /\ new.due = m.due
    BY <1>4 DEF SameSession
  <2> QED BY <2>1, <2>2, <1>2
<1>7. x.form # 0 => /\ w.form # 0 /\ x.form = w.form /\ Screen(new) \in {"login", "register"}
  <2> SUFFICES ASSUME x.form # 0
               PROVE  /\ w.form # 0 /\ x.form = w.form
                      /\ Screen(new) \in {"login", "register"}
    OBVIOUS
  <2>1. w.form # 0 /\ x.form = w.form /\ FormOf(new) = FormOf(w)
    BY <1>5
  <2>2. Screen(w) \in {"login", "register"}
    BY <2>1 DEF Fine, Forms
  <2>3. FormOf(w) # <<>>
    BY <2>2, FormOfScreen
  <2>4. FormOf(new) # <<>>
    BY <2>1, <2>3
  <2>5. Screen(new) \in {"login", "register"}
    BY <2>4, FormOfScreen
  <2> QED BY <2>1, <2>5
<1>8. new.loading = w.loading /\ new.user = n /\ new.page.view = v
  BY <1>2, <1>4, ToIsPage DEF SameSession
<1>9. Screen(new) = IF w.loading THEN "loading"
                    ELSE IF v \in {"dashboard", "create"} /\ n = 0 THEN "login" ELSE v
  BY <1>8 DEF Screen
<1>10. /\ Fine(x) /\ x.token = k /\ x.user = n /\ x.loading = w.loading
       /\ x.due = (w.due \/ k # w.token) /\ x.form \in {0, w.form}
       /\ x.form # 0 => /\ w.form # 0 /\ x.form = w.form
                        /\ Screen(new) \in {"login", "register"}
       /\ Screen(new) = IF w.loading THEN "loading"
                        ELSE IF v \in {"dashboard", "create"} /\ n = 0 THEN "login" ELSE v
  BY <1>5, <1>6, <1>7, <1>9
<1> QED BY <1>10, Zenon DEF x, new, m

LEMMA LogoutKeeps ==
    ASSUME WebAppInv, NEW t \in Tabs, Logout(t)
    PROVE  WebAppInv'
<1> DEFINE w == tab[t]
           x == Rendered(w, Visit(WithToken(w, 0, 0), To("home")))
<1>1. /\ AuthInv /\ TabsOK /\ Served(t) /\ w \in Tab /\ Fine(w)
      /\ Len(issued) \in Nat /\ 0 \in 0 .. Len(issued)
  BY DEF WebAppInv, TabsOK, AuthInv, AuthTypeOK
<1>2. /\ tab' = [tab EXCEPT ![t] = x] /\ ls' = 0 /\ NewSession(t)
      /\ UNCHANGED authVars /\ caller' = caller
  BY DEF Logout, SignedOut
<1>3. AuthInv' /\ issued' = issued /\ request' = request /\ Grown
  BY <1>1, <1>2, AuthUnchanged
<1>4. /\ Fine(x) /\ x.token = 0 /\ x.user = 0 /\ x.loading = w.loading
      /\ x.due = (w.due \/ 0 # w.token) /\ x.form \in {0, w.form}
  BY <1>1, SessionTab DEF Views
<1> HIDE DEF x
<1>5. x.form # 0 => /\ caller'[x.form] = t /\ request'[x.form] # None
                    /\ request'[x.form].kind # "me"
  BY <1>1, <1>2, <1>3, <1>4 DEF Served
<1>6. acts' \in 0 .. MaxActs
  BY <1>1, ActCounts DEF Logout
<1>7. /\ caller' \in [Requests -> Tabs \cup {None}]
      /\ \A r \in Requests : request'[r] = None => caller'[r] = None
  BY <1>1, <1>2, <1>3 DEF TabsOK
<1>8. \A u \in Tabs : KeptFor(u)
  BY <1>2, <1>3, KeptBySame
<1>9. \A r \in Requests : Awaits(t, r)' <=> Awaits(t, r)
  BY <1>8, AwaitsKept
<1> QED BY <1>1, <1>2, <1>3, <1>4, <1>5, <1>6, <1>7, <1>8, <1>9, NewSessionKeeps

LEMMA SubmitKeeps ==
    ASSUME WebAppInv, NEW t \in Tabs, SubmitSignIn(t)
    PROVE  WebAppInv'
<1> DEFINE w == tab[t]
<1>1. /\ AuthInv /\ TabsOK /\ Served(t) /\ Consistent(t) /\ w \in Tab /\ Fine(w)
      /\ Len(issued) \in Nat
  BY DEF WebAppInv, TabsOK, AuthInv, AuthTypeOK
<1>2. /\ Screen(w) \in {"login", "register"}
      /\ UNCHANGED <<store, accounts, issued, expired>>
      /\ ls' = ls /\ overtaken' = overtaken
  BY DEF SubmitSignIn
<1>3. PICK r \in Requests, e \in Emails, pw \in Passwords :
         /\ Send(t, r, SignInRequest(Screen(w), e, pw))
         /\ tab' = [tab EXCEPT ![t].form = r]
  BY DEF SubmitSignIn
<1> DEFINE x == [w EXCEPT !.form = r]
           req == SignInRequest(Screen(w), e, pw)
<1>4. req \in Request /\ req.stage = "sent" /\ req.kind # "me" /\ Sound(req)
  <2>1. /\ req \in Request /\ req.stage = "sent" /\ req.kind = Screen(w) /\ req.token = 0
        /\ req.email = e /\ req.password = pw
    BY <1>2 DEF SignInRequest, Request
  <2> HIDE DEF req
  <2> QED BY <1>1, <1>2, <2>1 DEF Sound
<1>5. Send(t, r, req) /\ tab' = [tab EXCEPT ![t] = x]
  BY <1>3
<1> HIDE DEF req
<1>6. /\ AuthInv' /\ issued' = issued /\ Grown
      /\ caller' \in [Requests -> Tabs \cup {None}]
      /\ \A q \in Requests : request'[q] = None => caller'[q] = None
      /\ \A u \in Tabs \ {t} : KeptFor(u)
      /\ request[r] = None /\ request'[r] = req /\ caller'[r] = t
      /\ \A q \in Requests \ {r} : request'[q] = request[q] /\ caller'[q] = caller[q]
  BY <1>1, <1>2, <1>4, <1>5, SendKeeps
<1>7. /\ x \in Tab /\ x.at = w.at /\ x.history = w.history /\ x.form = r
      /\ x.token = w.token /\ x.user = w.user /\ x.due = w.due /\ x.loading = w.loading
      /\ x.page = w.page
  BY <1>1 DEF Tab
<1> HIDE DEF x
<1>8. Fine(x)
  BY <1>1, <1>2, <1>7 DEF Fine, Forms, Screen
<1>9. /\ tab' \in [Tabs -> Tab] /\ (\A u \in Tabs : Fine(tab[u]))'
      /\ tab'[t] = x /\ \A u \in Tabs \ {t} : tab'[u] = tab[u]
  BY <1>1, <1>5, <1>6, <1>8, TabChanges
<1>10. acts' \in 0 .. MaxActs
  BY <1>1, ActCounts DEF SubmitSignIn
<1>11. TabsOK'
  BY <1>1, <1>2, <1>6, <1>9, <1>10, TabsFromParts DEF TabsOK
<1>12. \A q \in Requests : /\ Awaits(t, q)' <=> Awaits(t, q)
                           /\ Awaits(t, q) => request'[q].token = request[q].token
  BY <1>4, <1>6 DEF Awaits
<1>13. /\ tab'[t].token = tab[t].token /\ tab'[t].user = tab[t].user /\ tab'[t].form = r
       /\ tab'[t].due = tab[t].due /\ tab'[t].loading = tab[t].loading
  BY <1>7, <1>9
<1>14. Checking(t)' <=> Checking(t)
  <2>1. (\E q \in Requests : Awaits(t, q))' <=> \E q \in Requests : Awaits(t, q)
    BY <1>12
  <2> QED BY <2>1, <1>13 DEF Checking
<1>15. Served(t)'
  <2>1. caller'[r] = t /\ request'[r] # None /\ request'[r].kind # "me"
    BY <1>4, <1>6, NoRequest
  <2> QED BY <2>1, <1>1, <1>13, <1>14 DEF Served
<1>16. Consistent(t)'
  <2> SUFFICES ASSUME t \notin overtaken' PROVE Consistent(t)'
    BY DEF Consistent
  <2>1. t \notin overtaken
    BY <1>2
  <2>2. \A q \in Requests : Awaits(t, q)' => request'[q].token = tab[t].token
    BY <2>1, <1>1, <1>12 DEF Consistent
  <2> QED BY <2>1, <2>2, <1>1, <1>2, <1>6, <1>13, <1>14 DEF Consistent
<1>17. \A u \in Tabs \ {t} : Served(u)' /\ Consistent(u)'
  BY <1>2, <1>6, <1>9, OthersKept
<1> QED BY <1>6, <1>11, <1>15, <1>16, <1>17 DEF WebAppInv

(***************************************************************************)
(* Answers.                                                                *)
(***************************************************************************)

\* What an answer with a token says.
LEMMA AnswerFields ==
    ASSUME AuthInv, NEW r \in Requests, request[r] # None, request[r].stage = "answered",
           request[r].answer # Refused
    PROVE  LET a == request[r].answer IN
           /\ a.token \in 1 .. Len(issued) /\ a.user = issued[a.token] /\ a.user \in Nat \ {0}
           /\ request[r].kind = "me" => a.token = request[r].token
<1>1. Sound(request[r]) /\ issued \in Seq(Nat \ {0})
  BY DEF AuthInv, AuthTypeOK, RequestsSound
<1> QED BY <1>1 DEF Sound

LEMMA CheckSucceedsKeeps ==
    ASSUME WebAppInv, NEW r \in Requests, CheckSucceeds(r)
    PROVE  WebAppInv'
<1>1. AuthInv /\ TabsOK /\ Len(issued) \in Nat
  BY DEF WebAppInv, AuthInv, AuthTypeOK
<1>3. PICK t \in Tabs : t = caller[r]
  BY <1>1 DEF TabsOK, CheckSucceeds
<1> DEFINE w == tab[t]
           a == request[r].answer
           v == [w EXCEPT !.user = a.user, !.loading = FALSE]
           x == Rendered(w, v)
<1>2. /\ request[r] # None /\ request[r].kind = "me" /\ request[r].stage = "answered"
      /\ request[r].answer # Refused
      /\ tab' = [tab EXCEPT ![t] = x] /\ Done(r)
      /\ ls' = ls /\ acts' = acts /\ overtaken' = overtaken
  BY <1>3 DEF CheckSucceeds, At
<1>4. Served(t) /\ Consistent(t) /\ w \in Tab /\ Fine(w)
  BY <1>3 DEF WebAppInv, TabsOK
<1>5. /\ a.token \in 1 .. Len(issued) /\ a.user = issued[a.token] /\ a.user \in Nat \ {0}
      /\ a.token = request[r].token
  BY <1>1, <1>2, AnswerFields
<1>6. /\ AuthInv' /\ issued' = issued /\ Grown
      /\ caller' \in [Requests -> Tabs \cup {None}]
      /\ \A q \in Requests : request'[q] = None => caller'[q] = None
      /\ \A u \in Tabs : u # t => KeptFor(u)
      /\ caller'[r] = None
      /\ \A q \in Requests \ {r} : request'[q] = request[q] /\ caller'[q] = caller[q]
  BY <1>1, <1>2, <1>3, DoneDrops, DropKeeps
<1> HIDE DEF a
<1>7. /\ v \in Tab /\ v.at = w.at /\ v.history = w.history /\ v.form = w.form
      /\ v.token = w.token /\ v.user = a.user /\ v.due = w.due /\ ~v.loading
  BY <1>4, <1>5 DEF Tab
<1> HIDE DEF v
<1>8. Fine(x) /\ SameSession(x, v) /\ x.form \in {0, w.form}
  BY <1>4, <1>7, RenderedFine DEF Fine
<1> HIDE DEF x
<1>9. x.token = w.token /\ x.user = a.user /\ x.due = w.due /\ ~x.loading
  BY <1>7, <1>8 DEF SameSession
<1>10. /\ tab' \in [Tabs -> Tab] /\ (\A u \in Tabs : Fine(tab[u]))'
       /\ tab'[t] = x /\ \A u \in Tabs \ {t} : tab'[u] = tab[u]
  BY <1>1, <1>2, <1>3, <1>6, <1>8, TabChanges
<1>11. TabsOK'
  BY <1>1, <1>2, <1>6, <1>10, TabsFromParts DEF TabsOK
<1>12. Served(t)'
  <2>1. w.form # 0 => w.form \in Requests \ {r}
    BY <1>1, <1>2, <1>3, <1>4, FormType DEF Served
  <2>2. x.form # 0 => /\ caller'[x.form] = t /\ request'[x.form] # None
                      /\ request'[x.form].kind # "me"
    BY <2>1, <1>4, <1>6, <1>8 DEF Served
  <2> QED BY <2>2, <1>9, <1>10 DEF Served
<1>13. Consistent(t)'
  <2> SUFFICES ASSUME t \notin overtaken' PROVE Consistent(t)'
    BY DEF Consistent
  <2>1. t \notin overtaken
    BY <1>2
  <2>2. Awaits(t, r)
    BY <1>2, <1>3 DEF Awaits
  <2>3. w.token = a.token
    BY <2>1, <2>2, <1>4, <1>5 DEF Consistent
  <2>4. w.due => w.token = ls
    BY <2>1, <1>4 DEF Consistent
  <2>5. \A q \in Requests : Awaits(t, q)' => request'[q].token = w.token
    <3>1. \A q \in Requests : Awaits(t, q)' => q # r /\ Awaits(t, q)
      BY <1>3, <1>6, NoneIsNoTab DEF Awaits
    <3> QED BY <3>1, <2>1, <1>4, <1>6 DEF Consistent
  <2>6. a.token # 0 /\ issued'[a.token] = a.user /\ a.user # 0
    BY <1>1, <1>5, <1>6
  <2> QED BY <2>3, <2>4, <2>5, <2>6, <1>2, <1>9, <1>10 DEF Consistent
<1>14. \A u \in Tabs \ {t} : Served(u)' /\ Consistent(u)'
  BY <1>2, <1>3, <1>6, <1>10, OthersKept
<1> QED BY <1>6, <1>11, <1>12, <1>13, <1>14 DEF WebAppInv

LEMMA CheckFailsKeeps ==
    ASSUME WebAppInv, NEW r \in Requests, CheckFails(r)
    PROVE  WebAppInv'
<1>1. AuthInv /\ TabsOK /\ Len(issued) \in Nat
  BY DEF WebAppInv, AuthInv, AuthTypeOK
<1>2. PICK t \in Tabs : t = caller[r]
  BY <1>1 DEF TabsOK, CheckFails
<1> DEFINE w == tab[t]
           m == WithToken(w, 0, 0)
           v == [m EXCEPT !.loading = FALSE]
           x == Rendered(w, v)
<1>3. /\ request[r] # None /\ request[r].kind = "me"
      /\ tab' = [tab EXCEPT ![t] = x] /\ Done(r) /\ ls' = 0 /\ acts' = acts
  BY <1>2 DEF CheckFails, SignedOut
<1>4. overtaken' = overtaken \cup
         {u \in Tabs : IF u = t THEN tab[u].due \/ \E s \in Requests \ {r} : Awaits(u, s)
                               ELSE tab[u].due}
  BY <1>2 DEF CheckFails
<1>5. Served(t) /\ Consistent(t) /\ w \in Tab /\ Fine(w) /\ overtaken \subseteq Tabs
  BY <1>1 DEF WebAppInv, TabsOK
<1>6. /\ overtaken' \subseteq Tabs /\ overtaken \subseteq overtaken'
      /\ \A q \in Requests \ {r} : Awaits(t, q) => t \in overtaken'
      /\ \A u \in Tabs \ {t} : tab[u].due => u \in overtaken'
  BY <1>4, <1>5
<1>7. /\ AuthInv' /\ issued' = issued /\ Grown
      /\ caller' \in [Requests -> Tabs \cup {None}]
      /\ \A q \in Requests : request'[q] = None => caller'[q] = None
      /\ \A u \in Tabs : u # t => KeptFor(u)
      /\ caller'[r] = None
      /\ \A q \in Requests \ {r} : request'[q] = request[q] /\ caller'[q] = caller[q]
  BY <1>1, <1>2, <1>3, DoneDrops, DropKeeps
<1>8. /\ m \in Tab /\ m.at = w.at /\ m.history = w.history /\ m.form = w.form
      /\ m.token = 0 /\ m.user = 0
  <2> HIDE DEF v, x
  <2> QED BY <1>5, WithTokenFields
<1> HIDE DEF m
<1>9. /\ v \in Tab /\ v.at = w.at /\ v.history = w.history /\ v.form = w.form
      /\ v.token = 0 /\ v.user = 0 /\ ~v.loading
  BY <1>8 DEF Tab
<1> HIDE DEF v
<1>10. Fine(x) /\ SameSession(x, v) /\ x.form \in {0, w.form}
  BY <1>1, <1>5, <1>9, RenderedFine DEF Fine
<1> HIDE DEF x
<1>11. x.token = 0 /\ x.user = 0 /\ ~x.loading
  BY <1>9, <1>10 DEF SameSession
<1>12. /\ tab' \in [Tabs -> Tab] /\ (\A u \in Tabs : Fine(tab[u]))'
       /\ tab'[t] = x /\ \A u \in Tabs \ {t} : tab'[u] = tab[u]
  BY <1>1, <1>3, <1>7, <1>10, TabChanges
<1>13. ls' \in 0 .. Len(issued')
  BY <1>1, <1>3, <1>7
<1>14. TabsOK'
  BY <1>1, <1>3, <1>6, <1>7, <1>12, <1>13, TabsFromParts DEF TabsOK
<1>15. Served(t)'
  <2>1. w.form # 0 => w.form \in Requests \ {r}
    BY <1>1, <1>3, <1>5, FormType DEF Served
  <2>2. x.form # 0 => /\ caller'[x.form] = t /\ request'[x.form] # None
                      /\ request'[x.form].kind # "me"
    BY <2>1, <1>5, <1>7, <1>10 DEF Served
  <2> QED BY <2>2, <1>11, <1>12 DEF Served
<1>16. Consistent(t)'
  <2> SUFFICES ASSUME t \notin overtaken' PROVE Consistent(t)'
    BY DEF Consistent
  <2>1. \A q \in Requests : ~Awaits(t, q)'
    BY <1>6, <1>7, NoneIsNoTab DEF Awaits
  <2> QED BY <2>1, <1>3, <1>11, <1>12 DEF Consistent
<1>17. \A u \in Tabs \ {t} : Served(u)' /\ Consistent(u)'
  BY <1>6, <1>7, <1>12, OthersKept
<1> QED BY <1>7, <1>14, <1>15, <1>16, <1>17 DEF WebAppInv

LEMMA SignInSucceedsKeeps ==
    ASSUME WebAppInv, NEW r \in Requests, SignInSucceeds(r)
    PROVE  WebAppInv'
<1>1. AuthInv /\ TabsOK /\ Len(issued) \in Nat
  BY DEF WebAppInv, AuthInv, AuthTypeOK
<1>2. PICK t \in Tabs : t = caller[r]
  BY <1>1 DEF TabsOK, SignInSucceeds
<1> DEFINE w == tab[t]
           k == request[r].answer.token
           n == request[r].answer.user
           new == Visit(WithToken(w, k, n), To("dashboard"))
           x == Rendered(w, new)
<1>3. /\ request[r] # None /\ request[r].kind # "me" /\ request[r].stage = "answered"
      /\ request[r].answer # Refused
      /\ tab' = [tab EXCEPT ![t] = x] /\ Done(r) /\ NewSession(t) /\ ls' = k /\ acts' = acts
  BY <1>2 DEF SignInSucceeds
<1>4. k \in 1 .. Len(issued) /\ n = issued[k] /\ n \in Nat \ {0}
  BY <1>1, <1>3, AnswerFields
<1>5. Served(t) /\ w \in Tab /\ Fine(w)
  BY <1>1 DEF WebAppInv, TabsOK
<1>6. /\ AuthInv' /\ issued' = issued /\ Grown
      /\ caller' \in [Requests -> Tabs \cup {None}]
      /\ \A q \in Requests : request'[q] = None => caller'[q] = None
      /\ \A u \in Tabs : u # t => KeptFor(u)
      /\ caller'[r] = None
      /\ \A q \in Requests \ {r} : request'[q] = request[q] /\ caller'[q] = caller[q]
  BY <1>1, <1>2, <1>3, DoneDrops, DropKeeps
<1> HIDE DEF k, n
<1>7. k \in 0 .. Len(issued) /\ k # 0 /\ n \in Nat /\ n # 0 /\ "dashboard" \in Views
  BY <1>1, <1>4 DEF Views
<1>8. /\ Fine(x) /\ x.token = k /\ x.user = n /\ x.loading = w.loading
      /\ x.due = (w.due \/ k # w.token) /\ x.form \in {0, w.form}
      /\ x.form # 0 => Screen(new) \in {"login", "register"}
      /\ Screen(new) = IF w.loading THEN "loading"
                       ELSE IF "dashboard" \in {"dashboard", "create"} /\ n = 0
                            THEN "login" ELSE "dashboard"
  BY <1>1, <1>5, <1>7, SessionTab
<1>9. x.form = 0
  <2>1. Screen(new) \in {"loading", "dashboard"}
    BY <1>7, <1>8
  <2> HIDE DEF x, new
  <2> QED BY <2>1, <1>8
<1> HIDE DEF x
<1>10. \A q \in Requests : Awaits(t, q)' <=> Awaits(t, q)
  BY <1>3, <1>6, NoneIsNoTab DEF Awaits
<1>11. acts' \in 0 .. MaxActs
  BY <1>1, <1>3 DEF TabsOK
<1>12. \A u \in Tabs \ {t} : KeptFor(u)
  BY <1>6
<1> QED BY <1>1, <1>3, <1>4, <1>6, <1>7, <1>8, <1>9, <1>10, <1>11, <1>12, NewSessionKeeps

LEMMA SignInFailsKeeps ==
    ASSUME WebAppInv, NEW r \in Requests, SignInFails(r)
    PROVE  WebAppInv'
<1>1. AuthInv /\ TabsOK /\ Len(issued) \in Nat
  BY DEF WebAppInv, AuthInv, AuthTypeOK
<1>2. PICK t \in Tabs : t = caller[r]
  BY <1>1 DEF TabsOK, SignInFails
<1> DEFINE w == tab[t]
           f == IF w.form = r THEN 0 ELSE w.form
           x == [w EXCEPT !.form = f]
<1>3. /\ request[r] # None /\ request[r].kind # "me"
      /\ ls' = ls /\ acts' = acts /\ overtaken' = overtaken /\ Dropped(r)
  BY DEF SignInFails, Dropped
<1>4. Served(t) /\ Consistent(t) /\ w \in Tab /\ Fine(w)
  BY <1>1 DEF WebAppInv, TabsOK
<1>5. /\ AuthInv' /\ issued' = issued /\ Grown
      /\ caller' \in [Requests -> Tabs \cup {None}]
      /\ \A q \in Requests : request'[q] = None => caller'[q] = None
      /\ \A u \in Tabs : u # t => KeptFor(u)
      /\ caller'[r] = None
      /\ \A q \in Requests \ {r} : request'[q] = request[q] /\ caller'[q] = caller[q]
  BY <1>1, <1>2, <1>3, DropKeeps
<1>6. tab' = [tab EXCEPT ![t] = x]
  BY <1>2 DEF SignInFails
<1>7. f \in {0} \cup Requests /\ f \in {0, w.form} /\ f # r
  BY <1>1, FormType
<1> HIDE DEF f
<1>8. /\ x \in Tab /\ x.at = w.at /\ x.history = w.history /\ x.form = f
      /\ x.token = w.token /\ x.user = w.user /\ x.due = w.due /\ x.loading = w.loading
      /\ x.page = w.page
  BY <1>4, <1>7 DEF Tab
<1> HIDE DEF x
<1>9. Fine(x)
  BY <1>4, <1>7, <1>8 DEF Fine, Forms, Screen
<1>10. /\ tab' \in [Tabs -> Tab] /\ (\A u \in Tabs : Fine(tab[u]))'
       /\ tab'[t] = x /\ \A u \in Tabs \ {t} : tab'[u] = tab[u]
  BY <1>1, <1>5, <1>6, <1>9, TabChanges
<1>11. TabsOK'
  BY <1>1, <1>3, <1>5, <1>10, TabsFromParts DEF TabsOK
<1>12. \A q \in Requests : /\ Awaits(t, q)' <=> Awaits(t, q)
                           /\ Awaits(t, q) => request'[q].token = request[q].token
  BY <1>3, <1>5, NoneIsNoTab DEF Awaits
<1>13. /\ tab'[t].token = tab[t].token /\ tab'[t].user = tab[t].user
       /\ tab'[t].due = tab[t].due /\ tab'[t].loading = tab[t].loading /\ tab'[t].form = f
  BY <1>8, <1>10
<1>14. Checking(t)' <=> Checking(t)
  <2>1. (\E q \in Requests : Awaits(t, q))' <=> \E q \in Requests : Awaits(t, q)
    BY <1>12
  <2> QED BY <2>1, <1>13 DEF Checking
<1>15. Served(t)'
  <2>1. f # 0 => f = w.form /\ f \in Requests \ {r}
    BY <1>7
  <2>2. f # 0 => caller'[f] = t /\ request'[f] # None /\ request'[f].kind # "me"
    BY <2>1, <1>4, <1>5 DEF Served
  <2> QED BY <2>2, <1>4, <1>13, <1>14 DEF Served
<1>16. Consistent(t)'
  <2> SUFFICES ASSUME t \notin overtaken' PROVE Consistent(t)'
    BY DEF Consistent
  <2>1. t \notin overtaken
    BY <1>3
  <2>2. \A q \in Requests : Awaits(t, q)' => request'[q].token = tab[t].token
    BY <2>1, <1>4, <1>12 DEF Consistent
  <2> QED BY <2>1, <2>2, <1>3, <1>4, <1>5, <1>13, <1>14 DEF Consistent
<1>17. \A u \in Tabs \ {t} : Served(u)' /\ Consistent(u)'
  BY <1>3, <1>5, <1>10, OthersKept
<1> QED BY <1>5, <1>11, <1>15, <1>16, <1>17 DEF WebAppInv

LEMMA ForgottenKeeps ==
    ASSUME WebAppInv, NEW r \in Requests, Forgotten(r)
    PROVE  WebAppInv'
<1>1. AuthInv /\ TabsOK /\ Done(r) /\ caller[r] = None
  BY DEF WebAppInv, Forgotten
<1>2. ls' = ls /\ tab' = tab /\ acts' = acts /\ overtaken' = overtaken
  BY DEF Forgotten
<1>3. /\ AuthInv' /\ issued' = issued /\ Grown
      /\ caller' \in [Requests -> Tabs \cup {None}]
      /\ \A q \in Requests : request'[q] = None => caller'[q] = None
      /\ \A u \in Tabs : u # caller[r] => KeptFor(u)
  BY <1>1, DoneDrops, DropKeeps
<1>4. TabsOK'
  BY <1>1, <1>2, <1>3 DEF TabsOK, Fine
<1>5. ASSUME NEW u \in Tabs PROVE Served(u)' /\ Consistent(u)'
  <2>1. KeptFor(u)
    BY <1>1, <1>3, NoneIsNoTab
  <2>2. SameSession(tab'[u], tab[u]) /\ tab'[u].form \in {0, tab[u].form}
    BY <1>2, SameSessionRefl
  <2> QED BY <2>1, <2>2, <1>2, <1>3, TabKept
<1> QED BY <1>3, <1>4, <1>5 DEF WebAppInv

\* A step of the server.
LEMMA ServerKeeps ==
    ASSUME WebAppInv, AuthInv', Grown, \A q \in Requests : Pending(q),
           UNCHANGED <<ls, tab, caller, acts, overtaken>>
    PROVE  WebAppInv'
<1>1. TabsOK /\ Len(issued) \in Nat /\ Len(issued') \in Nat /\ Len(issued) <= Len(issued')
  BY DEF WebAppInv, AuthInv, AuthTypeOK, Grown
<1>2. ls' = ls /\ tab' = tab /\ caller' = caller /\ acts' = acts /\ overtaken' = overtaken
  OBVIOUS
<1>3. ASSUME NEW t \in Tabs PROVE Fine(tab[t])'
  <2>1. Fine(tab[t]) /\ tab[t].token \in Nat
    BY <1>1, FormType DEF TabsOK
  <2>2. tab[t].token <= Len(issued')
    BY <2>1, <1>1 DEF Fine
  <2> QED BY <2>1, <2>2, <1>2 DEF Fine
<1>4. ls \in 0 .. Len(issued')
  BY <1>1 DEF TabsOK
<1>5. TabsOK'
  <2>1. \A q \in Requests : request'[q] = None => caller'[q] = None
    BY <1>1, <1>2 DEF TabsOK, Pending
  <2> QED BY <2>1, <1>1, <1>2, <1>3, <1>4 DEF TabsOK
<1>6. ASSUME NEW u \in Tabs PROVE Served(u)' /\ Consistent(u)'
  <2>1. KeptFor(u)
    BY <1>2 DEF KeptFor
  <2>2. SameSession(tab'[u], tab[u]) /\ tab'[u].form \in {0, tab[u].form}
    BY <1>2, SameSessionRefl
  <2> QED BY <2>1, <2>2, <1>2, TabKept
<1> QED BY <1>5, <1>6 DEF WebAppInv

(***************************************************************************)
(* The inductive invariant and what follows from it.                       *)
(***************************************************************************)

LEMMA WebAppInvInit == WebAppInit => WebAppInv
<1> SUFFICES ASSUME WebAppInit PROVE WebAppInv
  OBVIOUS
<1>1. /\ store \in Stores /\ expired = {} /\ overtaken = {} /\ acts = 0
      /\ request = [r \in Requests |-> None] /\ caller = [r \in Requests |-> None]
  BY DEF WebAppInit
<1>2. /\ accounts \subseteq Account /\ IsFiniteSet(accounts) /\ OneAccountPerAddress
      /\ issued \in Seq(Nat \ {0}) /\ ls \in 0 .. Len(issued)
  <2>1. CASE accounts = {} /\ issued = <<>> /\ ls = 0
    BY <2>1, FS_EmptySet DEF OneAccountPerAddress
  <2>2. ASSUME NEW e \in Emails, NEW pw \in Passwords,
               accounts = {[id |-> 1, email |-> e, password |-> pw]},
               issued = << 1 >>, ls \in {0, 1}
        PROVE  /\ accounts \subseteq Account /\ IsFiniteSet(accounts) /\ OneAccountPerAddress
               /\ issued \in Seq(Nat \ {0}) /\ ls \in 0 .. Len(issued)
    <3>1. accounts \subseteq Account /\ OneAccountPerAddress
      BY <2>2 DEF Account, OneAccountPerAddress
    <3>2. IsFiniteSet(accounts)
      BY <2>2, FS_Singleton
    <3>3. issued \in Seq(Nat \ {0}) /\ Len(issued) = 1
      BY <2>2
    <3> QED BY <2>2, <3>1, <3>2, <3>3
  <2> QED BY <2>1, <2>2 DEF WebAppInit
<1>3. AuthInv
  BY <1>1, <1>2 DEF AuthInv, AuthTypeOK, RequestsSound, InMemoryAtOnce, At
<1>4. PICK url \in [Tabs -> Urls] : tab = [t \in Tabs |-> Loaded(<<url[t]>>, 1)]
  BY DEF WebAppInit
<1>5. ASSUME NEW t \in Tabs
      PROVE  /\ Fine(tab[t]) /\ tab[t].token = ls /\ tab[t].user = 0 /\ tab[t].due
             /\ tab[t].form = 0
  <2>1. <<url[t]>> \in Seq(Page) /\ 1 \in 1 .. Len(<<url[t]>>)
    BY UrlsAssumption
  <2> QED BY <2>1, <1>2, <1>3, <1>4, LoadedFine
<1>6. TabsOK
  <2>1. acts \in 0 .. MaxActs
    BY <1>1, WebAppAssumption
  <2> QED BY <2>1, <1>1, <1>2, <1>4, <1>5 DEF TabsOK, Fine
<1>7. \A t \in Tabs : Served(t) /\ Consistent(t)
  BY <1>1, <1>5 DEF Served, Consistent, Awaits, Checking
<1> QED BY <1>3, <1>6, <1>7 DEF WebAppInv

LEMMA WebAppInvStep == WebAppInv /\ [WebAppNext]_webVars => WebAppInv'
<1> SUFFICES ASSUME WebAppInv, [WebAppNext]_webVars PROVE WebAppInv'
  OBVIOUS
<1>1. ASSUME NEW t \in Tabs, TabStep(t) PROVE WebAppInv'
  <2>1. CASE CheckAuth(t)
    BY <2>1, CheckNothing, CheckSends
  <2> QED BY <1>1, <2>1, TraverseKeeps, FollowLinkKeeps, ReloadKeeps, LogoutKeeps,
             SubmitKeeps DEF TabStep
<1>2. ASSUME NEW r \in Requests, ServeStep(r) PROVE WebAppInv'
  BY <1>2, ServeKeeps, ServerKeeps DEF ServeStep, WebAppInv
<1>3. ASSUME NEW r \in Requests, AnswerStep(r) PROVE WebAppInv'
  BY <1>3, CheckSucceedsKeeps, CheckFailsKeeps, SignInSucceedsKeeps, SignInFailsKeeps,
     ForgottenKeeps DEF AnswerStep
<1>4. CASE ExpireStep
  BY <1>4, ExpireKeeps, ServerKeeps DEF ExpireStep, WebAppInv
<1>5. CASE UNCHANGED webVars
  <2>1. UNCHANGED authVars /\ UNCHANGED <<ls, tab, caller, acts, overtaken>>
    BY <1>5 DEF webVars
  <2>2. AuthInv' /\ Grown /\ request' = request
    BY <2>1, AuthUnchanged DEF WebAppInv
  <2>3. \A q \in Requests : Pending(q)
    BY <2>2 DEF Pending
  <2> QED BY <2>1, <2>2, <2>3, ServerKeeps
<1> QED BY <1>1, <1>2, <1>3, <1>4, <1>5 DEF WebAppNext

LEMMA WebAppInvariant == WebAppSpec => []WebAppInv
BY WebAppInvInit, WebAppInvStep, PTL DEF WebAppSpec

\* Accounts, tokens, tabs and requests have the shape that the code gives them.
THEOREM WebAppTypeCorrect == WebAppSpec => []WebAppTypeOK
<1>1. WebAppInv => WebAppTypeOK
  BY DEF WebAppInv, AuthInv, TabsOK, Fine, WebAppTypeOK
<1> QED BY <1>1, WebAppInvariant, PTL

\* However many registrations of an address are under way, it gets one account, with the
\* unique index of MongoDB and under the mutex in memory.
THEOREM OneAccountAlways == WebAppSpec => []OneAccountPerAddress
<1>1. WebAppInv => OneAccountPerAddress
  BY DEF WebAppInv, AuthInv
<1> QED BY <1>1, WebAppInvariant, PTL

\* Whatever tabs do and however late answers come: while the session of a tab does not
\* change with a check under way, its user is the one of its token.
THEOREM SessionsAgree == WebAppSpec => []SessionConsistent
<1>1. WebAppInv => SessionConsistent
  BY DEF WebAppInv, Consistent, SessionConsistent
<1> QED BY <1>1, WebAppInvariant, PTL

\* Behind each page that loads and each form that is disabled there is something under way
\* that will end it.
THEOREM NothingEverStuck == WebAppSpec => []NothingStuck
<1>1. WebAppInv => NothingStuck
  BY DEF WebAppInv, Served, NothingStuck
<1> QED BY <1>1, WebAppInvariant, PTL
=============================================================================
