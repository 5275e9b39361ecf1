----------------------------- MODULE AuthService -----------------------------
(***************************************************************************)
(* Accounts and tokens: AuthService of                                     *)
(* backend/internal/services/auth_service.go, the token check of           *)
(* middleware/auth_middleware.go and the handler of GET /api/auth/me.      *)
(*                                                                         *)
(* Accounts are in MongoDB or, when it could not be reached at start-up,   *)
(* in memory.  MongoDB does each command atomically and a command may      *)
(* fail; Register is two commands.                                         *)
(* Data abstractions: an account's id is a number, in order of creation; a *)
(* token is its place in "issued".  Names, hashing and signatures are left *)
(* out: a password matches or it does not, and a token is valid until it   *)
(* expires.  Field validation is in the forms that send the requests.      *)
(***************************************************************************)
EXTENDS Naturals, Sequences, FiniteSets

CONSTANTS
    Stores,     \* the stores that may have been set up at start-up
    Emails, Passwords,
    MaxRequests,\* bound on the requests to the three routes under way at a time
    None

ASSUME AuthAssumption == None \notin Nat /\ MaxRequests \in Nat
ASSUME StoresAssumption == Stores \subseteq {"mongo", "unindexed", "memory"}

Requests == 1 .. MaxRequests

VARIABLES
    store,      \* where the accounts are: MongoDB with the unique index on the addresses,
                \* MongoDB where the index could not be made, or memory
    accounts,
    issued,     \* issued[n]: the account for which token n was made
    expired,    \* tokens older than seven days
    request     \* request[r]: a request under way, or None

authVars == <<store, accounts, issued, expired, request>>

Account == [id : Nat \ {0}, email : Emails, password : Passwords]

\* An answer: the account and the token for it.
Answer  == [user : Nat, token : Nat]
Refused == [user |-> 0, token |-> 0]

\* A request that is "checked" is a registration between its two commands.
Request == [ kind : {"register", "login", "me"},
             email : Emails \cup {None}, password : Passwords \cup {None},
             token : Nat,       \* that of the Authorization header, 0 for no header
             stage : {"sent", "checked", "answered"},
             answer : Answer \cup {None} ]

ASSUME NoRequest == None \notin Request

\* What a page sends.
SignInRequest(kind, e, pw) ==
    [kind |-> kind, email |-> e, password |-> pw, token |-> 0, stage |-> "sent", answer |-> None]
MeRequest(token) ==
    [kind |-> "me", email |-> None, password |-> None, token |-> token,
     stage |-> "sent", answer |-> None]

At(r, kind, stage) == request[r] # None /\ request[r].kind = kind /\ request[r].stage = stage

AccountsOf(e) == {a \in accounts : a.email = e}

Reply(r, answer) ==
    request' = [request EXCEPT ![r].stage = "answered", ![r].answer = answer]

-----------------------------------------------------------------------------

\* generateToken and the answer with it.
ReplyWithToken(r, id) ==
    /\ issued' = Append(issued, id)
    /\ Reply(r, [user |-> id, token |-> Len(issued) + 1])

\* A new account for request r.
AddAccount(r) ==
    accounts' = accounts \cup {[id |-> Cardinality(accounts) + 1,
                                email |-> request[r].email, password |-> request[r].password]}

\* FindOne of Register.  That it failed is taken to mean that there is no such account.
RegisterFinds(r) ==
    /\ At(r, "register", "sent") /\ store # "memory"
    /\ \/ AccountsOf(request[r].email) # {} /\ Reply(r, Refused)
       \/ request' = [request EXCEPT ![r].stage = "checked"]
    /\ UNCHANGED <<store, accounts, issued, expired>>

\* (Mutant of RegisterInserts: the index on addresses is made without SetUnique, db.go:91.)
RegisterUnindexed(r) ==
    /\ At(r, "register", "checked")
    /\ AddAccount(r) /\ ReplyWithToken(r, Cardinality(accounts) + 1)
    /\ UNCHANGED <<store, expired>>

\* InsertOne of Register, which may fail, or be carried out and its answer be lost.
RegisterInserts(r) ==
    /\ At(r, "register", "checked")
    /\ \/ /\ store = "mongo" => AccountsOf(request[r].email) = {}
          /\ AddAccount(r)
          /\ \/ ReplyWithToken(r, Cardinality(accounts) + 1)
             \/ Reply(r, Refused) /\ UNCHANGED issued
       \/ Reply(r, Refused) /\ UNCHANGED <<accounts, issued>>
    /\ UNCHANGED <<store, expired>>

\* Register on the accounts in memory, under memMu.
RegisterInMemory(r) ==
    /\ At(r, "register", "sent") /\ store = "memory"
    /\ IF AccountsOf(request[r].email) = {}
       THEN AddAccount(r) /\ ReplyWithToken(r, Cardinality(accounts) + 1)
       ELSE Reply(r, Refused) /\ UNCHANGED <<accounts, issued>>
    /\ UNCHANGED <<store, expired>>

\* Login: the account that is found, if any, has to have the password.
Login(r) ==
    /\ At(r, "login", "sent")
    /\ \/ \E a \in AccountsOf(request[r].email) :
             IF a.password = request[r].password
             THEN ReplyWithToken(r, a.id)
             ELSE Reply(r, Refused) /\ UNCHANGED issued
       \/ /\ store # "memory" \/ AccountsOf(request[r].email) = {}
          /\ Reply(r, Refused) /\ UNCHANGED issued
    /\ UNCHANGED <<store, accounts, expired>>

\* AuthMiddleware.
Valid(token) == token # 0 /\ token \notin expired

\* Me, behind AuthMiddleware: who one is stands in the token, the accounts are not read.
Me(r) ==
    /\ At(r, "me", "sent")
    /\ Reply(r, IF Valid(request[r].token)
                THEN [user |-> issued[request[r].token], token |-> request[r].token]
                ELSE Refused)
    /\ UNCHANGED <<store, accounts, issued, expired>>

\* Seven days have passed since the oldest token that was valid so far.
Expire ==
    /\ Cardinality(expired) < Len(issued)
    /\ expired' = expired \cup {Cardinality(expired) + 1}
    /\ UNCHANGED <<store, accounts, issued, request>>

Serve(r) == \/ RegisterFinds(r) \/ RegisterInserts(r) \/ RegisterInMemory(r)
            \/ Login(r) \/ Me(r)

-----------------------------------------------------------------------------

AuthTypeOK ==
    /\ store \in Stores
    /\ accounts \subseteq Account
    /\ issued \in Seq(Nat \ {0})
    /\ expired \subseteq 1 .. Len(issued)
    /\ request \in [Requests -> Request \cup {None}]

\* There is one account for an address, whatever registrations are under way at the same
\* time (Register looks first and inserts then): the index on the addresses sees to it
\* in MongoDB, the mutex in memory.
OneAccountPerAddress ==
    store # "unindexed" =>
        \A a, b \in accounts : a.email = b.email => a = b

\* auth_service.go:56, "Check existing": that is, and not only with the index whose
\* creation may have failed (db.go:93), to keep addresses apart.
OneAccountAnyway == \A a, b \in accounts : a.email = b.email => a = b
=============================================================================
