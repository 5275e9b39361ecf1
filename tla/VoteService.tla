----------------------------- MODULE VoteService -----------------------------
(***************************************************************************)
(* VoteService of backend/internal/services/vote_service.go over           *)
(* PollService: POST .../vote and GET .../results for one poll.            *)
(*                                                                         *)
(* Every request runs on its own goroutine, and every command sent to      *)
(* Redis or MongoDB is a step of its own; between two of them any other    *)
(* request, write-back or fault may come.  pc names the next command.      *)
(*                                                                         *)
(* The counts live in Redis when a PING is answered in time, and in the    *)
(* maps memVotes and memVoters of the process when it is not.  The choice  *)
(* is made anew by each request, and twice by a vote: once to record it    *)
(* and once, in GetLiveResults, to read the counts.                        *)
(*                                                                         *)
(* Data abstractions: those of PollService; percentages are left out; an   *)
(* absent hash field is a count of 0, and an absent key an empty one.      *)
(***************************************************************************)
EXTENDS PollService

CONSTANTS
    Voters,     \* the values voterKey may take: fingerprint and address
    Reads,      \* GET .../results requests
    HasRedis    \* whether Redis answered when the process first started

Procs == Casts \cup Reads

ASSUME VoteAssumption ==
    /\ Casts \cap Reads = {}
    /\ None \notin Voters /\ None \notin Tally
    /\ HasRedis \in BOOLEAN

VARIABLES
    \* the requests
    pc,         \* pc[p]: what request p does next
    voter,      \* voter[c]: voterKey of cast c
    choice,     \* choice[c]: the option cast c asks for
    viaRedis,   \* casts with redisConnected set in CastVote
    view,       \* view[p]: the counts request p holds
    todo,       \* todo[p]: options that the seeding loop has yet to visit
    cancelled,  \* requests whose client has gone away
    \* Redis
    rUp,        \* whether the Redis server answers
    rClient,    \* s.redis # nil
    rVoters,    \* the set  poll:{id}:voters
    rVotes,     \* the hash poll:{id}:votes
    rTotal,     \* the key  poll:{id}:total, by the tally it is the sum of
    \* the process
    mVoters,    \* memVoters[pollID]
    mVotes,     \* memVotes[pollID], None while it is nil
    shown,      \* the counts in the last event sent to the viewers
    counted     \* history: casts that some store has counted

reqVars   == <<pc, voter, choice, viaRedis, view, todo, cancelled>>
redisVars == <<rVoters, rVotes, rTotal>>
memVars   == <<mVoters, mVotes>>
linkVars  == <<rUp, rClient>>
vars == <<pollVars, reqVars, linkVars, redisVars, memVars, shown, counted>>

Ended  == {"accepted", "refused", "failed", "answered", "lost"}
Active == {"ping", "sadd", "hincrby", "incr", "memvote", "getpoll", "ping2",
           "hgetall", "memread", "seed", "respond"}

VoteInit ==
    /\ PollInit
    /\ pc = [p \in Procs |-> "idle"]
    /\ voter = [c \in Casts |-> None]
    /\ choice = [c \in Casts |-> None]
    /\ viaRedis = {}
    /\ view = [p \in Procs |-> NoVotes]
    /\ todo = [p \in Procs |-> {}]
    /\ cancelled = {}
    /\ rUp = HasRedis /\ rClient = HasRedis
    /\ rVoters = {} /\ rVotes = NoVotes /\ rTotal = NoVotes
    /\ mVoters = {} /\ mVotes = None
    /\ shown = NoVotes
    /\ counted = {}

-----------------------------------------------------------------------------

\* A command of request p succeeds when the server answers and p's context is live.
\* (A command carried out whose reply is lost to a cancellation leaves the same
\* state as one that succeeded just before the cancellation.)
RedisAnswers(p) == rClient /\ rUp /\ p \notin cancelled

\* GetPoll under the context of request p; the in-memory store ignores the context.
GetPollFor(p) == IF UseMongo /\ p \in cancelled THEN {FALSE} ELSE GetPollResults

\* The Votes of the Poll in request p's hands: a private copy when it was decoded
\* from MongoDB, the shared array when it comes from memPolls.
Seen(p) == IF UseMongo THEN view[p] ELSE poll.votes

Goto(p, next) == pc' = [pc EXCEPT ![p] = next]

\* The request is over; what it held is dropped.
Finish(p, outcome) ==
    /\ Goto(p, outcome)
    /\ view' = [view EXCEPT ![p] = NoVotes]
    /\ todo' = [todo EXCEPT ![p] = {}]
    /\ cancelled' = cancelled \ {p}
    /\ viaRedis' = viaRedis \ {p}

\* (Mutant of AddVote: the wrong sign.)
SubtractVote(tally, o) == [tally EXCEPT ![o] = @ - 1]

AddVote(tally, o) == [tally EXCEPT ![o] = @ + 1]

\* What one increment command may do: with "resend" it may be carried out twice.
Increments(tally, o) ==
    {AddVote(tally, o)} \cup
    (IF "resend" \in Faults THEN {AddVote(AddVote(tally, o), o)} ELSE {})

Zero(tally) == \A o \in Options : tally[o] = 0

-----------------------------------------------------------------------------
(* CastVote: record the vote *)

\* GetPoll and the checks on what it returned.
BeginCast(c, v, o) ==
    /\ pc[c] = "idle"
    /\ \E found \in GetPollFor(c) :
          \/ /\ found /\ poll.isActive /\ o \in Options
             /\ Goto(c, "ping")
             /\ voter' = [voter EXCEPT ![c] = v]
             /\ choice' = [choice EXCEPT ![c] = o]
             /\ view' = [view EXCEPT ![c] = poll.votes]
          \/ /\ ~(found /\ poll.isActive /\ o \in Options)
             /\ Goto(c, IF found THEN "refused" ELSE "failed")
             /\ UNCHANGED <<voter, choice, view>>
    /\ UNCHANGED <<pollVars, viaRedis, todo, cancelled, linkVars, redisVars, memVars,
                   shown, counted>>

PingForCast(c) ==
    /\ pc[c] = "ping"
    /\ viaRedis' = IF RedisAnswers(c) THEN viaRedis \cup {c} ELSE viaRedis
    /\ Goto(c, IF RedisAnswers(c) THEN "sadd" ELSE "memvote")
    /\ UNCHANGED <<pollVars, voter, choice, view, todo, cancelled, linkVars, redisVars,
                   memVars, shown, counted>>

\* (Mutant of SAdd: the answer is ignored.)
SAddUnchecked(c) ==
    /\ pc[c] = "sadd"
    /\ rVoters' = IF RedisAnswers(c) THEN rVoters \cup {voter[c]} ELSE rVoters
    /\ Goto(c, "hincrby")
    /\ UNCHANGED <<pollVars, voter, choice, viaRedis, view, todo, cancelled, linkVars,
                   rVotes, rTotal, memVars, shown, counted>>

\* SADD: whether the voter was added; an error is logged and the vote goes on.  With
\* "resend" the client sends the command again after a lost reply, and the answer
\* is that of the second time.
SAdd(c) ==
    /\ pc[c] = "sadd"
    /\ \/ /\ RedisAnswers(c)
          /\ voter[c] \notin rVoters
          /\ rVoters' = rVoters \cup {voter[c]}
          /\ Goto(c, "hincrby")
          /\ UNCHANGED <<view, todo, cancelled, viaRedis>>
       \/ /\ RedisAnswers(c)
          /\ voter[c] \in rVoters \/ "resend" \in Faults
          /\ rVoters' = rVoters \cup {voter[c]}
          /\ Finish(c, "refused")
       \/ /\ ~RedisAnswers(c)
          /\ Goto(c, "hincrby")
          /\ UNCHANGED <<rVoters, view, todo, cancelled, viaRedis>>
    /\ UNCHANGED <<pollVars, voter, choice, linkVars, rVotes, rTotal, memVars,
                   shown, counted>>

\* (Mutant of HIncrBy: HSET of the count of the poll plus one.)
HSetCount(c) ==
    /\ pc[c] = "hincrby"
    /\ rVotes' = [rVotes EXCEPT ![choice[c]] = view[c][choice[c]] + 1]
    /\ counted' = counted \cup {c}
    /\ Goto(c, "incr")
    /\ UNCHANGED <<pollVars, voter, choice, viaRedis, view, todo, cancelled, linkVars,
                   rVoters, rTotal, memVars, shown>>

\* HINCRBY; its error is logged and the vote goes on.
HIncrBy(c) ==
    /\ pc[c] = "hincrby"
    /\ \/ /\ RedisAnswers(c)
          /\ rVotes' \in Increments(rVotes, choice[c])
          /\ counted' = counted \cup {c}
       \/ ~RedisAnswers(c) /\ UNCHANGED <<rVotes, counted>>
    /\ Goto(c, "incr")
    /\ UNCHANGED <<pollVars, voter, choice, viaRedis, view, todo, cancelled, linkVars,
                   rVoters, rTotal, memVars, shown>>

\* INCR of the total; both its results are dropped.
IncrTotal(c) ==
    /\ pc[c] = "incr"
    /\ rTotal' \in IF RedisAnswers(c) THEN Increments(rTotal, choice[c]) ELSE {rTotal}
    /\ Goto(c, "getpoll")
    /\ UNCHANGED <<pollVars, voter, choice, viaRedis, view, todo, cancelled, linkVars,
                   rVoters, rVotes, memVars, shown, counted>>

\* (Mutant of MemVote: the voter is not looked up.)
MemVoteUnchecked(c) ==
    /\ pc[c] = "memvote"
    /\ mVoters' = mVoters \cup {voter[c]}
    /\ mVotes' = AddVote(IF mVotes = None THEN Seen(c) ELSE mVotes, choice[c])
    /\ counted' = counted \cup {c}
    /\ Goto(c, "getpoll")
    /\ UNCHANGED <<pollVars, voter, choice, viaRedis, view, todo, cancelled, linkVars,
                   redisVars, shown>>

\* (Mutant of MemVote: every vote is added to the counts of the poll.)
MemVoteOnPoll(c) ==
    /\ pc[c] = "memvote"
    /\ voter[c] \notin mVoters
    /\ mVoters' = mVoters \cup {voter[c]}
    /\ mVotes' = AddVote(Seen(c), choice[c])
    /\ counted' = counted \cup {c}
    /\ Goto(c, "getpoll")
    /\ UNCHANGED <<pollVars, voter, choice, viaRedis, view, todo, cancelled, linkVars,
                   redisVars, shown>>

\* The fallback, under memMu from beginning to end.
MemVote(c) ==
    /\ pc[c] = "memvote"
    /\ \/ /\ voter[c] \in mVoters
          /\ Finish(c, "refused")
          /\ UNCHANGED <<memVars, counted>>
       \/ /\ voter[c] \notin mVoters
          /\ mVoters' = mVoters \cup {voter[c]}
          /\ mVotes' = AddVote(IF mVotes = None THEN Seen(c) ELSE mVotes, choice[c])
          /\ counted' = counted \cup {c}
          /\ Goto(c, "getpoll")
          /\ UNCHANGED <<view, todo, cancelled, viaRedis>>
    /\ UNCHANGED <<pollVars, voter, choice, linkVars, redisVars, shown>>

-----------------------------------------------------------------------------
(* GetLiveResults, called by CastVote and by GET .../results *)

\* A results request starts with the same GetPoll as a cast that comes here.
GetPollForResults(p) ==
    /\ pc[p] = "getpoll" \/ (p \in Reads /\ pc[p] = "idle")
    /\ \E found \in GetPollFor(p) :
          \/ /\ found
             /\ Goto(p, "ping2")
             /\ view' = [view EXCEPT ![p] = poll.votes]
             /\ UNCHANGED <<todo, cancelled, viaRedis>>
          \/ ~found /\ Finish(p, "failed")
    /\ UNCHANGED <<pollVars, voter, choice, linkVars, redisVars, memVars, shown,
                   counted>>

PingForResults(p) ==
    /\ pc[p] = "ping2"
    /\ Goto(p, IF RedisAnswers(p) THEN "hgetall" ELSE "memread")
    /\ UNCHANGED <<pollVars, voter, choice, viaRedis, view, todo, cancelled, linkVars,
                   redisVars, memVars, shown, counted>>

\* (Mutant of HGetAll: the counts of the poll are answered.)
HGetNothing(p) ==
    /\ pc[p] = "hgetall"
    /\ Goto(p, "respond")
    /\ UNCHANGED <<pollVars, voter, choice, viaRedis, view, todo, cancelled, linkVars,
                   redisVars, memVars, shown, counted>>

\* (Mutant of HGetAll: what was read is written again by the seeding loop.)
HGetAllRewrites(p) ==
    /\ pc[p] = "hgetall"
    /\ view' = [view EXCEPT ![p] = IF RedisAnswers(p) THEN rVotes ELSE @]
    /\ todo' = [todo EXCEPT ![p] = Options]
    /\ Goto(p, "seed")
    /\ UNCHANGED <<pollVars, voter, choice, viaRedis, cancelled, linkVars, redisVars,
                   memVars, shown, counted>>

\* HGETALL; an error counts as an empty hash, and an empty hash is to be seeded.
HGetAll(p) ==
    /\ pc[p] = "hgetall"
    /\ \/ /\ RedisAnswers(p) /\ ~Zero(rVotes)
          /\ view' = [view EXCEPT ![p] = rVotes]
          /\ Goto(p, "respond")
          /\ UNCHANGED todo
       \/ /\ ~RedisAnswers(p) \/ Zero(rVotes)
          /\ todo' = [todo EXCEPT ![p] = Options]
          /\ Goto(p, "seed")
          /\ UNCHANGED view
    /\ UNCHANGED <<pollVars, voter, choice, viaRedis, cancelled, linkVars, redisVars,
                   memVars, shown, counted>>

\* (Mutant of SeedOption: HINCRBY instead of HSET.)
SeedOptionAdds(p, o) ==
    LET n == Seen(p)[o] IN
    /\ pc[p] = "seed"
    /\ o \in todo[p]
    /\ rVotes' = IF RedisAnswers(p) THEN [rVotes EXCEPT ![o] = @ + n] ELSE rVotes
    /\ view' = [view EXCEPT ![p][o] = n]
    /\ todo' = [todo EXCEPT ![p] = @ \ {o}]
    /\ UNCHANGED <<pollVars, pc, voter, choice, viaRedis, cancelled, linkVars, rVoters,
                   rTotal, memVars, shown, counted>>

\* (Mutant of SeedOption: an option is tried again until Redis answers.)
SeedOptionInsists(p, o) ==
    LET n == Seen(p)[o] IN
    /\ pc[p] = "seed"
    /\ o \in todo[p]
    /\ RedisAnswers(p)
    /\ rVotes' = IF n > 0 THEN [rVotes EXCEPT ![o] = n] ELSE rVotes
    /\ view' = [view EXCEPT ![p][o] = n]
    /\ todo' = [todo EXCEPT ![p] = @ \ {o}]
    /\ UNCHANGED <<pollVars, pc, voter, choice, viaRedis, cancelled, linkVars, rVoters,
                   rTotal, memVars, shown, counted>>

\* One turn of the seeding loop: HSET of a count above zero, errors ignored.
SeedOption(p, o) ==
    LET n == Seen(p)[o] IN
    /\ pc[p] = "seed"
    /\ o \in todo[p]
    /\ rVotes' = IF n > 0 /\ RedisAnswers(p) THEN [rVotes EXCEPT ![o] = n] ELSE rVotes
    /\ view' = [view EXCEPT ![p][o] = n]
    /\ todo' = [todo EXCEPT ![p] = @ \ {o}]
    /\ UNCHANGED <<pollVars, pc, voter, choice, viaRedis, cancelled, linkVars, rVoters,
                   rTotal, memVars, shown, counted>>

\* After the loop: SET of the total if it is not zero.
SeedTotal(p) ==
    /\ pc[p] = "seed"
    /\ todo[p] = {}
    /\ rTotal' = IF RedisAnswers(p) /\ ~Zero(view[p]) THEN view[p] ELSE rTotal
    /\ Goto(p, "respond")
    /\ UNCHANGED <<pollVars, voter, choice, viaRedis, view, todo, cancelled, linkVars,
                   rVoters, rVotes, memVars, shown, counted>>

\* (Mutant of MemRead: the counts of the poll are answered.)
MemReadPoll(p) ==
    /\ pc[p] = "memread"
    /\ view' = [view EXCEPT ![p] = Seen(p)]
    /\ Goto(p, "respond")
    /\ UNCHANGED <<pollVars, voter, choice, viaRedis, todo, cancelled, linkVars,
                   redisVars, memVars, shown, counted>>

\* The fallback: the counts in memory, or else those of the poll.
MemRead(p) ==
    /\ pc[p] = "memread"
    /\ view' = [view EXCEPT ![p] = IF mVotes = None THEN Seen(p) ELSE mVotes]
    /\ Goto(p, "respond")
    /\ UNCHANGED <<pollVars, voter, choice, viaRedis, todo, cancelled, linkVars,
                   redisVars, memVars, shown, counted>>

-----------------------------------------------------------------------------

\* (Mutant of Accept: the vote is added to counts that contain it.)
AcceptAddingAgain(c) ==
    /\ c \in Casts
    /\ pc[c] = "respond"
    /\ shown' = AddVote(view[c], choice[c])
    /\ Spawn(c, AddVote(view[c], choice[c]))
    /\ Finish(c, "accepted")
    /\ UNCHANGED <<poll, call, voter, choice, linkVars, redisVars, memVars, counted>>

\* CastVote publishes the counts, on the channel that goes with how the vote was
\* recorded, starts the write-back and answers.
Accept(c) ==
    /\ c \in Casts
    /\ pc[c] = "respond"
    /\ shown' = IF c \in viaRedis /\ ~RedisAnswers(c) THEN shown ELSE view[c]
    /\ Spawn(c, view[c])
    /\ Finish(c, "accepted")
    /\ UNCHANGED <<poll, call, voter, choice, linkVars, redisVars, memVars,
                   counted>>

Answer(p) ==
    /\ p \in Reads
    /\ pc[p] = "respond"
    /\ Finish(p, "answered")
    /\ UNCHANGED <<pollVars, voter, choice, linkVars, redisVars, memVars, shown,
                   counted>>

RecordVote(c) == PingForCast(c) \/ SAdd(c) \/ HIncrBy(c) \/ IncrTotal(c) \/ MemVote(c)

FetchResults(p) ==
    \/ GetPollForResults(p) \/ PingForResults(p) \/ HGetAll(p)
    \/ (\E o \in Options : SeedOption(p, o)) \/ SeedTotal(p) \/ MemRead(p)

RequestStep(p) ==
    \/ p \in Casts /\ RecordVote(p)
    \/ FetchResults(p)
    \/ Accept(p)
    \/ Answer(p)

-----------------------------------------------------------------------------
(* Faults *)

\* The client disconnects: the context of the request is cancelled.
Cancel(p) ==
    /\ "cancel" \in Faults
    /\ pc[p] \in Active
    /\ cancelled' = cancelled \cup {p}
    /\ UNCHANGED <<pollVars, pc, voter, choice, viaRedis, view, todo, linkVars, redisVars,
                   memVars, shown, counted>>

\* Redis stops answering, or answers again.
RedisFlaps ==
    /\ "redisDown" \in Faults
    /\ rUp' = ~rUp
    /\ UNCHANGED <<pollVars, reqVars, rClient, redisVars, memVars, shown, counted>>

\* Redis comes back empty.
RedisLoss ==
    /\ "redisLoss" \in Faults
    /\ rVoters' = {} /\ rVotes' = NoVotes /\ rTotal' = NoVotes
    /\ UNCHANGED <<pollVars, reqVars, linkVars, memVars, shown, counted>>

\* The server process stops and starts again: its maps and its requests are gone, and
\* it uses Redis if Redis answers now.
Crash ==
    /\ PollCrash
    /\ pc' = [p \in Procs |-> IF pc[p] \in Active THEN "lost" ELSE pc[p]]
    /\ view' = [p \in Procs |-> NoVotes]
    /\ todo' = [p \in Procs |-> {}]
    /\ cancelled' = {} /\ viaRedis' = {}
    /\ rClient' = (HasRedis /\ rUp)
    /\ mVoters' = {} /\ mVotes' = None
    /\ UNCHANGED <<voter, choice, rUp, redisVars, shown, counted>>

VoteNext ==
    \/ PollStep /\ UNCHANGED <<reqVars, linkVars, redisVars, memVars, shown, counted>>
    \/ \E c \in Casts, v \in Voters, o \in Options \cup {None} : BeginCast(c, v, o)
    \/ \E p \in Procs : RequestStep(p)
    \/ \E p \in Procs : Cancel(p)
    \/ RedisFlaps
    \/ RedisLoss
    \/ Crash

VoteSpec == VoteInit /\ [][VoteNext]_vars

\* A goroutine that can run does run: commands to Redis and MongoDB return or time
\* out.  Nothing obliges a client to send a request, or a fault to come or to end.
VoteFairness ==
    /\ \A p \in Procs : WF_vars(pc[p] \in Active /\ RequestStep(p))
    /\ \A c \in Casts :
          WF_vars(/\ FindForUpdate(c) \/ ReplacePoll(c) \/ UpdateVotesInMemory(c)
                  /\ UNCHANGED <<reqVars, linkVars, redisVars, memVars, shown, counted>>)

FairVoteSpec == VoteSpec /\ VoteFairness

-----------------------------------------------------------------------------

VoteTypeOK ==
    /\ PollTypeOK
    /\ pc \in [Procs -> {"idle"} \cup Active \cup Ended]
    /\ voter \in [Casts -> Voters \cup {None}]
    /\ choice \in [Casts -> Options \cup {None}]
    /\ viaRedis \subseteq Casts
    /\ view \in [Procs -> Tally]
    /\ todo \in [Procs -> SUBSET Options]
    /\ cancelled \subseteq Procs
    /\ rUp \in BOOLEAN /\ rClient \in BOOLEAN
    /\ rVoters \subseteq Voters /\ rVotes \in Tally /\ rTotal \in Tally
    /\ mVoters \subseteq Voters /\ mVotes \in Tally \cup {None}
    /\ shown \in Tally
    /\ counted \subseteq Casts
-----------------------------------------------------------------------------

\* How many casts have been counted, by option.
Counts == [o \in Options |-> Cardinality({c \in counted : choice[c] = o})]

\* The counts that a results request with working stores answers.
Live == IF rClient THEN rVotes ELSE IF mVotes = None THEN NoVotes ELSE mVotes

AtMost(t, u) == \A o \in Options : t[o] <= u[o]

AtRest == /\ \A p \in Procs : pc[p] \notin Active
          /\ \A c \in Casts : sync[c].pc \notin {"find", "replace"}

\* A vote that was accepted was counted, and no voter is counted twice, however the
\* requests of one voter interleave (two tabs, a double click, a retry).
OneVotePerVoter ==
    /\ \A c \in Casts : pc[c] = "accepted" => c \in counted
    /\ \A c, d \in counted : voter[c] = voter[d] => c = d

\* The live count of every option is the number of casts for it that were counted: no
\* concurrent cast, seeding read or crash loses an increment or adds one.
TallyCountsVotes == Live = Counts

\* The result sent in reply to a vote, and published, contains that vote.
ReadYourVote ==
    \A c \in Casts : pc[c] = "respond" => view[c][choice[c]] >= 1

\* What the database, the viewers, the write-backs and the requests hold is never
\* ahead of the live counts, so that seeding from it can only fill in counts.
CopiesNotAhead ==
    /\ AtMost(poll.votes, Live) /\ AtMost(shown, Live)
    /\ \A c \in Casts : AtMost(sync[c].tally, Live)
    /\ \A p \in Procs : AtMost(view[p], Live)

\* Whatever fails - Redis unreachable, or back without its data, requests cancelled,
\* crashes, MongoDB errors - no store and no answer ever shows more votes for an option
\* than casts for it were counted: the fallbacks and the seeding never count twice.
NoInventedVotes ==
    /\ AtMost(poll.votes, Counts) /\ AtMost(rVotes, Counts) /\ AtMost(shown, Counts)
    /\ mVotes # None => AtMost(mVotes, Counts)
    /\ \A c \in Casts : AtMost(sync[c].tally, Counts)
    /\ \A p \in Procs : AtMost(view[p], Counts)

\* The hash in Redis never goes back: not by a seeding that comes late, and not by two
\* concurrent increments.
TallyNeverDrops == [][AtMost(rVotes, rVotes')]_vars

\* Every cast and every request for results that was started ends with an answer, also when
\* Redis goes up and down under it and its client disconnects.
EveryRequestEnds == \A p \in Procs : pc[p] \in Active ~> pc[p] \in Ended

\* Every write-back ends, so that none can come back much later with old counts.
EveryWriteBackEnds ==
    \A c \in Casts : sync[c].pc = "find" ~> sync[c].pc = "done"

\* What a voter sees is an atomic ballot: see Ballot.
Promise == INSTANCE Ballot WITH
    counts <- rVotes,
    voted  <- {voter[c] : c \in counted}

BallotSpec == Promise!BallotSpec

-----------------------------------------------------------------------------
(* Statements of the README and of comments that do not hold. *)

\* README.md:50, asynchronous write-back "ensuring zero data loss": when nothing is
\* under way any more the database holds the live counts.
DurableCatchesUp == AtRest /\ Stored => poll.votes = Live

\* README.md:49, "When a vote occurs, Go publishes the new tally": when nothing is under
\* way any more, the last event that the viewers got holds the live counts.
ViewersCatchUp == AtRest => shown = Live

\* vote_service.go:46, "CastVote handles atomic voting, duplicate prevention": a voter
\* who is turned away as having voted has been counted.
MarkedMeansCounted ==
    AtRest => \A v \in rVoters : \E c \in counted : voter[c] = v

\* README.md:63, "Double voting is strictly prevented": no voter is counted twice.
NoDoubleVote == \A c, d \in counted : voter[c] = voter[d] => c = d

\* vote_service.go:175, "Seed Redis with current MongoDB counts": the hash is empty, and
\* is going to be seeded, or contains what the database holds.
SeededWhenUsed == Zero(rVotes) \/ AtMost(poll.votes, rVotes)

\* README.md:136, "Cast an atomic vote": one accepted cast adds one vote.
OneCastOneVote == AtMost(rVotes, Counts)

\* vote_service.go:54, "this poll is closed and no longer accepting votes": while a poll
\* is closed, and its owner has been told so, no vote is counted.
ClosedCountsNoVotes ==
    [][ /\ Stored /\ ~poll.isActive
        /\ \E k \in Calls : call[k].op = "close" /\ call[k].pc = "ok"
        => UNCHANGED counted ]_vars
=============================================================================
