-------------------------- MODULE VoteServiceProofs --------------------------
(* Proofs about VoteService, for every value of its constants. *)
EXTENDS VoteService, PollServiceProofs

(***************************************************************************)
(* Type correctness.  What is put into the voter sets comes from requests  *)
(* that have passed the checks of CastVote, hence the strengthening.       *)
(***************************************************************************)

\* A vote that is being recorded has a voter and a valid option.
Chosen ==
    \A c \in Casts : pc[c] \in {"ping", "sadd", "hincrby", "incr", "memvote"} =>
        voter[c] \in Voters /\ choice[c] \in Options

TypeInv == VoteTypeOK /\ Chosen

LEMMA AddVoteType ==
    ASSUME NEW tally \in Tally, NEW o
    PROVE  AddVote(tally, o) \in Tally
<1>1. CASE o \in Options
  BY <1>1 DEF AddVote, Tally
<1>2. CASE o \notin Options
  BY <1>2 DEF AddVote, Tally
<1> QED BY <1>1, <1>2

LEMMA IncrementsType ==
    ASSUME NEW tally \in Tally, NEW o, NEW t \in Increments(tally, o)
    PROVE  t \in Tally
BY AddVoteType DEF Increments

LEMMA SeenType ==
    ASSUME VoteTypeOK, NEW p \in Procs
    PROVE  Seen(p) \in Tally
BY DEF Seen, VoteTypeOK, PollTypeOK, Poll

\* The end of a request keeps the types of the requests' variables.
LEMMA FinishType ==
    ASSUME VoteTypeOK, NEW p \in Procs, NEW outcome \in Ended, Finish(p, outcome)
    PROVE  /\ pc' \in [Procs -> {"idle"} \cup Active \cup Ended]
           /\ view' \in [Procs -> Tally]
           /\ todo' \in [Procs -> SUBSET Options]
           /\ cancelled' \subseteq Procs
           /\ viaRedis' \subseteq Casts
           /\ pc' = [pc EXCEPT ![p] = outcome]
BY NoVotesType DEF Finish, Goto, VoteTypeOK

LEMMA TypeStep ==
    ASSUME TypeInv, VoteNext
    PROVE  TypeInv'
<1> USE DEF TypeInv, VoteTypeOK, Chosen, Procs
<1>1. CASE PollStep /\ UNCHANGED <<reqVars, linkVars, redisVars, memVars, shown, counted>>
  BY <1>1, PollStepType DEF reqVars, linkVars, redisVars, memVars
<1>2. ASSUME NEW c \in Casts, NEW v \in Voters, NEW o \in Options \cup {None},
             BeginCast(c, v, o)
      PROVE  TypeInv'
  <2>1. PollTypeOK'
    BY <1>2 DEF BeginCast, PollTypeOK, pollVars
  <2>2. poll.votes \in Tally
    BY DEF PollTypeOK, Poll
  <2> QED BY <1>2, <2>1, <2>2
      DEF BeginCast, Goto, linkVars, redisVars, memVars, Active, Ended
<1>3. ASSUME NEW c \in Casts, PingForCast(c)
      PROVE  TypeInv'
  <2>1. PollTypeOK'
    BY <1>3 DEF PingForCast, PollTypeOK, pollVars
  <2> QED BY <1>3, <2>1 DEF PingForCast, Goto, linkVars, redisVars, memVars, Active
<1>4. ASSUME NEW c \in Casts, SAdd(c)
      PROVE  TypeInv'
  <2>1. PollTypeOK'
    BY <1>4 DEF SAdd, PollTypeOK, pollVars
  <2>2. CASE Finish(c, "refused")
    <3>1. pc' = [pc EXCEPT ![c] = "refused"]
      BY <2>2 DEF Finish, Goto
    <3>2. rVoters' \subseteq Voters
      BY <1>4 DEF SAdd
    <3>3. VoteTypeOK'
      BY <1>4, <2>1, <2>2, <3>2, FinishType DEF SAdd, linkVars, memVars, Ended
    <3> QED BY <1>4, <3>1, <3>3 DEF SAdd
  <2>3. CASE Goto(c, "hincrby") /\ UNCHANGED <<view, todo, cancelled, viaRedis>>
    BY <1>4, <2>1, <2>3 DEF SAdd, Goto, linkVars, memVars, Active
  <2> QED BY <1>4, <2>2, <2>3 DEF SAdd
<1>5. ASSUME NEW c \in Casts, HIncrBy(c)
      PROVE  TypeInv'
  <2>1. PollTypeOK'
    BY <1>5 DEF HIncrBy, PollTypeOK, pollVars
  <2>2. rVotes' \in Tally
    BY <1>5, IncrementsType DEF HIncrBy
  <2> QED BY <1>5, <2>1, <2>2 DEF HIncrBy, Goto, linkVars, memVars, Active
<1>6. ASSUME NEW c \in Casts, IncrTotal(c)
      PROVE  TypeInv'
  <2>1. PollTypeOK'
    BY <1>6 DEF IncrTotal, PollTypeOK, pollVars
  <2>2. rTotal' \in Tally
    BY <1>6, IncrementsType DEF IncrTotal
  <2> QED BY <1>6, <2>1, <2>2 DEF IncrTotal, Goto, linkVars, memVars, Active
<1>7. ASSUME NEW c \in Casts, MemVote(c)
      PROVE  TypeInv'
  <2>1. PollTypeOK'
    BY <1>7 DEF MemVote, PollTypeOK, pollVars
  <2>2. CASE voter[c] \in mVoters
    <3>0. Finish(c, "refused") /\ UNCHANGED <<memVars, counted>>
      BY <1>7, <2>2 DEF MemVote
    <3>1. pc' = [pc EXCEPT ![c] = "refused"]
      BY <3>0 DEF Finish, Goto
    <3>2. VoteTypeOK'
      BY <1>7, <2>1, <3>0, FinishType DEF MemVote, linkVars, redisVars, memVars, Ended
    <3> QED BY <1>7, <3>1, <3>2 DEF MemVote
  <2>3. CASE voter[c] \notin mVoters
    <3> DEFINE before == IF mVotes = None THEN Seen(c) ELSE mVotes
    <3>1. mVotes' = AddVote(before, choice[c])
      BY <1>7, <2>3 DEF MemVote
    <3>2. before \in Tally
      BY SeenType
    <3>3. mVotes' \in Tally
      BY <3>1, <3>2, AddVoteType
    <3>4. /\ mVoters' = mVoters \cup {voter[c]} /\ counted' = counted \cup {c}
          /\ pc[c] = "memvote" /\ pc' = [pc EXCEPT ![c] = "getpoll"]
          /\ UNCHANGED <<view, todo, cancelled, viaRedis, voter, choice, linkVars,
                         redisVars, shown>>
      BY <1>7, <2>3 DEF MemVote, Goto
    <3> HIDE DEF before
    <3>5. voter[c] \in Voters
      BY <3>4
    <3>6. pc' \in [Procs -> {"idle"} \cup Active \cup Ended]
      BY <3>4 DEF Active
    <3>7. VoteTypeOK'
      BY <2>1, <3>3, <3>4, <3>5, <3>6 DEF linkVars, redisVars
    <3>8. Chosen'
      BY <3>4
    <3> QED BY <3>7, <3>8
  <2> QED BY <2>2, <2>3
<1>8. ASSUME NEW p \in Procs, GetPollForResults(p)
      PROVE  TypeInv'
  <2>1. PollTypeOK'
    BY <1>8 DEF GetPollForResults, PollTypeOK, pollVars
  <2>2. CASE Finish(p, "failed")
    <3>1. pc' = [pc EXCEPT ![p] = "failed"]
      BY <2>2 DEF Finish, Goto
    <3>2. VoteTypeOK'
      BY <1>8, <2>1, <2>2, FinishType
      DEF GetPollForResults, linkVars, redisVars, memVars, Ended
    <3> QED BY <1>8, <3>1, <3>2 DEF GetPollForResults
  <2>3. CASE ~Finish(p, "failed")
    <3>1. poll.votes \in Tally
      BY DEF PollTypeOK, Poll
    <3> QED BY <1>8, <2>1, <2>3, <3>1
        DEF GetPollForResults, Goto, linkVars, redisVars, memVars, Active
  <2> QED BY <2>2, <2>3
<1>9. ASSUME NEW p \in Procs, PingForResults(p)
      PROVE  TypeInv'
  <2>1. PollTypeOK'
    BY <1>9 DEF PingForResults, PollTypeOK, pollVars
  <2> QED BY <1>9, <2>1 DEF PingForResults, Goto, linkVars, redisVars, memVars, Active
<1>10. ASSUME NEW p \in Procs, HGetAll(p)
       PROVE  TypeInv'
  <2>1. PollTypeOK'
    BY <1>10 DEF HGetAll, PollTypeOK, pollVars
  <2> QED BY <1>10, <2>1 DEF HGetAll, Goto, linkVars, redisVars, memVars, Active
<1>11. ASSUME NEW p \in Procs, NEW o \in Options, SeedOption(p, o)
       PROVE  TypeInv'
  <2>1. PollTypeOK'
    BY <1>11 DEF SeedOption, PollTypeOK, pollVars
  <2>2. Seen(p)[o] \in Nat
    BY SeenType DEF Tally
  <2>3. rVotes' \in Tally /\ view' \in [Procs -> Tally]
    BY <1>11, <2>2 DEF SeedOption, Tally
  <2> QED BY <1>11, <2>1, <2>3 DEF SeedOption, linkVars, memVars
<1>12. ASSUME NEW p \in Procs, SeedTotal(p)
       PROVE  TypeInv'
  <2>1. PollTypeOK'
    BY <1>12 DEF SeedTotal, PollTypeOK, pollVars
  <2> QED BY <1>12, <2>1 DEF SeedTotal, Goto, linkVars, memVars, Active
<1>13. ASSUME NEW p \in Procs, MemRead(p)
       PROVE  TypeInv'
  <2>1. PollTypeOK'
    BY <1>13 DEF MemRead, PollTypeOK, pollVars
  <2>2. view' \in [Procs -> Tally]
    BY <1>13, SeenType DEF MemRead
  <2> QED BY <1>13, <2>1, <2>2 DEF MemRead, Goto, linkVars, redisVars, memVars, Active
<1>14. ASSUME NEW c \in Procs, Accept(c)
       PROVE  TypeInv'
  <2>1. PollTypeOK'
    BY <1>14, SpawnType DEF Accept
  <2>2. pc' = [pc EXCEPT ![c] = "accepted"]
    BY <1>14 DEF Accept, Finish, Goto
  <2>3. VoteTypeOK'
    BY <1>14, <2>1, FinishType DEF Accept, linkVars, redisVars, memVars, Ended
  <2> QED BY <1>14, <2>2, <2>3 DEF Accept
<1>15. ASSUME NEW p \in Procs, Answer(p)
       PROVE  TypeInv'
  <2>1. PollTypeOK'
    BY <1>15 DEF Answer, PollTypeOK, pollVars
  <2>2. pc' = [pc EXCEPT ![p] = "answered"]
    BY <1>15 DEF Answer, Finish, Goto
  <2>3. VoteTypeOK'
    BY <1>15, <2>1, FinishType DEF Answer, linkVars, redisVars, memVars, Ended
  <2> QED BY <1>15, <2>2, <2>3 DEF Answer
<1>16. ASSUME NEW p \in Procs, Cancel(p)
       PROVE  TypeInv'
  <2>1. PollTypeOK'
    BY <1>16 DEF Cancel, PollTypeOK, pollVars
  <2> QED BY <1>16, <2>1 DEF Cancel, linkVars, redisVars, memVars
<1>17. CASE RedisFlaps
  <2>1. PollTypeOK'
    BY <1>17 DEF RedisFlaps, PollTypeOK, pollVars
  <2> QED BY <1>17, <2>1 DEF RedisFlaps, reqVars, redisVars, memVars
<1>18. CASE RedisLoss
  <2>1. PollTypeOK'
    BY <1>18 DEF RedisLoss, PollTypeOK, pollVars
  <2> QED BY <1>18, <2>1, NoVotesType DEF RedisLoss, reqVars, linkVars, memVars
<1>19. CASE Crash
  <2>1. PollTypeOK'
    BY <1>19, PollCrashType DEF Crash
  <2> QED BY <1>19, <2>1, NoVotesType, VoteAssumption DEF Crash, redisVars, Active, Ended
<1> QED BY <1>1, <1>2, <1>3, <1>4, <1>5, <1>6, <1>7, <1>8, <1>9, <1>10, <1>11, <1>12,
           <1>13, <1>14, <1>15, <1>16, <1>17, <1>18, <1>19
    DEF VoteNext, RequestStep, RecordVote, FetchResults

LEMMA TypeInit == VoteInit => TypeInv
<1> SUFFICES ASSUME VoteInit PROVE TypeInv
  OBVIOUS
<1>1. PollTypeOK
  BY PollInitType DEF VoteInit
<1> QED BY <1>1, NoVotesType, VoteAssumption
    DEF VoteInit, TypeInv, VoteTypeOK, Chosen, Procs

LEMMA TypeInvariant == VoteSpec => []TypeInv
<1>1. TypeInv /\ UNCHANGED vars => TypeInv'
  BY DEF TypeInv, VoteTypeOK, Chosen, PollTypeOK, vars, pollVars, reqVars, linkVars,
         redisVars, memVars
<1> QED BY <1>1, TypeInit, TypeStep, PTL DEF VoteSpec

\* Every variable of the vote service keeps its type, whatever fails.
THEOREM VoteTypeCorrect == VoteSpec => []VoteTypeOK
BY TypeInvariant, PTL DEF TypeInv

-----------------------------------------------------------------------------
(***************************************************************************)
(* No invented votes.  Counts is compared with every tally of the system;  *)
(* a step either moves a tally, or adds a vote to one store and to Counts. *)
(* That the cast of an increment was not counted before is what makes      *)
(* Counts grow with it.                                                    *)
(***************************************************************************)

\* A cast that has yet to be recorded has not been counted.
Fresh ==
    \A c \in Casts : pc[c] \in {"idle", "ping", "sadd", "hincrby", "memvote"} =>
        c \notin counted

CountInv == TypeInv /\ Fresh /\ NoInventedVotes

LEMMA CountsType ==
    ASSUME counted \subseteq Casts
    PROVE  Counts \in Tally
<1> SUFFICES ASSUME NEW o \in Options
             PROVE  Cardinality({c \in counted : choice[c] = o}) \in Nat
  BY DEF Counts, Tally
<1> QED BY PollAssumption, FS_Subset, FS_CardinalityType

LEMMA CountsSame ==
    ASSUME counted' = counted, \A c \in counted : choice'[c] = choice[c]
    PROVE  Counts' = Counts
<1>1. \A o \in Options : {c \in counted' : choice'[c] = o} = {c \in counted : choice[c] = o}
  OBVIOUS
<1> QED BY <1>1 DEF Counts

LEMMA CountsAdd ==
    ASSUME counted \subseteq Casts, NEW c \in Casts \ counted, choice[c] \in Options,
           counted' = counted \cup {c}, choice' = choice
    PROVE  Counts' = AddVote(Counts, choice[c])
<1> DEFINE S(o) == {d \in counted : choice[d] = o}
           T(o) == {d \in counted' : choice'[d] = o}
<1>1. \A o \in Options : IsFiniteSet(S(o)) /\ c \notin S(o)
  BY PollAssumption, FS_Subset
<1>2. T(choice[c]) = S(choice[c]) \cup {c}
  OBVIOUS
<1>3. Cardinality(T(choice[c])) = Cardinality(S(choice[c])) + 1
  BY <1>1, <1>2, FS_AddElement
<1>4. \A o \in Options : o # choice[c] => T(o) = S(o)
  OBVIOUS
<1> HIDE DEF S, T
<1>5. Counts = [o \in Options |-> Cardinality(S(o))]
  BY DEF Counts, S
<1>6. Counts' = [o \in Options |-> Cardinality(T(o))]
  BY DEF Counts, T
<1> QED BY <1>3, <1>4, <1>5, <1>6 DEF AddVote

LEMMA NoVotesAtMost == ASSUME Counts \in Tally PROVE AtMost(NoVotes, Counts)
BY DEF NoVotes, Tally, AtMost

\* What was at most Counts stays so when a vote is added to Counts.
LEMMA AtMostGrows ==
    ASSUME NEW t \in Tally, Counts \in Tally, AtMost(t, Counts), NEW o \in Options
    PROVE  AtMost(t, AddVote(Counts, o)) /\ AtMost(AddVote(t, o), AddVote(Counts, o))
BY DEF AtMost, AddVote, Tally

\* A cast that has been counted keeps its voter and its choice.
LEMMA VoterKept ==
    ASSUME TypeInv, Fresh, VoteNext, NEW c \in counted
    PROVE  choice'[c] = choice[c] /\ voter'[c] = voter[c]
<1>1. /\ c \in Casts /\ pc[c] # "idle"
      /\ voter \in [Casts -> Voters \cup {None}]
      /\ choice \in [Casts -> Options \cup {None}]
  BY DEF TypeInv, VoteTypeOK, Fresh
<1>2. ASSUME NEW d \in Casts, NEW v \in Voters, NEW o \in Options \cup {None},
             BeginCast(d, v, o)
      PROVE  choice'[c] = choice[c] /\ voter'[c] = voter[c]
  BY <1>1, <1>2 DEF BeginCast
<1> QED BY <1>2
    DEF VoteNext, reqVars, RequestStep, RecordVote, PingForCast, SAdd, HIncrBy, IncrTotal,
        MemVote, FetchResults, GetPollForResults, PingForResults, HGetAll, SeedOption,
        SeedTotal, MemRead, Accept, Answer, Cancel, RedisFlaps, RedisLoss, Crash

LEMMA CountsMove ==
    ASSUME TypeInv, Fresh, VoteNext, UNCHANGED counted
    PROVE  Counts' = Counts
BY VoterKept, CountsSame

\* Only two steps count a cast.
LEMMA CountingSteps ==
    ASSUME VoteNext, counted' # counted
    PROVE  \E c \in Casts : HIncrBy(c) \/ MemVote(c)
BY DEF VoteNext, BeginCast, RequestStep, RecordVote, PingForCast, SAdd, IncrTotal,
       FetchResults, GetPollForResults, PingForResults, HGetAll, SeedOption, SeedTotal,
       MemRead, Accept, Answer, Cancel, RedisFlaps, RedisLoss, Crash

\* A step that counts nothing: what it moves was bounded before.
LEMMA MoveStep ==
    ASSUME CountInv, VoteNext, UNCHANGED counted
    PROVE  Fresh' /\ NoInventedVotes'
<1> USE DEF Fresh, Procs
<1>1. /\ TypeInv /\ Fresh /\ Counts \in Tally /\ counted' = counted
      /\ AtMost(NoVotes, Counts)
      /\ AtMost(poll.votes, Counts) /\ AtMost(rVotes, Counts) /\ AtMost(shown, Counts)
      /\ mVotes # None => AtMost(mVotes, Counts)
      /\ \A c \in Casts : AtMost(sync[c].tally, Counts)
      /\ \A p \in Procs : AtMost(view[p], Counts)
  BY CountsType, NoVotesAtMost DEF CountInv, TypeInv, VoteTypeOK, NoInventedVotes
<1>2. /\ pc \in [Procs -> {"idle"} \cup Active \cup Ended]
      /\ view \in [Procs -> Tally] /\ rVotes \in Tally /\ PollTypeOK
      /\ choice \in [Casts -> Options \cup {None}] /\ counted \subseteq Casts
  BY <1>1 DEF TypeInv, VoteTypeOK
\* The bound on what a request may read, and the same after its step.
<1>3. \A p \in Procs : AtMost(Seen(p), Counts)
  BY <1>1 DEF Seen
<1>4. Counts' = Counts
  BY <1>1, CountsMove
<1>5. ASSUME NEW p \in Procs, NEW outcome \in Ended, Finish(p, outcome)
      PROVE  /\ pc' = [pc EXCEPT ![p] = outcome]
             /\ \A q \in Procs : AtMost(view'[q], Counts)
  BY <1>1, <1>2, <1>5 DEF Finish, Goto
<1>6. CASE PollStep /\ UNCHANGED <<reqVars, linkVars, redisVars, memVars, shown, counted>>
  <2>1. AtMost(poll'.votes, Counts) /\ \A c \in Casts : AtMost(sync'[c].tally, Counts)
    BY <1>1, <1>2, <1>6, VotesMove
  <2> QED BY <1>1, <1>4, <1>6, <2>1 DEF NoInventedVotes, reqVars, redisVars, memVars
<1>7. ASSUME NEW c \in Casts, NEW v \in Voters, NEW o \in Options \cup {None},
             BeginCast(c, v, o)
      PROVE  Fresh' /\ NoInventedVotes'
  <2>1. c \notin counted /\ pc[c] = "idle"
    BY <1>1, <1>7 DEF BeginCast
  <2>4. \A p \in Procs : AtMost(view'[p], Counts)
    BY <1>1, <1>2, <1>7 DEF BeginCast
  <2>5. NoInventedVotes'
    BY <1>1, <1>4, <1>7, <2>4 DEF NoInventedVotes, BeginCast, pollVars, redisVars, memVars
  <2> QED BY <1>1, <1>2, <1>7, <2>1, <2>5 DEF BeginCast, Goto
<1>8. ASSUME NEW c \in Casts, PingForCast(c) \/ HIncrBy(c) \/ IncrTotal(c), rVotes' = rVotes
      PROVE  Fresh' /\ NoInventedVotes'
  <2>1. /\ UNCHANGED <<pollVars, choice, view, memVars, shown>>
        /\ c \notin counted \/ pc' = [pc EXCEPT ![c] = "getpoll"]
        /\ \E next \in Active : pc' = [pc EXCEPT ![c] = next]
    BY <1>1, <1>8 DEF PingForCast, HIncrBy, IncrTotal, Goto, Active
  <2>3. NoInventedVotes'
    BY <1>1, <1>4, <1>8, <2>1 DEF NoInventedVotes, pollVars, memVars
  <2> QED BY <1>1, <1>2, <2>1, <2>3
<1>9. ASSUME NEW c \in Casts, HIncrBy(c)
      PROVE  rVotes' = rVotes
  BY <1>1, <1>9 DEF HIncrBy
<1>10. ASSUME NEW c \in Casts, SAdd(c) \/ MemVote(c)
       PROVE  Fresh' /\ NoInventedVotes'
  <2>1. /\ UNCHANGED <<poll, sync, choice, rVotes, shown>>
        /\ c \notin counted /\ UNCHANGED mVotes
    BY <1>1, <1>10 DEF SAdd, MemVote, pollVars, redisVars, memVars
  <2>2. \/ Finish(c, "refused")
        \/ Goto(c, "hincrby") /\ UNCHANGED view
    BY <1>1, <1>10, <2>1 DEF SAdd, MemVote
  <2>3. /\ \A p \in Procs : AtMost(view'[p], Counts)
        /\ \E next : pc' = [pc EXCEPT ![c] = next]
    BY <1>1, <1>5, <2>2 DEF Goto, Ended
  <2>5. NoInventedVotes'
    BY <1>1, <1>4, <2>1, <2>3 DEF NoInventedVotes
  <2> QED BY <1>1, <1>2, <2>1, <2>3, <2>5
<1>11. ASSUME NEW p \in Procs, FetchResults(p)
       PROVE  Fresh' /\ NoInventedVotes'
  <2>1. UNCHANGED <<poll, sync, choice, mVotes, shown>>
    BY <1>11 DEF FetchResults, GetPollForResults, PingForResults, HGetAll, SeedOption,
                 SeedTotal, MemRead, pollVars, memVars
  <2>3. AtMost(rVotes', Counts) /\ \A q \in Procs : AtMost(view'[q], Counts)
    <3>1. CASE GetPollForResults(p)
      <4>1. CASE Finish(p, "failed")
        BY <1>1, <1>5, <3>1, <4>1 DEF GetPollForResults, redisVars, Ended
      <4> QED BY <1>1, <1>2, <3>1, <4>1 DEF GetPollForResults, redisVars
    <3>2. CASE PingForResults(p) \/ SeedTotal(p)
      BY <1>1, <3>2 DEF PingForResults, SeedTotal, redisVars
    <3>3. CASE HGetAll(p)
      BY <1>1, <1>2, <3>3 DEF HGetAll, redisVars
    <3>4. ASSUME NEW o \in Options, SeedOption(p, o)
          PROVE  AtMost(rVotes', Counts) /\ \A q \in Procs : AtMost(view'[q], Counts)
      <4>1. Seen(p)[o] <= Counts[o]
        BY <1>3 DEF AtMost
      <4>2. AtMost(rVotes', Counts)
        BY <1>1, <1>2, <3>4, <4>1 DEF SeedOption, AtMost, Tally
      <4>3. AtMost(view'[p], Counts)
        BY <1>1, <1>2, <3>4, <4>1 DEF SeedOption, AtMost, Tally
      <4> QED BY <1>1, <1>2, <3>4, <4>2, <4>3 DEF SeedOption
    <3>5. CASE MemRead(p)
      BY <1>1, <1>2, <1>3, <3>5 DEF MemRead, redisVars
    <3> QED BY <1>11, <3>1, <3>2, <3>3, <3>4, <3>5 DEF FetchResults
  <2>4. NoInventedVotes'
    BY <1>1, <1>4, <2>1, <2>3 DEF NoInventedVotes
  <2>5. /\ pc[p] \in {"getpoll", "ping2", "hgetall", "seed", "memread"} \/ p \in Reads
        /\ \E next \in {"ping2", "hgetall", "seed", "memread", "respond", "failed"} :
              pc' = [pc EXCEPT ![p] = next] \/ pc' = pc
    BY <1>11 DEF FetchResults, GetPollForResults, PingForResults, HGetAll, SeedOption,
                 SeedTotal, MemRead, Finish, Goto
  <2> QED BY <1>1, <1>2, <2>4, <2>5
<1>12. ASSUME NEW p \in Procs, Accept(p) \/ Answer(p)
       PROVE  Fresh' /\ NoInventedVotes'
  <2>1. /\ UNCHANGED <<poll, choice, rVotes, mVotes>>
        /\ shown' \in {shown, view[p]}
        /\ \E outcome \in Ended : Finish(p, outcome)
    BY <1>12 DEF Accept, Answer, pollVars, redisVars, memVars, Ended
  <2>2. \A c \in Casts : AtMost(sync'[c].tally, Counts)
    BY <1>1, <1>2, <1>12 DEF Accept, Answer, Spawn, pollVars, PollTypeOK, Sync
  <2>4. /\ \A q \in Procs : AtMost(view'[q], Counts)
        /\ \E outcome \in Ended : pc' = [pc EXCEPT ![p] = outcome]
    BY <1>5, <2>1
  <2>5. NoInventedVotes'
    BY <1>1, <1>4, <2>1, <2>2, <2>4 DEF NoInventedVotes
  <2> QED BY <1>1, <1>2, <2>4, <2>5 DEF Ended
<1>13. ASSUME NEW p \in Procs, Cancel(p)
       PROVE  Fresh' /\ NoInventedVotes'
  BY <1>1, <1>4, <1>13 DEF Cancel, NoInventedVotes, pollVars, redisVars, memVars
<1>14. CASE RedisFlaps
  BY <1>1, <1>4, <1>14 DEF RedisFlaps, NoInventedVotes, pollVars, reqVars, redisVars, memVars
<1>15. CASE RedisLoss
  BY <1>1, <1>4, <1>15 DEF RedisLoss, NoInventedVotes, pollVars, reqVars, memVars
<1>16. CASE Crash
  <2>1. AtMost(poll'.votes, Counts) /\ \A c \in Casts : AtMost(sync'[c].tally, Counts)
    BY <1>1, <1>2, <1>16, VotesMove DEF Crash
  <2>3. NoInventedVotes'
    BY <1>1, <1>4, <1>16, <2>1 DEF Crash, NoInventedVotes, redisVars
  <2> QED BY <1>1, <1>2, <1>16, <2>3 DEF Crash
<1> QED BY <1>1, <1>6, <1>7, <1>8, <1>9, <1>10, <1>11, <1>12, <1>13, <1>14, <1>15, <1>16
    DEF VoteNext, RequestStep, RecordVote, PingForCast, IncrTotal, redisVars

\* A step that counts a cast adds its vote to one store.
LEMMA CountStep ==
    ASSUME CountInv, NEW c \in Casts, HIncrBy(c) \/ MemVote(c), counted' # counted,
           "resend" \notin Faults
    PROVE  Fresh' /\ NoInventedVotes'
<1>1. /\ Counts \in Tally /\ Fresh /\ counted \subseteq Casts
      /\ pc \in [Procs -> {"idle"} \cup Active \cup Ended]
      /\ poll.votes \in Tally /\ rVotes \in Tally /\ shown \in Tally
      /\ mVotes \in Tally \cup {None}
      /\ \A d \in Casts : sync[d].tally \in Tally
      /\ \A p \in Procs : view[p] \in Tally /\ Seen(p) \in Tally
  BY CountsType, SeenType
  DEF CountInv, TypeInv, VoteTypeOK, PollTypeOK, Poll, Sync
<1>2. /\ AtMost(poll.votes, Counts) /\ AtMost(rVotes, Counts) /\ AtMost(shown, Counts)
      /\ mVotes # None => AtMost(mVotes, Counts)
      /\ \A d \in Casts : AtMost(sync[d].tally, Counts)
      /\ \A p \in Procs : AtMost(view[p], Counts) /\ AtMost(Seen(p), Counts)
  BY DEF CountInv, NoInventedVotes, Seen
<1>3. /\ counted' = counted \cup {c} /\ UNCHANGED <<choice, view, shown, pollVars>>
      /\ pc' = [pc EXCEPT ![c] = "incr"] \/ pc' = [pc EXCEPT ![c] = "getpoll"]
      /\ pc[c] \in {"hincrby", "memvote"}
  BY DEF HIncrBy, MemVote, Goto
<1>4. c \notin counted /\ choice[c] \in Options
  BY <1>1, <1>3 DEF CountInv, TypeInv, Chosen, Fresh
<1>5. Counts' = AddVote(Counts, choice[c])
  BY <1>1, <1>3, <1>4, CountsAdd
<1>6. AtMost(rVotes', Counts')
  <2>1. rVotes' = rVotes \/ rVotes' = AddVote(rVotes, choice[c])
    BY DEF HIncrBy, MemVote, Increments, redisVars
  <2> QED BY <1>1, <1>2, <1>4, <1>5, <2>1, AtMostGrows
<1>7. mVotes' # None => AtMost(mVotes', Counts')
  <2> DEFINE before == IF mVotes = None THEN Seen(c) ELSE mVotes
  <2>1. mVotes' = mVotes \/ mVotes' = AddVote(before, choice[c])
    BY DEF HIncrBy, MemVote, memVars
  <2>2. before \in Tally /\ AtMost(before, Counts)
    BY <1>1, <1>2 DEF Procs
  <2>3. AtMost(AddVote(before, choice[c]), Counts')
    BY <1>1, <1>4, <1>5, <2>2, AtMostGrows
  <2>4. ASSUME mVotes # None PROVE AtMost(mVotes, Counts')
    BY <1>1, <1>2, <1>4, <1>5, <2>4, AtMostGrows
  <2> QED BY <2>1, <2>3, <2>4
<1>8. /\ AtMost(poll.votes, Counts') /\ AtMost(shown, Counts')
      /\ \A d \in Casts : AtMost(sync[d].tally, Counts')
      /\ \A p \in Procs : AtMost(view[p], Counts')
  BY <1>1, <1>2, <1>4, <1>5, AtMostGrows
<1>9. NoInventedVotes'
  BY <1>3, <1>6, <1>7, <1>8 DEF NoInventedVotes, pollVars
<1> QED BY <1>1, <1>3, <1>9 DEF Fresh, Procs

LEMMA CountInit == VoteInit => CountInv
<1> SUFFICES ASSUME VoteInit PROVE CountInv
  OBVIOUS
<1>1. TypeInv /\ Counts \in Tally
  BY TypeInit, CountsType DEF VoteInit
<1>2. AtMost(NoVotes, Counts)
  BY <1>1, NoVotesAtMost
<1> QED BY <1>1, <1>2 DEF VoteInit, PollInit, IdleSync, CountInv, Fresh, NoInventedVotes

LEMMA CountInvStep ==
    ASSUME "resend" \notin Faults, CountInv, [VoteNext]_vars
    PROVE  CountInv'
<1>1. CASE UNCHANGED vars
  <2>1. Counts' = Counts
    BY <1>1, CountsSame DEF vars, reqVars
  <2> QED BY <1>1, <2>1
      DEF CountInv, TypeInv, VoteTypeOK, Chosen, PollTypeOK, Fresh, NoInventedVotes,
          vars, pollVars, reqVars, linkVars, redisVars, memVars
<1>2. CASE VoteNext /\ counted' = counted
  BY <1>2, MoveStep, TypeStep DEF CountInv
<1>3. CASE VoteNext /\ counted' # counted
  BY <1>3, CountingSteps, CountStep, TypeStep DEF CountInv
<1> QED BY <1>1, <1>2, <1>3

\* Whatever fails and in whatever order, no store and no answer shows more votes than
\* were cast, as long as the Redis client does not send a command twice.
THEOREM NoVotesInvented ==
    ASSUME "resend" \notin Faults
    PROVE  VoteSpec => []NoInventedVotes
<1>1. CountInv => NoInventedVotes
  BY DEF CountInv
<1> QED BY <1>1, CountInit, CountInvStep, PTL DEF VoteSpec

-----------------------------------------------------------------------------
(***************************************************************************)
(* With Redis and MongoDB reachable: crashes of the process and errors of  *)
(* MongoDB are the only faults.  SADD and HINCRBY are two commands; what   *)
(* makes the pair atomic is an invariant: between them the voter is in the *)
(* set, and no other cast can have put it there.                           *)
(***************************************************************************)

Reliable == UseMongo /\ HasRedis /\ Faults \subseteq {"crash", "mongo"}

RedisUp == rUp /\ rClient /\ cancelled = {}

\* The casts whose SADD has added their voter and that are, or will be, counted.
Marked == counted \cup {c \in Casts : pc[c] = "hincrby"}

Marking ==
    /\ \A c \in Marked : voter[c] \in rVoters
    /\ \A c, d \in Marked : voter[c] = voter[d] => c = d
    /\ \A c \in Casts : pc[c] \in {"incr", "getpoll", "ping2", "hgetall", "seed",
                                   "respond", "accepted"} => c \in counted

\* The fallback is never used, the hash is exact, and what is about to be seeded is
\* nothing.
Counting ==
    /\ \A p \in Procs : pc[p] \notin {"memvote", "memread"}
    /\ mVotes = None
    /\ rVotes = Counts
    /\ \A p \in Procs : pc[p] = "seed" => Zero(view[p])

RInv == CountInv /\ RedisUp /\ Marking /\ Counting

LEMMA Answers ==
    ASSUME RInv, NEW p PROVE RedisAnswers(p)
BY DEF RInv, RedisUp, RedisAnswers

LEMMA RedisUpStep ==
    ASSUME Reliable, RInv, VoteNext
    PROVE  RedisUp'
<1> USE DEF RInv, RedisUp
<1>1. CASE PollStep /\ UNCHANGED <<reqVars, linkVars, redisVars, memVars, shown, counted>>
  BY <1>1 DEF reqVars, linkVars
<1>2. ASSUME NEW c \in Casts, NEW v \in Voters, NEW o \in Options \cup {None},
             BeginCast(c, v, o)
      PROVE  RedisUp'
  BY <1>2 DEF BeginCast, linkVars
<1>3. ASSUME NEW c \in Casts, RecordVote(c)
      PROVE  RedisUp'
  BY <1>3 DEF RecordVote, PingForCast, SAdd, HIncrBy, IncrTotal, MemVote, Finish, linkVars
<1>4. ASSUME NEW p \in Procs, FetchResults(p) \/ Accept(p) \/ Answer(p)
      PROVE  RedisUp'
  BY <1>4 DEF FetchResults, GetPollForResults, PingForResults, HGetAll, SeedOption,
              SeedTotal, MemRead, Accept, Answer, Finish, linkVars
<1>5. CASE Crash
  BY <1>5 DEF Crash, Reliable
<1> QED BY <1>1, <1>2, <1>3, <1>4, <1>5
    DEF VoteNext, RequestStep, Cancel, RedisFlaps, RedisLoss, Reliable

\* The marks: one voter, one cast.
LEMMA MarkingStep ==
    ASSUME Reliable, RInv, VoteNext
    PROVE  Marking'
<1> USE DEF RInv, Procs
<1>1. /\ Marking /\ Fresh /\ counted \subseteq Casts
      /\ pc \in [Procs -> {"idle"} \cup Active \cup Ended]
      /\ voter \in [Casts -> Voters \cup {None}]
      /\ \A p \in Procs : pc[p] \notin {"memvote", "memread"}
  BY DEF CountInv, TypeInv, VoteTypeOK, Counting
<1>2. CASE PollStep /\ UNCHANGED <<reqVars, linkVars, redisVars, memVars, shown, counted>>
  BY <1>1, <1>2 DEF Marking, Marked, reqVars, redisVars
<1>3. ASSUME NEW c \in Casts, NEW v \in Voters, NEW o \in Options \cup {None},
             BeginCast(c, v, o)
      PROVE  Marking'
  <2>1. /\ c \notin Marked /\ UNCHANGED <<counted, rVoters>>
        /\ \A d \in Casts : d # c => voter'[d] = voter[d] /\ pc'[d] = pc[d]
        /\ pc'[c] \in {"ping", "refused", "failed"}
    BY <1>1, <1>3 DEF BeginCast, Goto, Fresh, Marked, redisVars
  <2>2. Marked' = Marked
    BY <1>1, <2>1 DEF Marked
  <2> QED BY <1>1, <2>1, <2>2 DEF Marking, Marked
<1>4. ASSUME NEW c \in Casts, PingForCast(c) \/ IncrTotal(c)
      PROVE  Marking'
  <2>1. /\ UNCHANGED <<counted, rVoters, voter>>
        /\ \A d \in Casts : d # c => pc'[d] = pc[d]
        /\ \/ pc'[c] = "sadd" /\ pc[c] = "ping"
           \/ pc'[c] = "getpoll" /\ pc[c] = "incr"
    BY <1>1, <1>4, Answers DEF PingForCast, IncrTotal, Goto, redisVars
  <2>2. Marked' = Marked
    BY <1>1, <2>1 DEF Marked
  <2> QED BY <1>1, <2>1, <2>2 DEF Marking, Marked
<1>5. ASSUME NEW c \in Casts, SAdd(c)
      PROVE  Marking'
  <2>1. /\ UNCHANGED <<counted, voter>> /\ rVoters \subseteq rVoters'
        /\ pc[c] = "sadd"
        /\ \A d \in Casts : d # c => pc'[d] = pc[d]
    BY <1>1, <1>5 DEF SAdd, Goto, Finish
  <2>2. CASE pc'[c] = "hincrby"
    <3>1. voter[c] \notin rVoters /\ voter[c] \in rVoters'
      BY <1>1, <1>5, <2>2, Answers DEF SAdd, Goto, Finish
    <3>2. Marked' = Marked \cup {c}
      BY <1>1, <2>1, <2>2 DEF Marked
    <3> QED BY <1>1, <2>1, <2>2, <3>1, <3>2 DEF Marking
  <2>3. CASE pc'[c] = "refused"
    <3>1. Marked' = Marked
      BY <1>1, <2>1, <2>3 DEF Marked
    <3> QED BY <1>1, <2>1, <2>3, <3>1 DEF Marking, Marked
  <2> QED BY <1>1, <1>5, <2>2, <2>3 DEF SAdd, Goto, Finish
<1>6. ASSUME NEW c \in Casts, HIncrBy(c)
      PROVE  Marking'
  <2>1. /\ counted' = counted \cup {c} /\ UNCHANGED <<voter, rVoters>>
        /\ pc[c] = "hincrby" /\ pc'[c] = "incr"
        /\ \A d \in Casts : d # c => pc'[d] = pc[d]
    BY <1>1, <1>6, Answers DEF HIncrBy, Goto
  <2>2. Marked' = Marked
    BY <1>1, <2>1 DEF Marked
  <2> QED BY <1>1, <2>1, <2>2 DEF Marking
<1>7. ASSUME NEW p \in Procs, FetchResults(p) \/ Accept(p) \/ Answer(p)
      PROVE  Marking'
  <2>1. /\ UNCHANGED <<counted, voter, rVoters>>
        /\ \E next \in {"ping2", "hgetall", "memread", "seed", "respond", "accepted",
                        "answered", "failed"} :
              pc' = pc \/ pc' = [pc EXCEPT ![p] = next]
        /\ p \in Reads \/ pc[p] \in {"getpoll", "ping2", "hgetall", "memread", "seed",
                                     "respond"}
    BY <1>7 DEF FetchResults, GetPollForResults, PingForResults, HGetAll, SeedOption,
                SeedTotal, MemRead, Accept, Answer, Finish, Goto, redisVars
  <2>2. Marked' = Marked
    BY <1>1, <2>1, VoteAssumption DEF Marked
  <2> QED BY <1>1, <2>1, <2>2, VoteAssumption DEF Marking
<1>8. CASE Crash
  <2>1. Marked' \subseteq Marked /\ UNCHANGED <<counted, voter, rVoters>>
    BY <1>8 DEF Crash, Marked, redisVars, Active
  <2>2. \A c \in Casts : pc'[c] \in {"lost", pc[c]} /\ pc'[c] \notin Active
    BY <1>1, <1>8 DEF Crash, Active
  <2> QED BY <1>1, <2>1, <2>2 DEF Marking
<1>9. ASSUME NEW c \in Casts PROVE ~MemVote(c)
  BY <1>1 DEF MemVote
<1> QED BY <1>2, <1>3, <1>4, <1>5, <1>6, <1>7, <1>8, <1>9
    DEF VoteNext, RequestStep, RecordVote, Cancel, RedisFlaps, RedisLoss, Reliable

\* The hash counts exactly, the fallback is not used, and nothing is seeded.
LEMMA CountingStep ==
    ASSUME Reliable, RInv, VoteNext
    PROVE  Counting'
<1> USE DEF Procs
<1>1. /\ Counting /\ Marking /\ Fresh /\ counted \subseteq Casts /\ Counts \in Tally
      /\ pc \in [Procs -> {"idle"} \cup Active \cup Ended]
      /\ view \in [Procs -> Tally] /\ UseMongo
      /\ \A p : RedisAnswers(p)
  BY Answers, CountsType DEF RInv, CountInv, TypeInv, VoteTypeOK, Reliable
<1>2. ASSUME UNCHANGED counted PROVE Counts' = Counts
  BY <1>2, CountsMove DEF RInv, CountInv
<1>3. CASE PollStep /\ UNCHANGED <<reqVars, linkVars, redisVars, memVars, shown, counted>>
  BY <1>1, <1>2, <1>3 DEF Counting, Zero, reqVars, redisVars, memVars
<1>4. ASSUME NEW c \in Casts, NEW v \in Voters, NEW o \in Options \cup {None},
             BeginCast(c, v, o)
      PROVE  Counting'
  <2>1. /\ pc[c] = "idle" /\ pc'[c] \in {"ping", "refused", "failed"}
        /\ \A p \in Procs : p # c => pc'[p] = pc[p] /\ view'[p] = view[p]
        /\ UNCHANGED <<rVotes, mVotes, counted>>
    BY <1>1, <1>4 DEF BeginCast, Goto, redisVars, memVars
  <2> QED BY <1>1, <1>2, <2>1 DEF Counting
<1>5. ASSUME NEW c \in Casts, PingForCast(c) \/ SAdd(c) \/ IncrTotal(c)
      PROVE  Counting'
  <2>1. /\ pc'[c] \in {"sadd", "hincrby", "refused", "getpoll"}
        /\ \A p \in Procs : p # c => pc'[p] = pc[p] /\ view'[p] = view[p]
        /\ UNCHANGED <<rVotes, mVotes, counted>>
    BY <1>1, <1>5 DEF PingForCast, SAdd, IncrTotal, Goto, Finish, redisVars, memVars
  <2> QED BY <1>1, <1>2, <2>1 DEF Counting
<1>6. ASSUME NEW c \in Casts, HIncrBy(c)
      PROVE  Counting'
  <2>1. /\ rVotes' = AddVote(rVotes, choice[c]) /\ counted' = counted \cup {c}
        /\ pc' = [pc EXCEPT ![c] = "incr"] /\ pc[c] = "hincrby"
        /\ UNCHANGED <<choice, view, mVotes>>
    BY <1>1, <1>6 DEF HIncrBy, Goto, Increments, Reliable, memVars
  <2>2. c \notin counted /\ choice[c] \in Options
    BY <1>1, <2>1 DEF Fresh, RInv, CountInv, TypeInv, Chosen
  <2>3. rVotes' = Counts'
    BY <1>1, <2>1, <2>2, CountsAdd DEF Counting
  <2> QED BY <1>1, <2>1, <2>3 DEF Counting
<1>7. ASSUME NEW p \in Procs, HGetAll(p)
      PROVE  Counting'
  <2>1. /\ pc'[p] = "respond" \/ (pc'[p] = "seed" /\ Zero(rVotes) /\ view'[p] = view[p])
        /\ \A q \in Procs : q # p => pc'[q] = pc[q] /\ view'[q] = view[q]
        /\ UNCHANGED <<rVotes, mVotes, counted>>
    <3>1. \/ /\ pc' = [pc EXCEPT ![p] = "respond"]
             /\ view' = [view EXCEPT ![p] = rVotes]
          \/ /\ pc' = [pc EXCEPT ![p] = "seed"]
             /\ view' = view /\ Zero(rVotes)
      BY <1>1, <1>7 DEF HGetAll, Goto
    <3> QED BY <1>1, <1>7, <3>1 DEF HGetAll, redisVars, memVars
  <2>2. AtMost(view[p], rVotes) /\ rVotes \in Tally
    BY <1>1 DEF RInv, CountInv, NoInventedVotes, Counting
  <2>3. Zero(rVotes) => Zero(view[p])
    BY <1>1, <2>2 DEF AtMost, Zero, Tally
  <2> QED BY <1>1, <1>2, <2>1, <2>3 DEF Counting, Zero
<1>8. ASSUME NEW p \in Procs, NEW o \in Options, SeedOption(p, o)
      PROVE  Counting'
  <2>1. pc[p] = "seed" /\ Seen(p)[o] = 0 /\ view[p][o] = 0
    BY <1>1, <1>8 DEF SeedOption, Counting, Zero, Seen
  <2>2. /\ UNCHANGED <<rVotes, mVotes, counted, pc>>
        /\ view' = [view EXCEPT ![p] = [view[p] EXCEPT ![o] = 0]]
    BY <1>1, <1>8, <2>1 DEF SeedOption, memVars
  <2>3. \A q \in Procs : Zero(view[q]) => Zero(view'[q])
    BY <1>1, <2>2 DEF Zero, Tally
  <2> QED BY <1>1, <1>2, <2>2, <2>3 DEF Counting
<1>9. ASSUME NEW p \in Procs, GetPollForResults(p) \/ PingForResults(p) \/ SeedTotal(p)
                              \/ Accept(p) \/ Answer(p)
      PROVE  Counting'
  <2>1. /\ pc'[p] \in {"ping2", "failed", "hgetall", "respond", "accepted", "answered"}
        /\ \A q \in Procs : q # p => pc'[q] = pc[q] /\ view'[q] = view[q]
        /\ UNCHANGED <<rVotes, mVotes, counted>>
    BY <1>1, <1>9 DEF GetPollForResults, PingForResults, SeedTotal, Accept, Answer, Goto,
                      Finish, redisVars, memVars
  <2> QED BY <1>1, <1>2, <2>1 DEF Counting
<1>10. CASE Crash
  <2>1. /\ \A p \in Procs : pc'[p] \notin Active
        /\ UNCHANGED <<rVotes, counted>> /\ mVotes' = None
    BY <1>1, <1>10 DEF Crash, redisVars, Active
  <2> QED BY <1>1, <1>2, <2>1 DEF Counting, Active
<1>11. ASSUME NEW p \in Procs PROVE ~MemVote(p) /\ ~MemRead(p)
  BY <1>1 DEF MemVote, MemRead, Counting
<1> QED BY <1>3, <1>4, <1>5, <1>6, <1>7, <1>8, <1>9, <1>10, <1>11
    DEF VoteNext, RequestStep, RecordVote, FetchResults, Cancel, RedisFlaps, RedisLoss,
        Reliable

LEMMA RInvInit == Reliable /\ VoteInit => RInv
<1> SUFFICES ASSUME Reliable, VoteInit PROVE RInv
  OBVIOUS
<1>1. CountInv
  BY CountInit
<1>2. RedisUp
  BY DEF VoteInit, Reliable, RedisUp
<1>5. Marked = {} /\ \A c \in Casts : pc[c] = "idle"
  BY DEF VoteInit, Marked, Procs
<1>6. Marking
  BY <1>5 DEF Marking
<1>3. Counts = NoVotes
  BY FS_EmptySet DEF VoteInit, Counts, NoVotes
<1>4. Counting
  BY <1>3 DEF VoteInit, Counting, Procs
<1> QED BY <1>1, <1>2, <1>4, <1>6 DEF RInv

LEMMA RInvStep ==
    ASSUME Reliable, RInv, [VoteNext]_vars
    PROVE  RInv'
<1>1. CASE VoteNext
  <2>1. CountInv'
    BY <1>1, CountInvStep DEF RInv, Reliable
  <2> QED BY <1>1, <2>1, RedisUpStep, MarkingStep, CountingStep DEF RInv
<1>2. CASE UNCHANGED vars
  <2>1. CountInv'
    BY <1>2, CountInvStep DEF RInv, Reliable
  <2>2. Counts' = Counts
    BY <1>2, CountsSame DEF vars, reqVars
  <2> QED BY <1>2, <2>1, <2>2
      DEF RInv, RedisUp, Marking, Marked, Counting, Zero, vars, reqVars, linkVars, redisVars,
          memVars
<1> QED BY <1>1, <1>2

LEMMA RInvariant ==
    ASSUME Reliable PROVE VoteSpec => []RInv
BY RInvInit, RInvStep, PTL DEF VoteSpec

\* While Redis and MongoDB can be reached, every accepted vote is counted and no voter
\* is counted twice, however the requests interleave and whenever the process crashes.
THEOREM OneVoteEach ==
    ASSUME Reliable PROVE VoteSpec => []OneVotePerVoter
<1>1. RInv => OneVotePerVoter
  BY DEF RInv, Marking, Marked, OneVotePerVoter, CountInv, TypeInv, VoteTypeOK
<1> QED BY <1>1, RInvariant, PTL

\* ... the hash in Redis is exactly what was counted ...
THEOREM CountsAreExact ==
    ASSUME Reliable PROVE VoteSpec => []TallyCountsVotes
<1>1. RInv => TallyCountsVotes
  BY DEF RInv, RedisUp, Counting, TallyCountsVotes, Live
<1> QED BY <1>1, RInvariant, PTL

\* ... and no copy of the counts is ahead of it.
THEOREM CopiesBehind ==
    ASSUME Reliable PROVE VoteSpec => []CopiesNotAhead
<1>1. RInv => CopiesNotAhead
  BY DEF RInv, RedisUp, Counting, CountInv, NoInventedVotes, CopiesNotAhead, Live
<1> QED BY <1>1, RInvariant, PTL

\* A step of the vote service is a vote of Ballot or changes nothing that Ballot has.
LEMMA BallotStep ==
    ASSUME Reliable, RInv, RInv', VoteNext
    PROVE  /\ [Promise!BallotNext]_(Promise!ballotVars)
           /\ AtMost(rVotes, rVotes')
<1>1. /\ TypeInv /\ Fresh /\ Marking /\ rVotes = Counts /\ rVotes' = Counts'
      /\ rVotes \in Tally /\ counted \subseteq Casts
  BY DEF RInv, CountInv, Counting, TypeInv, VoteTypeOK
<1>2. CASE counted' = counted
  <2>1. Counts' = Counts
    BY <1>2, CountsMove DEF RInv, CountInv
  <2>2. \A c \in counted : voter'[c] = voter[c]
    BY <1>2, VoterKept DEF RInv, CountInv
  <2>3. {voter'[c] : c \in counted'} = {voter[c] : c \in counted}
    BY <1>2, <2>2
  <2>4. UNCHANGED Promise!ballotVars
    BY <1>1, <2>1, <2>3 DEF Promise!ballotVars
  <2>5. AtMost(rVotes, rVotes')
    BY <1>1, <2>1 DEF AtMost, Tally
  <2> QED BY <2>4, <2>5
<1>3. CASE counted' # counted
  <2>1. PICK c \in Casts : HIncrBy(c)
    BY <1>3, CountingSteps DEF RInv, Counting, MemVote, Procs
  <2>2. /\ counted' = counted \cup {c} /\ UNCHANGED <<voter, choice>>
        /\ pc[c] = "hincrby" /\ rVotes' = AddVote(rVotes, choice[c])
    BY <1>3, <2>1 DEF HIncrBy, Increments, Reliable
  <2>3. voter[c] \in Voters /\ choice[c] \in Options /\ c \notin counted
    BY <1>1, <2>2 DEF TypeInv, Chosen, Fresh
  <2>4. voter[c] \notin {voter[d] : d \in counted}
    BY <1>1, <2>2, <2>3 DEF Marking, Marked
  <2>5. Promise!Vote(voter[c], choice[c])
    BY <2>2, <2>4 DEF Promise!Vote, AddVote
  <2>6. AtMost(rVotes, rVotes')
    BY <1>1, <2>2 DEF AtMost, AddVote, Tally
  <2>7. Promise!BallotNext
    BY <2>3, <2>5 DEF Promise!BallotNext, Promise!Vote
  <2> QED BY <2>6, <2>7
<1> QED BY <1>2, <1>3

\* ... the counts never go down ...
THEOREM CountsNeverDrop ==
    ASSUME Reliable PROVE VoteSpec => TallyNeverDrops
<1>1. RInv /\ RInv' /\ [VoteNext]_vars => [AtMost(rVotes, rVotes')]_vars
  BY BallotStep
<1> QED BY <1>1, RInvariant, PTL DEF VoteSpec, TallyNeverDrops

\* ... and the vote service implements an atomic ballot.
THEOREM ImplementsBallot ==
    ASSUME Reliable PROVE VoteSpec => BallotSpec
<1>1. VoteInit => Promise!BallotInit
  BY DEF VoteInit, Promise!BallotInit, NoVotes
<1>2. RInv /\ RInv' /\ [VoteNext]_vars => [Promise!BallotNext]_(Promise!ballotVars)
  <2>1. CASE UNCHANGED vars
    BY <2>1 DEF vars, reqVars, redisVars, Promise!ballotVars
  <2> QED BY <2>1, BallotStep
<1> QED BY <1>1, <1>2, RInvariant, PTL DEF VoteSpec, BallotSpec, Promise!BallotSpec

\* A cast that was counted reads the hash and never seeds it.
Read ==
    \A c \in Casts :
        /\ pc[c] # "seed"
        /\ pc[c] \in {"getpoll", "ping2", "hgetall"} => choice[c] \in Options
        /\ pc[c] = "respond" => view[c][choice[c]] >= 1

LEMMA OwnCount ==
    ASSUME counted \subseteq Casts, NEW c \in counted, choice[c] \in Options
    PROVE  Counts[choice[c]] >= 1
<1> DEFINE S == {d \in counted : choice[d] = choice[c]}
<1>1. IsFiniteSet(S) /\ Cardinality(S) \in Nat
  BY PollAssumption, FS_Subset, FS_CardinalityType
<1>2. c \in S
  OBVIOUS
<1>3. Cardinality(S) # 0
  BY <1>1, <1>2, FS_EmptySet
<1>4. Counts[choice[c]] = Cardinality(S)
  BY DEF Counts
<1> HIDE DEF S
<1> QED BY <1>1, <1>3, <1>4

LEMMA ReadStep ==
    ASSUME RInv, Reliable, Read, [VoteNext]_vars
    PROVE  Read'
<1> USE DEF Procs
<1>1. /\ pc \in [Procs -> {"idle"} \cup Active \cup Ended] /\ view \in [Procs -> Tally]
      /\ choice \in [Casts -> Options \cup {None}] /\ counted \subseteq Casts
      /\ rVotes = Counts /\ Marking
  BY DEF RInv, CountInv, TypeInv, VoteTypeOK, Counting
<1>2. CASE UNCHANGED vars
  BY <1>2 DEF vars, reqVars, Read
<1>3. CASE PollStep /\ UNCHANGED <<reqVars, linkVars, redisVars, memVars, shown, counted>>
  BY <1>3 DEF reqVars, Read
<1>4. ASSUME NEW c \in Casts, NEW v \in Voters, NEW o \in Options \cup {None},
             BeginCast(c, v, o)
      PROVE  Read'
  <2>1. /\ pc'[c] \in {"ping", "refused", "failed"}
        /\ \A d \in Casts : d # c => pc'[d] = pc[d] /\ view'[d] = view[d] /\ choice'[d] = choice[d]
    BY <1>1, <1>4 DEF BeginCast, Goto
  <2> QED BY <2>1 DEF Read
<1>5. ASSUME NEW c \in Casts, RecordVote(c) \/ Accept(c)
      PROVE  Read'
  <2>1. /\ pc'[c] \in {"sadd", "memvote", "hincrby", "refused", "incr", "getpoll", "accepted"}
        /\ \A d \in Casts : d # c => pc'[d] = pc[d] /\ view'[d] = view[d]
        /\ choice' = choice
        /\ pc'[c] = "getpoll" => pc[c] \in {"incr", "memvote"}
    BY <1>1, <1>5 DEF RecordVote, PingForCast, SAdd, HIncrBy, IncrTotal, MemVote, Accept, Goto, Finish
  <2>2. pc'[c] = "getpoll" => choice[c] \in Options
    BY <2>1 DEF RInv, CountInv, TypeInv, Chosen
  <2> QED BY <2>1, <2>2 DEF Read
<1>6. ASSUME NEW p \in Procs, GetPollForResults(p) \/ PingForResults(p) \/ Answer(p)
      PROVE  Read'
  <2>1. /\ pc'[p] \in {"ping2", "failed", "hgetall", "memread", "answered"}
        /\ \A d \in Procs : d # p => pc'[d] = pc[d] /\ view'[d] = view[d]
        /\ choice' = choice
        /\ p \in Reads \/ pc[p] \in {"getpoll", "ping2"}
    BY <1>1, <1>6 DEF GetPollForResults, PingForResults, Answer, Goto, Finish
  <2> QED BY <2>1, VoteAssumption DEF Read
<1>7. ASSUME NEW p \in Procs, HGetAll(p)
      PROVE  Read'
  <2>1. /\ pc[p] = "hgetall" /\ choice' = choice
        /\ \/ ~Zero(rVotes) /\ pc'[p] = "respond" /\ view'[p] = rVotes
           \/ Zero(rVotes) /\ pc'[p] = "seed"
        /\ \A d \in Procs : d # p => pc'[d] = pc[d] /\ view'[d] = view[d]
    BY <1>1, <1>7, Answers DEF HGetAll, Goto
  <2>2. ASSUME p \in Casts
        PROVE  rVotes[choice[p]] >= 1 /\ ~Zero(rVotes)
    <3>1. p \in counted
      BY <1>1, <2>1, <2>2 DEF Marking
    <3>2. choice[p] \in Options
      BY <2>1, <2>2 DEF Read
    <3>3. rVotes[choice[p]] >= 1
      BY <1>1, <3>1, <3>2, OwnCount
    <3>4. rVotes[choice[p]] # 0
      BY <3>3
    <3> QED BY <3>2, <3>3, <3>4 DEF Zero
  <2> QED BY <2>1, <2>2 DEF Read
<1>8. ASSUME NEW p \in Procs, (\E o \in Options : SeedOption(p, o)) \/ SeedTotal(p)
      PROVE  Read'
  <2>1. /\ pc[p] = "seed" /\ choice' = choice
        /\ \A d \in Procs : d # p => pc'[d] = pc[d] /\ view'[d] = view[d]
    BY <1>1, <1>8 DEF SeedOption, SeedTotal, Goto
  <2>2. p \notin Casts
    BY <2>1 DEF Read
  <2> QED BY <2>1, <2>2 DEF Read
<1>9. ASSUME NEW p \in Procs
      PROVE  ~MemRead(p)
  BY DEF MemRead, RInv, Counting
<1>10. CASE Crash
  <2>1. \A p \in Procs : pc'[p] \notin Active
    BY <1>1, <1>10 DEF Crash, Active
  <2> QED BY <2>1 DEF Read, Active
<1>11. CASE (\E p \in Procs : Cancel(p)) \/ RedisFlaps \/ RedisLoss
  BY <1>11 DEF Cancel, RedisFlaps, RedisLoss, reqVars, Read
<1>12. ASSUME NEW p \in Procs, Accept(p)
       PROVE  p \in Casts
  BY <1>12 DEF Accept
<1> QED BY <1>2, <1>3, <1>4, <1>5, <1>6, <1>7, <1>8, <1>9, <1>10, <1>11, <1>12
    DEF VoteNext, RequestStep, FetchResults

\* ... and the result that a voter gets, and the viewers with it, has the voter's vote:
\* the HGETALL of GetLiveResults (vote_service.go:155) comes after the HINCRBY of its cast.
THEOREM VotersSeeTheirVote ==
    ASSUME Reliable PROVE VoteSpec => []ReadYourVote
<1>1. VoteInit => Read
  BY DEF VoteInit, Procs, Read
<1>2. RInv /\ Read /\ [VoteNext]_vars => Read'
  BY ReadStep
<1>3. Read => ReadYourVote
  BY DEF ReadYourVote, Read
<1> QED BY <1>1, <1>2, <1>3, RInvariant, PTL DEF VoteSpec

-----------------------------------------------------------------------------
(***************************************************************************)
(* Without Redis: isRedisAvailable (vote_service.go:228) is always false,  *)
(* MemVote checks and marks a voter under one lock, and the counts it      *)
(* leaves are there until the process stops, which ends every request.     *)
(***************************************************************************)

MemOnly ==
    /\ ~rClient
    /\ \A p \in Procs : pc[p] \notin {"sadd", "hincrby", "incr", "hgetall", "seed"}
    /\ \A c \in Casts :
          /\ pc[c] \in {"getpoll", "ping2", "memread"} =>
                mVotes # None /\ choice[c] \in Options /\ mVotes[choice[c]] >= 1
          /\ pc[c] = "respond" => view[c][choice[c]] >= 1

\* The set in memory holds the voters of the casts that were counted.
MemVoters ==
    /\ \A c \in Casts : pc[c] \in {"idle", "ping", "memvote"} => c \notin counted
    /\ \A c \in counted : voter[c] \in mVoters
    /\ \A c, d \in counted : voter[c] = voter[d] => c = d
    /\ \A c \in Casts : pc[c] \in {"getpoll", "ping2", "memread", "respond", "accepted"} =>
                           c \in counted

\* The steps of a request, when Redis is not used.
LEMMA MemSteps ==
    ASSUME TypeInv, MemOnly, NEW p \in Procs, RequestStep(p), ~(p \in Casts /\ MemVote(p))
    PROVE  /\ UNCHANGED <<memVars, linkVars, voter, choice, counted>>
           /\ \A q \in Procs : q # p => pc'[q] = pc[q] /\ view'[q] = view[q]
           /\ \/ p \in Casts /\ pc[p] = "ping" /\ pc'[p] = "memvote"
              \/ (p \in Reads \/ pc[p] = "getpoll") /\ pc'[p] \in {"ping2", "failed"}
              \/ pc[p] = "ping2" /\ pc'[p] = "memread"
              \/ /\ pc[p] = "memread" /\ pc'[p] = "respond"
                 /\ view'[p] = IF mVotes = None THEN Seen(p) ELSE mVotes
              \/ p \in Casts /\ pc[p] = "respond" /\ pc'[p] = "accepted"
              \/ p \in Reads /\ pc'[p] = "answered"
<1> USE DEF Procs
<1>1. /\ pc \in [Procs -> {"idle"} \cup Active \cup Ended] /\ view \in [Procs -> Tally]
      /\ pc[p] \notin {"sadd", "hincrby", "incr", "hgetall", "seed"}
  BY DEF TypeInv, VoteTypeOK, MemOnly
<1>2. ~RedisAnswers(p)
  BY DEF MemOnly, RedisAnswers
<1>3. CASE p \in Casts /\ RecordVote(p)
  <2>1. PingForCast(p)
    BY <1>1, <1>3 DEF RecordVote, SAdd, HIncrBy, IncrTotal
  <2> QED BY <1>1, <1>2, <1>3, <2>1 DEF PingForCast, Goto
<1>4. CASE FetchResults(p)
  <2>1. GetPollForResults(p) \/ PingForResults(p) \/ MemRead(p)
    BY <1>1, <1>4 DEF FetchResults, HGetAll, SeedOption, SeedTotal
  <2>2. CASE GetPollForResults(p)
    BY <1>1, <2>2 DEF GetPollForResults, Goto, Finish
  <2>3. CASE PingForResults(p)
    BY <1>1, <1>2, <2>3 DEF PingForResults, Goto
  <2>4. CASE MemRead(p)
    BY <1>1, <2>4 DEF MemRead, Goto
  <2> QED BY <2>1, <2>2, <2>3, <2>4
<1>5. CASE Accept(p)
  BY <1>1, <1>5 DEF Accept, Goto, Finish
<1>6. CASE Answer(p)
  BY <1>1, <1>6 DEF Answer, Goto, Finish
<1> QED BY <1>3, <1>4, <1>5, <1>6 DEF RequestStep

\* MemVote counts the cast, or refuses a voter who is in the set.
LEMMA MemVoteParts ==
    ASSUME TypeInv, NEW c \in Casts, MemVote(c)
    PROVE  /\ pc[c] = "memvote" /\ UNCHANGED <<voter, choice, linkVars>>
           /\ choice[c] \in Options
           /\ \A q \in Procs : q # c => pc'[q] = pc[q] /\ view'[q] = view[q]
           /\ \/ /\ pc'[c] = "refused" /\ UNCHANGED <<memVars, counted>>
              \/ /\ pc'[c] = "getpoll" /\ voter[c] \notin mVoters
                 /\ mVoters' = mVoters \cup {voter[c]} /\ counted' = counted \cup {c}
                 /\ mVotes' # None /\ mVotes'[choice[c]] >= 1
                 /\ \A o \in Options : mVotes # None => mVotes'[o] >= mVotes[o]
<1> USE DEF Procs
<1>1. /\ pc \in [Procs -> {"idle"} \cup Active \cup Ended] /\ view \in [Procs -> Tally]
      /\ mVotes \in Tally \cup {None}
  BY DEF TypeInv, VoteTypeOK
<1>2. pc[c] = "memvote" /\ choice[c] \in Options
  BY DEF MemVote, TypeInv, Chosen
<1>3. CASE voter[c] \in mVoters
  BY <1>1, <1>2, <1>3 DEF MemVote, Goto, Finish
<1>4. CASE voter[c] \notin mVoters
  <2> DEFINE old == IF mVotes = None THEN Seen(c) ELSE mVotes
  <2>1. old \in Tally
    BY <1>1, SeenType DEF TypeInv
  <2>2. mVotes' = AddVote(old, choice[c])
    BY <1>4 DEF MemVote
  <2> HIDE DEF old
  <2>3. /\ mVotes' \in Tally /\ mVotes'[choice[c]] >= 1
        /\ \A o \in Options : mVotes'[o] >= old[o]
    BY <1>2, <2>1, <2>2, AddVoteType DEF AddVote, Tally
  <2>4. mVotes' # None
    BY <2>3, VoteAssumption
  <2>5. mVotes # None => old = mVotes
    BY DEF old
  <2> QED BY <1>1, <1>2, <1>4, <2>3, <2>4, <2>5 DEF MemVote, Goto
<1> QED BY <1>3, <1>4

LEMMA MemOnlyStep ==
    ASSUME ~HasRedis, TypeInv, MemOnly, [VoteNext]_vars
    PROVE  MemOnly'
<1> USE DEF Procs
<1>1. /\ pc \in [Procs -> {"idle"} \cup Active \cup Ended] /\ mVotes \in Tally \cup {None}
      /\ Casts \cap Reads = {}
  BY VoteAssumption DEF TypeInv, VoteTypeOK
<1>2. CASE UNCHANGED vars
  BY <1>2 DEF vars, reqVars, linkVars, memVars, MemOnly
<1>3. CASE PollStep /\ UNCHANGED <<reqVars, linkVars, redisVars, memVars, shown, counted>>
  BY <1>3 DEF reqVars, linkVars, memVars, MemOnly
<1>4. ASSUME NEW c \in Casts, NEW v \in Voters, NEW o \in Options \cup {None},
             BeginCast(c, v, o)
      PROVE  MemOnly'
  <2>1. /\ pc'[c] \in {"ping", "refused", "failed"} /\ mVotes' = mVotes /\ rClient' = rClient
        /\ \A q \in Procs : q # c => pc'[q] = pc[q] /\ view'[q] = view[q]
        /\ \A d \in Casts : d # c => choice'[d] = choice[d]
    BY <1>1, <1>4 DEF BeginCast, Goto, memVars, linkVars, TypeInv, VoteTypeOK
  <2> QED BY <2>1 DEF MemOnly
<1>5. ASSUME NEW c \in Casts, MemVote(c)
      PROVE  MemOnly'
  <2>1. /\ rClient' = rClient /\ choice' = choice /\ choice[c] \in Options
        /\ \A q \in Procs : q # c => pc'[q] = pc[q] /\ view'[q] = view[q]
        /\ \/ pc'[c] = "refused" /\ mVotes' = mVotes
           \/ /\ pc'[c] = "getpoll" /\ mVotes' # None /\ mVotes'[choice[c]] >= 1
              /\ \A o \in Options : mVotes # None => mVotes'[o] >= mVotes[o]
    BY <1>5, MemVoteParts DEF linkVars, memVars
  <2>2. ASSUME NEW d \in Casts, d # c, pc[d] \in {"getpoll", "ping2", "memread"}
        PROVE  mVotes' # None /\ choice[d] \in Options /\ mVotes'[choice[d]] >= 1
    <3>1. mVotes # None /\ choice[d] \in Options /\ mVotes[choice[d]] >= 1
      BY <2>2 DEF MemOnly
    <3>2. mVotes \in Tally
      BY <1>1, <3>1
    <3>3. mVotes' \in Tally \cup {None}
      BY <1>5, TypeStep DEF VoteNext, RequestStep, RecordVote, TypeInv, VoteTypeOK
    <3>4. mVotes[choice[d]] \in Nat
      BY <3>1, <3>2 DEF Tally
    <3>5. mVotes' = mVotes \/ (mVotes' \in Tally /\ mVotes'[choice[d]] >= mVotes[choice[d]])
      BY <2>1, <3>1, <3>3
    <3>6. mVotes' \in Tally => mVotes'[choice[d]] \in Nat
      BY <3>1 DEF Tally
    <3> QED BY <2>1, <3>1, <3>4, <3>5, <3>6
  <2> QED BY <2>1, <2>2 DEF MemOnly
<1>6. ASSUME NEW p \in Procs, RequestStep(p), ~(p \in Casts /\ MemVote(p))
      PROVE  MemOnly'
  <2>1. /\ rClient' = rClient /\ choice' = choice /\ mVotes' = mVotes
        /\ \A q \in Procs : q # p => pc'[q] = pc[q] /\ view'[q] = view[q]
        /\ \/ p \in Casts /\ pc[p] = "ping" /\ pc'[p] = "memvote"
           \/ (p \in Reads \/ pc[p] = "getpoll") /\ pc'[p] \in {"ping2", "failed"}
           \/ pc[p] = "ping2" /\ pc'[p] = "memread"
           \/ /\ pc[p] = "memread" /\ pc'[p] = "respond"
              /\ view'[p] = IF mVotes = None THEN Seen(p) ELSE mVotes
           \/ p \in Casts /\ pc[p] = "respond" /\ pc'[p] = "accepted"
           \/ p \in Reads /\ pc'[p] = "answered"
    BY <1>6, MemSteps DEF linkVars, memVars
  <2>2. pc[p] = "memread" /\ p \in Casts => mVotes # None /\ mVotes[choice[p]] >= 1
    BY DEF MemOnly
  <2> QED BY <1>1, <2>1, <2>2 DEF MemOnly
<1>7. CASE (\E p \in Procs : Cancel(p)) \/ RedisFlaps \/ RedisLoss
  BY <1>7 DEF Cancel, RedisFlaps, RedisLoss, reqVars, linkVars, memVars, MemOnly
<1>8. CASE Crash
  <2>1. (\A p \in Procs : pc'[p] \notin Active) /\ ~rClient'
    BY <1>1, <1>8 DEF Crash, Active
  <2> QED BY <2>1 DEF MemOnly, Active
<1> QED BY <1>2, <1>3, <1>4, <1>5, <1>6, <1>7, <1>8 DEF VoteNext

LEMMA MemVotersStep ==
    ASSUME "crash" \notin Faults, TypeInv, MemOnly, MemVoters, [VoteNext]_vars
    PROVE  MemVoters'
<1> USE DEF Procs
<1>1. /\ pc \in [Procs -> {"idle"} \cup Active \cup Ended] /\ counted \subseteq Casts
      /\ voter \in [Casts -> Voters \cup {None}] /\ Casts \cap Reads = {}
  BY VoteAssumption DEF TypeInv, VoteTypeOK
<1>2. CASE UNCHANGED vars
  BY <1>2 DEF vars, reqVars, memVars, MemVoters
<1>3. CASE PollStep /\ UNCHANGED <<reqVars, linkVars, redisVars, memVars, shown, counted>>
  BY <1>3 DEF reqVars, memVars, MemVoters
<1>4. ASSUME NEW c \in Casts, NEW v \in Voters, NEW o \in Options \cup {None},
             BeginCast(c, v, o)
      PROVE  MemVoters'
  <2>1. /\ pc[c] = "idle" /\ pc'[c] \in {"ping", "refused", "failed"}
        /\ mVoters' = mVoters /\ counted' = counted
        /\ \A d \in Casts : d # c => pc'[d] = pc[d] /\ voter'[d] = voter[d]
    BY <1>1, <1>4 DEF BeginCast, Goto, memVars
  <2>2. c \notin counted
    BY <2>1 DEF MemVoters
  <2>3. \A d \in counted : d \in Casts /\ d # c /\ voter'[d] = voter[d]
    BY <1>1, <2>1, <2>2
  <2> QED BY <2>1, <2>2, <2>3 DEF MemVoters
<1>5. ASSUME NEW c \in Casts, MemVote(c)
      PROVE  MemVoters'
  <2>1. /\ pc[c] = "memvote" /\ voter' = voter
        /\ \A q \in Casts : q # c => pc'[q] = pc[q]
        /\ \/ pc'[c] = "refused" /\ mVoters' = mVoters /\ counted' = counted
           \/ /\ pc'[c] = "getpoll" /\ voter[c] \notin mVoters
              /\ mVoters' = mVoters \cup {voter[c]} /\ counted' = counted \cup {c}
    BY <1>5, MemVoteParts DEF memVars
  <2> QED BY <1>1, <2>1 DEF MemVoters
<1>6. ASSUME NEW p \in Procs, RequestStep(p), ~(p \in Casts /\ MemVote(p))
      PROVE  MemVoters'
  <2>1. /\ mVoters' = mVoters /\ voter' = voter /\ counted' = counted
        /\ \A q \in Procs : q # p => pc'[q] = pc[q]
        /\ \/ p \in Casts /\ pc[p] = "ping" /\ pc'[p] = "memvote"
           \/ (p \in Reads \/ pc[p] = "getpoll") /\ pc'[p] \in {"ping2", "failed"}
           \/ pc[p] = "ping2" /\ pc'[p] = "memread"
           \/ pc[p] = "memread" /\ pc'[p] = "respond"
           \/ p \in Casts /\ pc[p] = "respond" /\ pc'[p] = "accepted"
           \/ p \in Reads /\ pc'[p] = "answered"
    BY <1>6, MemSteps DEF memVars
  <2> QED BY <1>1, <2>1 DEF MemVoters
<1>7. CASE (\E p \in Procs : Cancel(p)) \/ RedisFlaps \/ RedisLoss
  BY <1>7 DEF Cancel, RedisFlaps, RedisLoss, reqVars, memVars, MemVoters
<1>8. ~Crash
  BY DEF Crash, PollCrash
<1> QED BY <1>2, <1>3, <1>4, <1>5, <1>6, <1>7, <1>8 DEF VoteNext

\* The result that a voter gets from the maps in memory (vote_service.go:117) has the
\* voter's vote, whatever else fails and whoever votes meanwhile.
THEOREM VotersSeeTheirVoteInMemory ==
    ASSUME ~HasRedis PROVE VoteSpec => []ReadYourVote
<1>1. VoteInit => MemOnly
  BY DEF VoteInit, MemOnly, Procs
<1>2. TypeInv /\ MemOnly /\ [VoteNext]_vars => MemOnly'
  BY MemOnlyStep
<1>3. MemOnly => ReadYourVote
  BY DEF MemOnly, ReadYourVote
<1> QED BY <1>1, <1>2, <1>3, TypeInvariant, PTL DEF VoteSpec

\* Without Redis, and as long as the process runs, every accepted vote is counted and no
\* voter is counted twice: memVoters is looked up and changed under one lock
\* (vote_service.go:100).  (A process that starts again has forgotten its voters.)
THEOREM OneVoteEachInMemory ==
    ASSUME ~HasRedis, "crash" \notin Faults
    PROVE  VoteSpec => []OneVotePerVoter
<1>1. VoteInit => MemOnly /\ MemVoters
  BY DEF VoteInit, MemOnly, MemVoters, Procs
<1>2. TypeInv /\ MemOnly /\ MemVoters /\ [VoteNext]_vars => MemOnly' /\ MemVoters'
  BY MemOnlyStep, MemVotersStep
<1>3. MemVoters => OneVotePerVoter
  BY DEF MemVoters, OneVotePerVoter
<1> QED BY <1>1, <1>2, <1>3, TypeInvariant, PTL DEF VoteSpec

-----------------------------------------------------------------------------
(***************************************************************************)
(* The vote service uses the poll service as PollSpec says: what it        *)
(* reports is what so many votes can give, one report for a cast, for a    *)
(* poll that was created.  Theorems about PollSpec hold of VoteSpec then.  *)
(***************************************************************************)

Reporting ==
    \A c \in Casts :
        /\ pc[c] \in Active => poll.phase # "none"
        /\ pc[c] \in {"idle"} \cup Active => sync[c].pc = "idle"

\* A poll that was created stays so, and the poll service starts no write-back.
LEMMA PollKeeps ==
    ASSUME PollTypeOK, PollStep
    PROVE  /\ poll.phase # "none" => poll'.phase # "none"
           /\ \A c \in Casts : sync[c].pc = "idle" => sync'[c].pc = "idle"
<1> USE DEF PollTypeOK, Poll, Sync
<1>1. CASE CreatePoll
  BY <1>1 DEF CreatePoll
<1>2. ASSUME NEW k \in Calls, SetPollStatus(k) \/ DeletePoll(k)
      PROVE  /\ poll.phase # "none" => poll'.phase # "none"
             /\ sync' = sync
  BY <1>2 DEF SetPollStatus, DeletePoll
<1>3. ASSUME NEW c \in Casts, FindForUpdate(c) \/ ReplacePoll(c) \/ UpdateVotesInMemory(c)
      PROVE  /\ poll.phase # "none" => poll'.phase # "none"
             /\ \A d \in Casts : sync[d].pc = "idle" => sync'[d].pc = "idle"
  <2>1. poll.phase # "none" => poll'.phase # "none"
    BY <1>3 DEF FindForUpdate, ReplacePoll, UpdateVotesInMemory
  <2>2. /\ sync[c].pc # "idle"
        /\ \A d \in Casts : d # c => sync'[d] = sync[d]
    BY <1>3 DEF FindForUpdate, ReplacePoll, UpdateVotesInMemory, EndSync
  <2> QED BY <2>1, <2>2
<1> QED BY <1>1, <1>2, <1>3 DEF PollStep, BeginCall

LEMMA ReportingStep ==
    ASSUME TypeInv, Reporting, [VoteNext]_vars
    PROVE  Reporting'
<1> USE DEF Procs
<1>1. /\ pc \in [Procs -> {"idle"} \cup Active \cup Ended] /\ PollTypeOK
      /\ Casts \cap Reads = {} /\ sync \in [Casts -> Sync]
  BY VoteAssumption DEF TypeInv, VoteTypeOK, PollTypeOK
<1>2. CASE UNCHANGED vars
  BY <1>2 DEF vars, pollVars, reqVars, Reporting
<1>3. CASE PollStep /\ UNCHANGED <<reqVars, linkVars, redisVars, memVars, shown, counted>>
  BY <1>1, <1>3, PollKeeps DEF reqVars, Reporting
<1>4. ASSUME NEW c \in Casts, NEW v \in Voters, NEW o \in Options \cup {None},
             BeginCast(c, v, o)
      PROVE  Reporting'
  <2>1. /\ pc[c] = "idle" /\ poll' = poll /\ sync' = sync
        /\ \A d \in Casts : d # c => pc'[d] = pc[d]
        /\ \/ pc'[c] = "ping" /\ TRUE \in GetPollFor(c)
           \/ pc'[c] \in {"refused", "failed"}
    BY <1>1, <1>4 DEF BeginCast, Goto, pollVars
  <2>2. TRUE \in GetPollFor(c) => poll.phase # "none"
    BY DEF GetPollFor, GetPollResults, Stored
  <2> QED BY <2>1, <2>2 DEF Reporting, Active
<1>5. ASSUME NEW p \in Procs, RequestStep(p), ~Accept(p)
      PROVE  Reporting'
  <2>1. /\ poll' = poll /\ sync' = sync
        /\ \A q \in Procs : q # p => pc'[q] = pc[q]
        /\ pc[p] \in Active \/ p \in Reads
        /\ pc'[p] # "idle"
    BY <1>1, <1>5 DEF RequestStep, RecordVote, PingForCast, SAdd, HIncrBy, IncrTotal, MemVote,
       FetchResults, GetPollForResults, PingForResults, HGetAll, SeedOption, SeedTotal, MemRead,
       Answer, Goto, Finish, pollVars, Active
  <2> QED BY <1>1, <2>1 DEF Reporting
<1>6. ASSUME NEW c \in Procs, Accept(c)
      PROVE  Reporting'
  <2>1. /\ poll' = poll /\ pc'[c] = "accepted" /\ c \in Casts
        /\ \A d \in Casts : d # c => pc'[d] = pc[d] /\ sync'[d] = sync[d]
    BY <1>1, <1>6 DEF Accept, Spawn, Finish, Goto
  <2> QED BY <2>1 DEF Reporting, Active
<1>7. CASE (\E p \in Procs : Cancel(p)) \/ RedisFlaps \/ RedisLoss
  BY <1>7 DEF Cancel, RedisFlaps, RedisLoss, reqVars, pollVars, Reporting
<1>8. CASE Crash
  <2>1. \A c \in Casts : /\ pc'[c] \notin Active /\ (pc'[c] = "idle" => pc[c] = "idle")
                         /\ sync[c].pc = "idle" => sync'[c] = sync[c]
    BY <1>1, <1>8 DEF Crash, PollCrash, Active
  <2> QED BY <2>1 DEF Reporting
<1> QED BY <1>2, <1>3, <1>4, <1>5, <1>6, <1>7, <1>8 DEF VoteNext

\* A step of the vote service is one of the poll service, or leaves it alone.
LEMMA PollSide ==
    ASSUME CountInv, Reporting, [VoteNext]_vars
    PROVE  [PollNext]_pollVars
<1>1. CASE PollStep \/ Crash
  BY <1>1 DEF PollNext, Crash
<1>2. ASSUME NEW c \in Procs, Accept(c)
      PROVE  PollNext
  <2>1. /\ c \in Casts /\ pc[c] = "respond" /\ Spawn(c, view[c]) /\ UNCHANGED <<poll, call>>
    BY <1>2 DEF Accept
  <2>2. poll.phase # "none" /\ sync[c].pc = "idle"
    BY <2>1 DEF Reporting, Active
  <2>3. view[c] \in Reported
    <3>1. view[c] \in Tally /\ AtMost(view[c], Counts) /\ counted \subseteq Casts
      BY <2>1 DEF CountInv, TypeInv, VoteTypeOK, NoInventedVotes, Procs
    <3>2. ASSUME NEW o \in Options
          PROVE  view[c][o] \in 0 .. Cardinality(Casts)
      <4> DEFINE S == {d \in counted : choice[d] = o}
      <4>1. /\ Cardinality(S) \in Nat /\ Cardinality(Casts) \in Nat
            /\ Cardinality(S) <= Cardinality(Casts)
        BY <3>1, PollAssumption, FS_Subset, FS_CardinalityType
      <4>2. Counts[o] = Cardinality(S)
        BY DEF Counts
      <4>3. view[c][o] \in Nat /\ view[c][o] <= Counts[o]
        BY <3>1 DEF Tally, AtMost
      <4> HIDE DEF S
      <4> QED BY <4>1, <4>2, <4>3
    <3> QED BY <3>1, <3>2 DEF Reported, Tally
  <2>4. Report(c, view[c])
    BY <2>1, <2>2 DEF Report
  <2> QED BY <2>1, <2>3, <2>4 DEF PollNext
<1>3. ASSUME NEW p \in Procs, RequestStep(p), ~Accept(p)
      PROVE  UNCHANGED pollVars
  BY <1>3 DEF RequestStep, RecordVote, PingForCast, SAdd, HIncrBy, IncrTotal, MemVote,
     FetchResults, GetPollForResults, PingForResults, HGetAll, SeedOption, SeedTotal, MemRead,
     Answer
<1>4. ASSUME VoteNext, ~PollStep, ~Crash, \A p \in Procs : ~RequestStep(p)
      PROVE  UNCHANGED pollVars
  BY <1>4 DEF VoteNext, BeginCast, Cancel, RedisFlaps, RedisLoss
<1>5. CASE UNCHANGED vars
  BY <1>5 DEF vars
<1> QED BY <1>1, <1>2, <1>3, <1>4, <1>5

\* UpdateVotesInDB gets from CastVote (vote_service.go:139) what PollService assumes of
\* it: the vote service, its faults included, is an implementation of PollSpec.
THEOREM ImplementsPoll ==
    ASSUME "resend" \notin Faults
    PROVE  VoteSpec => PollSpec
<1>1. VoteInit => PollInit /\ Reporting
  BY DEF VoteInit, PollInit, Reporting, Procs, Active, IdleSync
<1>2. CountInv /\ Reporting /\ [VoteNext]_vars => Reporting' /\ [PollNext]_pollVars
  BY ReportingStep, PollSide DEF CountInv
<1> QED BY <1>1, <1>2, CountInit, CountInvStep, PTL DEF VoteSpec, PollSpec

\* With MongoDB and any votes, whatever fails: a deletion that was confirmed holds, although
\* the write-backs of those votes replace the document.
THEOREM DeletionHoldsWithVotes ==
    ASSUME "resend" \notin Faults, UseMongo
    PROVE  VoteSpec => []AckedDeleteHolds
BY ImplementsPoll, DeletionHolds, PTL

\* In memory, with any votes, the status of a poll is that which its owner has set.
THEOREM StatusIsOwnersWithVotes ==
    ASSUME "resend" \notin Faults, ~UseMongo
    PROVE  VoteSpec => StatusOnlyByOwner
BY ImplementsPoll, StatusIsOwners, PTL
=============================================================================
