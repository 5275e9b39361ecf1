----------------------------- MODULE PollService -----------------------------
(***************************************************************************)
(* PollService of backend/internal/services/poll_service.go, for one poll  *)
(* id.  Operations on different polls touch different documents and        *)
(* different map entries, so one id is enough.                             *)
(*                                                                         *)
(* The service keeps the poll in MongoDB (s.db # nil) or, when MongoDB was *)
(* not reachable at start-up, in the map memPolls under memMu.  A request  *)
(* runs on a goroutine of its own, so a handler is split where the code    *)
(* lets go of the store: after GetPoll, and after FindOne.                 *)
(*                                                                         *)
(* Data abstractions                                                       *)
(*   - A tally gives a count per option; a total is always the sum of one  *)
(*     tally and is represented by that tally (totalOf).  Two totals agree *)
(*     when their tallies do.                                              *)
(*   - Title, description, texts and timestamps are left out; closedAt is  *)
(*     written together with isActive, as its negation.                    *)
(*   - Percentages are computed from votes and total when a poll is read.  *)
(*   - In memory a copy of a Poll shares the array behind its Options      *)
(*     slice with the map entry; poll.votes stands for that one array, and *)
(*     a copy keeps only the fields that are really copied.                *)
(***************************************************************************)
EXTENDS Naturals, FiniteSets

CONSTANTS
    Options,    \* the options of the poll
    Users,      \* the users whose token a request may carry
    Owner,      \* the user that created the poll
    Calls,      \* PATCH .../status and DELETE requests
    Casts,      \* vote requests; each ends in at most one UpdateVotesInDB
    UseMongo,   \* TRUE iff s.db # nil
    Faults,     \* the faults that may happen, see FaultKinds
    None        \* a value that is no user, voter or option

\* "crash": the server process stops and starts again; "mongo": an operation on
\* MongoDB fails; "cancel": the HTTP client goes away and its request context is
\* cancelled; "redisDown": Redis is unreachable for a while; "redisLoss": Redis
\* restarts without its data; "resend": the Redis client sends a command a second time
\* because the reply to the first was lost.
FaultKinds == {"crash", "mongo", "cancel", "redisDown", "redisLoss", "resend"}

ASSUME PollAssumption ==
    /\ Owner \in Users
    /\ None \notin Users \cup Options
    /\ IsFiniteSet(Casts)
    /\ UseMongo \in BOOLEAN
    /\ Faults \subseteq FaultKinds

VARIABLES
    poll,   \* the stored poll
    call,   \* call[k]: an owner request, SetPollStatus or DeletePoll
    sync    \* sync[c]: the goroutine that writes cast c's tally back

pollVars == <<poll, call, sync>>

Tally == [Options -> Nat]
NoVotes == [o \in Options |-> 0]

\* In phase "stored" GetPoll finds the poll; "none" and "deleted" both mean that
\* the store holds no poll under this id.
Poll == [phase : {"none", "stored", "deleted"}, isActive : BOOLEAN,
         votes : Tally, totalOf : Tally]

Ops == {"close", "reopen", "delete"}

\* total: the TotalVotes of the Poll that GetPoll returned to the call.
Call == [pc : {"idle", "write", "ok", "error", "lost"},
         op : Ops \cup {None}, user : Users \cup {None}, total : Tally]

\* tally: the counts to write; seen: isActive of the document FindOne returned.
Sync == [pc : {"idle", "find", "replace", "done", "lost"},
         tally : Tally, seen : BOOLEAN]

IdleCall == [pc |-> "idle", op |-> None, user |-> None, total |-> NoVotes]
IdleSync == [pc |-> "idle", tally |-> NoVotes, seen |-> FALSE]

PollInit ==
    /\ poll = [phase |-> "none", isActive |-> FALSE,
               votes |-> NoVotes, totalOf |-> NoVotes]
    /\ call = [k \in Calls |-> IdleCall]
    /\ sync = [c \in Casts |-> IdleSync]

-----------------------------------------------------------------------------

Stored == poll.phase = "stored"

MongoMayFail == UseMongo /\ "mongo" \in Faults

\* What GetPoll may answer: TRUE with the stored poll, FALSE with an error.  Every
\* error of FindOne is reported as "poll not found".
GetPollResults ==
    (IF Stored THEN {TRUE} ELSE {FALSE}) \cup (IF MongoMayFail THEN {FALSE} ELSE {})

\* (Mutant of CreatePoll: the options have no counts.)
CreatePollNoCounts ==
    /\ poll.phase = "none"
    /\ poll' = [phase |-> "stored", isActive |-> TRUE, votes |-> <<>>, totalOf |-> NoVotes]
    /\ UNCHANGED <<call, sync>>

\* CreatePoll: the document is inserted, or the map entry written, in one step and
\* under a fresh id; a failed InsertOne leaves an id that nobody was told.
CreatePoll ==
    /\ poll.phase = "none"
    /\ poll' = [phase |-> "stored", isActive |-> TRUE,
                votes |-> NoVotes, totalOf |-> NoVotes]
    /\ UNCHANGED <<call, sync>>

\* (Mutant of BeginCall: the owner is not checked.)
BeginCallAnyUser(k, op, u) ==
    /\ call[k].pc = "idle"
    /\ \E found \in GetPollResults :
          call' = [call EXCEPT ![k] = [pc |-> IF found THEN "write" ELSE "error",
                                       op |-> op, user |-> u, total |-> poll.totalOf]]
    /\ UNCHANGED <<poll, sync>>

\* The first half of SetPollStatus and of DeletePoll: GetPoll and the ownership
\* check.
BeginCall(k, op, u) ==
    /\ call[k].pc = "idle"
    /\ \E found \in GetPollResults :
          call' = [call EXCEPT ![k] =
                      [pc |-> IF found /\ u = Owner THEN "write" ELSE "error",
                       op |-> op, user |-> u, total |-> poll.totalOf]]
    /\ UNCHANGED <<poll, sync>>

Return(k, outcome) == call' = [call EXCEPT ![k].pc = outcome]

\* The second half of SetPollStatus.  UpdateOne sets the status of the document if
\* there still is one, and an error leaves open whether it did; in memory the whole
\* copy that GetPoll returned is put back.
SetPollStatus(k) ==
    LET active  == call[k].op = "reopen"
        updated == IF Stored THEN [poll EXCEPT !.isActive = active] ELSE poll
    IN
    /\ call[k].pc = "write"
    /\ call[k].op \in {"close", "reopen"}
    /\ \/ /\ UseMongo
          /\ poll' = updated
          /\ Return(k, "ok")
       \/ /\ MongoMayFail
          /\ poll' \in {poll, updated}
          /\ Return(k, "error")
       \/ /\ ~UseMongo
          /\ poll' = [poll EXCEPT !.phase = "stored", !.isActive = active,
                                  !.totalOf = call[k].total]
          /\ Return(k, "ok")
    /\ UNCHANGED sync

\* The second half of DeletePoll.  Deleting what is no longer there is no error.
DeletePoll(k) ==
    LET removed == [poll EXCEPT !.phase = "deleted"] IN
    /\ call[k].pc = "write"
    /\ call[k].op = "delete"
    /\ \/ /\ poll' = removed
          /\ Return(k, "ok")
       \/ /\ MongoMayFail
          /\ poll' \in {poll, removed}
          /\ Return(k, "error")
    /\ UNCHANGED sync

-----------------------------------------------------------------------------
(* UpdateVotesInDB, run by the background goroutine that CastVote starts. *)

Spawn(c, tally) ==
    sync' = [sync EXCEPT ![c] = [pc |-> "find", tally |-> tally, seen |-> FALSE]]

EndSync(c) == sync' = [sync EXCEPT ![c] = [IdleSync EXCEPT !.pc = "done"]]

\* (Mutant of FindForUpdate: it waits for the document.)
FindForUpdateWaits(c) ==
    /\ UseMongo
    /\ sync[c].pc = "find"
    /\ Stored
    /\ sync' = [sync EXCEPT ![c].pc = "replace", ![c].seen = poll.isActive]
    /\ UNCHANGED <<poll, call>>

\* FindOne; an error ends the goroutine, and CastVote drops the error.
FindForUpdate(c) ==
    /\ UseMongo
    /\ sync[c].pc = "find"
    /\ \/ /\ Stored
          /\ sync' = [sync EXCEPT ![c].pc = "replace", ![c].seen = poll.isActive]
       \/ /\ ~Stored \/ MongoMayFail
          /\ EndSync(c)
    /\ UNCHANGED <<poll, call>>

\* (Mutant of ReplacePoll: upsert.)
ReplacePollUpsert(c) ==
    /\ sync[c].pc = "replace"
    /\ poll' = [phase |-> "stored", isActive |-> sync[c].seen,
                votes |-> sync[c].tally, totalOf |-> sync[c].tally]
    /\ EndSync(c)
    /\ UNCHANGED call

\* ReplaceOne puts the whole document back: the status that FindOne read, and the
\* new counts.  It does not insert a document that is gone.
ReplacePoll(c) ==
    /\ sync[c].pc = "replace"
    /\ \/ poll' = IF Stored
                  THEN [poll EXCEPT !.isActive = sync[c].seen,
                                    !.votes = sync[c].tally,
                                    !.totalOf = sync[c].tally]
                  ELSE poll
       \/ MongoMayFail /\ UNCHANGED poll
    /\ EndSync(c)
    /\ UNCHANGED call

\* (Mutant of UpdateVotesInMemory: the counts are added to those that are there.)
UpdateVotesAdding(c) ==
    LET sum == [o \in Options |-> poll.votes[o] + sync[c].tally[o]] IN
    /\ ~UseMongo
    /\ sync[c].pc = "find"
    /\ poll' = IF Stored THEN [poll EXCEPT !.votes = sum, !.totalOf = sum] ELSE poll
    /\ EndSync(c)
    /\ UNCHANGED call

\* In memory the entry is read, changed and written under one lock.
UpdateVotesInMemory(c) ==
    /\ ~UseMongo
    /\ sync[c].pc = "find"
    /\ poll' = IF Stored
               THEN [poll EXCEPT !.votes = sync[c].tally,
                                 !.totalOf = sync[c].tally]
               ELSE poll
    /\ EndSync(c)
    /\ UNCHANGED call

\* What a stop of the process does to this service: requests and write-backs in
\* flight are gone, and so is a poll that was only in memory.  A graceful shutdown
\* waits for requests but not for the write-backs.
PollCrash ==
    /\ "crash" \in Faults
    /\ poll' = IF UseMongo \/ ~Stored THEN poll ELSE [poll EXCEPT !.phase = "deleted"]
    /\ call' = [k \in Calls |-> IF call[k].pc = "write"
                                THEN [call[k] EXCEPT !.pc = "lost"] ELSE call[k]]
    /\ sync' = [c \in Casts |-> IF sync[c].pc \in {"find", "replace"}
                                THEN [IdleSync EXCEPT !.pc = "lost"] ELSE sync[c]]

-----------------------------------------------------------------------------

PollStep ==
    \/ CreatePoll
    \/ \E k \in Calls, op \in Ops, u \in Users : BeginCall(k, op, u)
    \/ \E k \in Calls : SetPollStatus(k) \/ DeletePoll(k)
    \/ \E c \in Casts : FindForUpdate(c) \/ ReplacePoll(c) \/ UpdateVotesInMemory(c)

(* PollService on its own: any tally that as many votes can give is reported, for a *)
(* poll that was created and that may have been deleted since.                      *)

Reported == [Options -> 0 .. Cardinality(Casts)]

Report(c, tally) ==
    /\ poll.phase # "none"
    /\ sync[c].pc = "idle"
    /\ Spawn(c, tally)
    /\ UNCHANGED <<poll, call>>

PollNext ==
    \/ PollStep
    \/ \E c \in Casts, tally \in Reported : Report(c, tally)
    \/ PollCrash

PollSpec == PollInit /\ [][PollNext]_pollVars

-----------------------------------------------------------------------------

\* Type correctness of the stored poll, the owner requests and the write-backs.
PollTypeOK ==
    /\ poll \in Poll
    /\ call \in [Calls -> Call]
    /\ sync \in [Casts -> Sync]

\* When DELETE has been answered with "Poll deleted successfully", no request and no
\* write-back that was under way brings the poll back.
AckedDeleteHolds ==
    \A k \in Calls : call[k].op = "delete" /\ call[k].pc = "ok" => ~Stored

\* A stored poll changes between active and closed only when a PATCH of its owner
\* asking for just that is being carried out.
StatusOnlyByOwner ==
    [][ poll.phase = "stored" /\ poll'.isActive # poll.isActive =>
          \E k \in Calls : /\ call[k].pc = "write" /\ call'[k].pc = "ok"
                           /\ call[k].user = Owner
                           /\ call[k].op = IF poll'.isActive THEN "reopen" ELSE "close"
      ]_pollVars

-----------------------------------------------------------------------------
(* A statement that does not hold in memory. *)

\* models/poll.go:23, "totalVotes" of a poll: it is the sum of the counts of the options.  In
\* memory a status change puts back the total that GetPoll returned, while the counts,
\* which the copy shares, stay.
TotalMatchesVotes == Stored => poll.totalOf = poll.votes
=============================================================================
