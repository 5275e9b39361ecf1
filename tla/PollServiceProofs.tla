-------------------------- MODULE PollServiceProofs --------------------------
(* Proofs about PollService, for every value of its constants. *)
EXTENDS PollService, FiniteSetTheorems, TLAPS

(***************************************************************************)
(* Type correctness.  The lemmas about one step are also used by           *)
(* VoteServiceProofs, whose next-state relation has PollStep and PollCrash *)
(* among its disjuncts and spawns write-backs with tallies of its own.     *)
(***************************************************************************)

LEMMA NoVotesType == NoVotes \in Tally
BY DEF NoVotes, Tally

LEMMA PollStepType ==
    ASSUME PollTypeOK, PollStep
    PROVE  PollTypeOK'
<1> USE PollAssumption, NoVotesType DEF PollTypeOK, Poll
<1>1. CASE CreatePoll
  BY <1>1 DEF CreatePoll
<1>2. ASSUME NEW k \in Calls, NEW op \in Ops, NEW u \in Users, BeginCall(k, op, u)
      PROVE  PollTypeOK'
  BY <1>2 DEF BeginCall, Call
<1>3. ASSUME NEW k \in Calls, SetPollStatus(k)
      PROVE  PollTypeOK'
  <2> DEFINE updated == IF Stored THEN [poll EXCEPT !.isActive = call[k].op = "reopen"]
                        ELSE poll
  <2>1. updated \in Poll
    BY DEF Stored
  <2>2. [poll EXCEPT !.phase = "stored", !.isActive = call[k].op = "reopen",
                     !.totalOf = call[k].total] \in Poll
    BY DEF Call
  <2>3. poll' \in Poll
    BY <1>3, <2>1, <2>2 DEF SetPollStatus
  <2>4. call' \in [Calls -> Call] /\ UNCHANGED sync
    BY <1>3 DEF SetPollStatus, Return, Call
  <2> QED BY <2>3, <2>4
<1>4. ASSUME NEW k \in Calls, DeletePoll(k)
      PROVE  PollTypeOK'
  BY <1>4 DEF DeletePoll, Return, Call
<1>5. ASSUME NEW c \in Casts, FindForUpdate(c)
      PROVE  PollTypeOK'
  <2>1. [IdleSync EXCEPT !.pc = "done"] \in Sync
    BY DEF IdleSync, Sync
  <2>2. [sync[c] EXCEPT !.pc = "replace", !.seen = poll.isActive] \in Sync
    BY DEF Sync
  <2>3. \/ sync' = [sync EXCEPT ![c] = [sync[c] EXCEPT !.pc = "replace",
                                                      !.seen = poll.isActive]]
        \/ sync' = [sync EXCEPT ![c] = [IdleSync EXCEPT !.pc = "done"]]
    BY <1>5 DEF FindForUpdate, EndSync
  <2>4. sync' \in [Casts -> Sync]
    BY <2>1, <2>2, <2>3
  <2> QED BY <1>5, <2>4 DEF FindForUpdate
<1>6. ASSUME NEW c \in Casts, ReplacePoll(c)
      PROVE  PollTypeOK'
  BY <1>6 DEF ReplacePoll, EndSync, IdleSync, Sync
<1>7. ASSUME NEW c \in Casts, UpdateVotesInMemory(c)
      PROVE  PollTypeOK'
  BY <1>7 DEF UpdateVotesInMemory, EndSync, IdleSync, Sync
<1> QED BY <1>1, <1>2, <1>3, <1>4, <1>5, <1>6, <1>7 DEF PollStep

LEMMA PollCrashType ==
    ASSUME PollTypeOK, PollCrash
    PROVE  PollTypeOK'
BY NoVotesType DEF PollTypeOK, PollCrash, Poll, Call, Sync, IdleSync

LEMMA SpawnType ==
    ASSUME PollTypeOK, NEW c \in Casts, NEW tally \in Tally, Spawn(c, tally),
           UNCHANGED <<poll, call>>
    PROVE  PollTypeOK'
BY DEF PollTypeOK, Spawn, Sync

LEMMA PollInitType == PollInit => PollTypeOK
BY NoVotesType DEF PollInit, PollTypeOK, Poll, Call, Sync, IdleCall, IdleSync

LEMMA ReportedType == Reported \subseteq Tally
BY PollAssumption, FS_CardinalityType DEF Reported, Tally

\* Where counts come from: those of the poll from a write-back, and those of a
\* write-back from nowhere in this module.
LEMMA VotesMove ==
    ASSUME PollTypeOK, PollStep \/ PollCrash
    PROVE  /\ poll'.votes \in {poll.votes, NoVotes} \cup {sync[c].tally : c \in Casts}
           /\ \A c \in Casts : sync'[c].tally \in {sync[c].tally, NoVotes}
<1> USE DEF PollTypeOK, Poll, Sync
<1>1. CASE CreatePoll
  BY <1>1 DEF CreatePoll
<1>2. ASSUME NEW k \in Calls, NEW op \in Ops, NEW u \in Users, BeginCall(k, op, u)
      PROVE  poll'.votes = poll.votes /\ sync' = sync
  BY <1>2 DEF BeginCall
<1>3. ASSUME NEW k \in Calls, SetPollStatus(k) \/ DeletePoll(k)
      PROVE  poll'.votes = poll.votes /\ sync' = sync
  BY <1>3 DEF SetPollStatus, DeletePoll
<1>4. ASSUME NEW c \in Casts, FindForUpdate(c)
      PROVE  /\ poll' = poll
             /\ \A d \in Casts : sync'[d].tally \in {sync[d].tally, NoVotes}
  BY <1>4 DEF FindForUpdate, EndSync, IdleSync
<1>5. ASSUME NEW c \in Casts, ReplacePoll(c) \/ UpdateVotesInMemory(c)
      PROVE  /\ poll'.votes \in {poll.votes, sync[c].tally}
             /\ \A d \in Casts : sync'[d].tally \in {sync[d].tally, NoVotes}
  <2>1. CASE ReplacePoll(c)
    <3>1. poll'.votes \in {poll.votes, sync[c].tally}
      BY <2>1 DEF ReplacePoll
    <3> QED BY <2>1, <3>1 DEF ReplacePoll, EndSync, IdleSync
  <2>2. CASE UpdateVotesInMemory(c)
    <3>1. poll'.votes \in {poll.votes, sync[c].tally}
      BY <2>2 DEF UpdateVotesInMemory
    <3> QED BY <2>2, <3>1 DEF UpdateVotesInMemory, EndSync, IdleSync
  <2> QED BY <1>5, <2>1, <2>2
<1>6. CASE PollCrash
  BY <1>6 DEF PollCrash, IdleSync
<1> QED BY <1>1, <1>2, <1>3, <1>4, <1>5, <1>6 DEF PollStep

\* The stored poll, the owner requests and the write-backs have the shape that the
\* code gives them, whatever is closed, reopened, deleted and written back, and when.
THEOREM PollTypeCorrect == PollSpec => []PollTypeOK
<1>1. PollTypeOK /\ [PollNext]_pollVars => PollTypeOK'
  <2> SUFFICES ASSUME PollTypeOK, [PollNext]_pollVars PROVE PollTypeOK'
    OBVIOUS
  <2>1. CASE PollStep
    BY <2>1, PollStepType
  <2>2. ASSUME NEW c \in Casts, NEW tally \in Reported, Report(c, tally)
        PROVE  PollTypeOK'
    BY <2>2, SpawnType, ReportedType DEF Report
  <2>3. CASE PollCrash
    BY <2>3, PollCrashType
  <2>4. CASE UNCHANGED pollVars
    BY <2>4 DEF PollTypeOK, pollVars
  <2> QED BY <2>1, <2>2, <2>3, <2>4 DEF PollNext
<1> QED BY <1>1, PollInitType, PTL DEF PollSpec

-----------------------------------------------------------------------------
(***************************************************************************)
(* Deletion with MongoDB.  "Not stored" is not inductive, since a poll     *)
(* that does not exist yet can be created; "deleted" is, since no update   *)
(* of MongoDB inserts a document.                                          *)
(***************************************************************************)

DeletedWhenAcked ==
    \A k \in Calls : call[k].op = "delete" /\ call[k].pc = "ok" => poll.phase = "deleted"

\* One step keeps an acknowledged deletion.
LEMMA DeletedStep ==
    ASSUME UseMongo, PollTypeOK, DeletedWhenAcked, PollStep \/ PollCrash
    PROVE  DeletedWhenAcked'
<1> SUFFICES ASSUME NEW k \in Calls, call'[k].op = "delete", call'[k].pc = "ok"
             PROVE  poll'.phase = "deleted"
  BY DEF DeletedWhenAcked
<1> USE DEF PollTypeOK, Call, Poll
<1>1. CASE CreatePoll
  BY <1>1 DEF CreatePoll, DeletedWhenAcked
<1>2. ASSUME NEW j \in Calls, NEW op \in Ops, NEW u \in Users, BeginCall(j, op, u)
      PROVE  poll'.phase = "deleted"
  BY <1>2 DEF BeginCall, DeletedWhenAcked
<1>3. ASSUME NEW j \in Calls, SetPollStatus(j)
      PROVE  poll'.phase = "deleted"
  <2>1. call[k].op = "delete" /\ call[k].pc = "ok" /\ poll.phase = "deleted"
    BY <1>3 DEF SetPollStatus, Return, DeletedWhenAcked
  <2> QED BY <1>3, <2>1 DEF SetPollStatus, Stored
<1>4. ASSUME NEW j \in Calls, DeletePoll(j)
      PROVE  poll'.phase = "deleted"
  <2>1. CASE j = k
    BY <1>4, <2>1 DEF DeletePoll, Return
  <2>2. CASE j # k
    BY <1>4, <2>2 DEF DeletePoll, Return, DeletedWhenAcked
  <2> QED BY <2>1, <2>2
<1>5. ASSUME NEW c \in Casts, FindForUpdate(c) \/ ReplacePoll(c) \/ UpdateVotesInMemory(c)
      PROVE  poll'.phase = "deleted"
  <2>1. poll.phase = "deleted"
    BY <1>5 DEF FindForUpdate, ReplacePoll, UpdateVotesInMemory, DeletedWhenAcked
  <2> QED BY <1>5, <2>1 DEF FindForUpdate, ReplacePoll, UpdateVotesInMemory, Stored
<1>6. CASE PollCrash
  BY <1>6 DEF PollCrash, DeletedWhenAcked
<1> QED BY <1>1, <1>2, <1>3, <1>4, <1>5, <1>6 DEF PollStep

\* With MongoDB a poll whose DELETE was answered with success stays deleted, whatever
\* status changes and write-backs had read it before.  (In memory it does not.)
THEOREM DeletionHolds ==
    ASSUME UseMongo
    PROVE  PollSpec => []AckedDeleteHolds
<1>1. PollInit => DeletedWhenAcked
  BY DEF PollInit, IdleCall, DeletedWhenAcked
<1>2. PollTypeOK /\ DeletedWhenAcked /\ [PollNext]_pollVars => DeletedWhenAcked'
  <2> SUFFICES ASSUME PollTypeOK, DeletedWhenAcked, [PollNext]_pollVars
               PROVE  DeletedWhenAcked'
    OBVIOUS
  <2>1. CASE PollStep \/ PollCrash
    BY <2>1, DeletedStep
  <2>2. ASSUME NEW c \in Casts, NEW tally \in Reported, Report(c, tally)
        PROVE  DeletedWhenAcked'
    BY <2>2 DEF Report, DeletedWhenAcked
  <2>3. CASE UNCHANGED pollVars
    BY <2>3 DEF pollVars, DeletedWhenAcked
  <2> QED BY <2>1, <2>2, <2>3 DEF PollNext
<1>3. DeletedWhenAcked => AckedDeleteHolds
  BY DEF DeletedWhenAcked, AckedDeleteHolds, Stored
<1> QED BY <1>1, <1>2, <1>3, PollTypeCorrect, PTL DEF PollSpec

-----------------------------------------------------------------------------
(***************************************************************************)
(* The status in memory.  The owner check precedes the write, and the only *)
(* write-back that could carry an old status, ReplaceOne, does not exist.  *)
(***************************************************************************)

OnlyOwnerWrites ==
    /\ \A k \in Calls : call[k].pc = "write" => call[k].user = Owner
    /\ \A c \in Casts : sync[c].pc # "replace"

\* The change of status that StatusOnlyByOwner allows in a step.
StatusChange ==
    poll.phase = "stored" /\ poll'.isActive # poll.isActive =>
       \E k \in Calls : /\ call[k].pc = "write" /\ call'[k].pc = "ok"
                        /\ call[k].user = Owner
                        /\ call[k].op = IF poll'.isActive THEN "reopen" ELSE "close"

LEMMA OwnerStep ==
    ASSUME ~UseMongo, PollTypeOK, OnlyOwnerWrites, PollNext
    PROVE  OnlyOwnerWrites' /\ StatusChange
<1> USE DEF PollTypeOK, Call, Poll, Sync
<1>1. CASE CreatePoll
  BY <1>1 DEF CreatePoll, OnlyOwnerWrites, StatusChange
<1>2. ASSUME NEW j \in Calls, NEW op \in Ops, NEW u \in Users, BeginCall(j, op, u)
      PROVE  OnlyOwnerWrites' /\ StatusChange
  BY <1>2 DEF BeginCall, OnlyOwnerWrites, StatusChange
<1>3. ASSUME NEW j \in Calls, SetPollStatus(j)
      PROVE  OnlyOwnerWrites' /\ StatusChange
  <2>1. /\ call[j].pc = "write" /\ call[j].user = Owner
        /\ call' = [call EXCEPT ![j].pc = "ok"] /\ UNCHANGED sync
        /\ call[j].op \in {"close", "reopen"}
        /\ poll'.isActive = (call[j].op = "reopen")
    BY <1>3 DEF SetPollStatus, Return, MongoMayFail, OnlyOwnerWrites
  <2>2. OnlyOwnerWrites'
    BY <2>1 DEF OnlyOwnerWrites
  <2>3. call[j].op = IF poll'.isActive THEN "reopen" ELSE "close"
    BY <2>1
  <2> QED BY <2>1, <2>2, <2>3 DEF StatusChange
<1>4. ASSUME NEW j \in Calls, DeletePoll(j)
      PROVE  OnlyOwnerWrites' /\ StatusChange
  BY <1>4 DEF DeletePoll, Return, OnlyOwnerWrites, StatusChange
<1>5. ASSUME NEW c \in Casts, FindForUpdate(c) \/ ReplacePoll(c) \/ UpdateVotesInMemory(c)
      PROVE  OnlyOwnerWrites' /\ StatusChange
  <2>1. UpdateVotesInMemory(c)
    BY <1>5 DEF FindForUpdate, ReplacePoll, OnlyOwnerWrites
  <2> QED BY <2>1 DEF UpdateVotesInMemory, EndSync, IdleSync, OnlyOwnerWrites, StatusChange
<1>6. ASSUME NEW c \in Casts, NEW tally \in Reported, Report(c, tally)
      PROVE  OnlyOwnerWrites' /\ StatusChange
  BY <1>6 DEF Report, Spawn, OnlyOwnerWrites, StatusChange
<1>7. CASE PollCrash
  BY <1>7 DEF PollCrash, IdleSync, OnlyOwnerWrites, StatusChange
<1> QED BY <1>1, <1>2, <1>3, <1>4, <1>5, <1>6, <1>7 DEF PollNext, PollStep

\* In memory nothing but a PATCH of the owner closes or reopens a poll.  (With MongoDB a
\* write-back can undo one.)
THEOREM StatusIsOwners ==
    ASSUME ~UseMongo
    PROVE  PollSpec => StatusOnlyByOwner
<1>1. PollInit => OnlyOwnerWrites
  BY DEF PollInit, IdleCall, IdleSync, OnlyOwnerWrites
<1>2. PollTypeOK /\ OnlyOwnerWrites /\ [PollNext]_pollVars
      => OnlyOwnerWrites' /\ [StatusChange]_pollVars
  BY OwnerStep DEF OnlyOwnerWrites, pollVars
<1>3. PollSpec => [][StatusChange]_pollVars
  BY <1>1, <1>2, PollTypeCorrect, PTL DEF PollSpec
<1> QED BY <1>3 DEF StatusOnlyByOwner, StatusChange
=============================================================================
