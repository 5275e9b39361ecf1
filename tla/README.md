# LivePoll in TLA+

Specifications of the LivePoll backend (`src/backend`, Go) and of the pages that use it
(`src/frontend`, React), the TLC configurations that check them, and proofs for TLAPS. The
text below names source files by their last part: `vote_service.go` is
`src/backend/internal/services/vote_service.go`, and so on.

    tlc -config VoteRedis.cfg MCVoteService.tla     # check one configuration
    tlapm VoteServiceProofs.tla                     # check the proofs of a module

## 1. The system

A poll has an owner, a few options and a count for each. Anybody may vote and watch.

| Component | State | Operations | Talks to |
|---|---|---|---|
| Poll service (`poll_service.go`, `poll_handler.go`) | the poll: in MongoDB, or in the map `memPolls` when MongoDB was not there at start-up | create, get, list, open or close, delete, write counts back | MongoDB; the hub (`BroadcastPollStatus`) |
| Vote service (`vote_service.go`, `vote_handler.go`) | voters and counts in Redis (a set, a hash, a total), or in `memVoters`/`memVotes`; local subscriber channels | cast a vote, read results, subscribe, publish | poll service, Redis, background write-back goroutines |
| WebSocket hub (`hub.go`, `client.go`, `ws_handler.go`) | one room per watched poll, with a loop, an inbox, two forwarders; a channel and two pumps per viewer | join, leave, hand out results, viewer counts and status changes, remove an empty room | vote service, Redis Pub/Sub, browsers |
| Live results page (`usePollLiveResults.js`, `ResultsPage.jsx`) | the last result, a socket, timers | fetch, poll every 5 s, apply messages, reconnect, close or reopen the poll | REST, WebSocket |
| Vote page (`VotePage.jsx`, `api.js`) | the selected option, what was voted; `localStorage` | load, select, submit | REST |
| Authentication (`auth_service.go`, `auth_middleware.go`, `AuthContext.jsx`) | users in MongoDB or in a map; tokens; token and user of each tab | register, log in, log out, check a token | MongoDB, `localStorage` |
| Dashboard and poll creation pages (`Dashboard.jsx`, `CreatePoll.jsx`) | the fields of the form, the list of the owner's polls | edit, publish; list, close, reopen, delete | REST |
| Navigation, sign-in pages and sharing (`App.jsx`, `Home.jsx`, `Login.jsx`, `Register.jsx`, `Navbar.jsx`, `ShareModal.jsx`) | the view and poll in the address, the browser's history | follow a link, go back or forward, submit a form | authentication, all pages |
| Start-up and shutdown (`main.go`, `db.go`, `config.go`) | which stores are in use | connect, serve, stop | all |
| CORS, page scaffold, styling | none | headers, display | |

Every HTTP request, WebSocket pump, room, forwarder, timer and write-back is a goroutine
of its own. There is no transaction anywhere: a vote is a sequence of about eight commands
to Redis and MongoDB, and any other request may come between two of them. What makes each
part correct, and what endangers it:

- *Poll service.* Only the owner changes the status; a deletion is final. In danger from
  write-backs and status changes that read, then write the whole document or entry.
- *Vote service.* A vote is counted once or not at all, nobody is counted twice, no count
  is lost or made up, the voter sees the own vote, every cast and every request for
  results ends. In danger from
  concurrent casts, from seeding Redis out of an older copy, from the choice between two
  stores made several times in a request, from crashes and lost data.
- *Hub.* One live room per poll, sends only to open channels, results that come
  through Redis in order and without gaps, slow viewers do not hold up others nor the owner's
  request, empty rooms go away. In danger from joins that
  overlap with the cleanup, from channels closed by one goroutine and used by another.
- *Live page.* It comes to show what the server has, keeps one connection, and stops when it
  is left. In danger from two sources of data that nothing orders, from timers and close
  events that outlive the effect which set them, from requests for another poll.
- *Vote page.* A vote counts once, whatever the tabs, retries and lost answers; what the page
  and `localStorage` say of it is true. In danger from state that is kept when the address
  changes to another poll.
- *Authentication and navigation.* One account per address; a tab's user is that of its token;
  nothing waits for an answer that cannot come. In danger from tabs that share `localStorage`
  and keep copies of it, from answers that come after a logout, from a look-up and an insert
  that are two commands.
- *Dashboard and form.* What the form lets through the server takes; a deleted poll stays off
  the list. In danger from checks made twice in two languages and from answers out of order.

In the browser everything runs in one thread: a handler runs up to its next `await`, and what
follows the `await` is a step of its own, with the variables its closure captured, wherever
the user has gone in between. The interleavings are those of such steps, of several tabs, and
of the server.

## 2. Modules

| Module | What it is |
|---|---|
| `PollService` | the poll service for one poll id, in both storage modes |
| `VoteService` | EXTENDS `PollService`; votes and results, one action per command |
| `Ballot` | what the README of LivePoll promises of voting: atomic votes, one per voter |
| `Hub` | rooms, viewers and the ways results take to them |
| `VotePage` | the vote page in the tabs of one browser, with its `localStorage` |
| `LivePage` | the results page and its hook, from mounting to leaving |
| `AuthService` | accounts and tokens at the server |
| `WebApp` | EXTENDS `AuthService`; sessions, navigation, forms for signing in, in several tabs |
| `PollForm` | the form for a new poll, and what the server makes of it |
| `Dashboard` | EXTENDS `PollForm`; the owner's list, and the way between list and form |
| `MC...` | symmetry sets and example values for TLC |
| `PollServiceProofs`, `VoteServiceProofs`, `HubProofs`, `VotePageProofs`, `LivePageProofs`, `WebAppProofs`, `DashboardProofs` | theorems; the second EXTENDS the first |

`VoteService` composes with `PollService` by extension: `PollStep` is a disjunct of
`VoteNext`, and `Accept` (the end of `CastVote`) calls `Spawn`, which starts the write-back
that `PollService` then carries out. `Hub` stands apart. It takes published results as
numbered messages; what they contain is the business of `VoteService` (`shown`). The
frontend modules take the server as external, and assume of it what the backend modules show:
`VotePage` that a vote is counted or refused in one step and a voter counted once (`Ballot`),
`LivePage` that a socket keeps the order of what was sent to it (`Hub`), while results may be
sent in any order, come late, be lost with their connection, or be told to some processes only.
`WebApp` and `Dashboard` each contain the server they talk to; `Dashboard` takes its requests for
the status and for a deletion from `PollService`, where in memory one may undo the other.

**State.** `poll` is the document or map entry. `call[k]` is an owner request (`PATCH` or
`DELETE`), `sync[c]` the write-back of cast `c`. In `VoteService` `pc[p]` names the next
command of request `p`, `view[p]` the counts it holds, `todo[p]` the rest of its seeding
loop; `rVoters`, `rVotes`, `rTotal` are the three Redis keys and `mVoters`, `mVotes` the
fallback maps; `counted` is history, the casts that some store has counted. In `Hub`
`loop`, `members`, `inbox`, `fwd`, `held`, `feed` belong to a room object and `conn`,
`reader`, `writer`, `initial`, `sendQ`, `sendClosed` to a viewer; `lastOut` and `handed`
are history.

In `VotePage` `page[t]` holds the props and hooks of the component in tab `t` (None while it is
not mounted), `loads` the GET requests, `req[r]` a vote with what its closure captured, `voted`
and `fp` the two kinds of keys in `localStorage`. In `LivePage` `mounted`, `wsRef`, `timerRef`
are the refs of the hook, `liveData`, `connectionStatus`, `error` its state, `sock`, `inbox`,
`timers` and `fetch` what the browser holds for it; `updates` are results computed by the server
and not yet sent. In `WebApp` `tab[t]` is the state of `AuthProvider` and `AppContent`, the
history of the tab and the request its form awaits; `ls` is `auth_token`; `caller[r]` the tab
whose closure awaits request `r`; `overtaken` is history. In `PollForm` and `Dashboard` `form`,
`list` are the state of the two pages, `create`, `call` requests under way, `polls` the server's.

**Actions.** An action is what a goroutine does between two points at which it lets go of
shared state: one command to Redis or MongoDB, one critical section, one channel operation.

| Code | Actions |
|---|---|
| `CreatePoll` | `CreatePoll` |
| `SetPollStatus`, `DeletePoll` | `BeginCall` (GetPoll, owner check), then `SetPollStatus` or `DeletePoll` |
| `UpdateVotesInDB` | `FindForUpdate`, `ReplacePoll`; in memory `UpdateVotesInMemory` |
| `CastVote` | `BeginCast`, `PingForCast`, `SAdd`, `HIncrBy`, `IncrTotal` or `MemVote`; then the row below; `Accept` |
| `GetLiveResults` | `GetPollForResults`, `PingForResults`, `HGetAll`, `SeedOption`, `SeedTotal` or `MemRead`; `Answer` |
| `HandleWebSocket` | `Join`, `Register`, `FetchInitial`, `SendInitial` |
| `runRoom` | `StartRoom`, `Register`, `Unregister`, `Deliver`, `StopRoom`; `Cleanup` is its timer |
| `listenRedisPubSub` and the local forwarder | `Subscribe`, `Take`, `Put`, `StopForwarder` |
| `broadcastLocal`, `PUBLISH` | `CopySubscribers`, `SendLocal`; `PublishRedis` |
| `BroadcastPollStatus` | `LookUpRoom`, `SendStatus` |
| `ReadPump`, `WritePump` | `StopReader`, `Unregister`; `Write`, `StopWriter` |
| `VotePage`: effect of `pollId` | `Mount`, `ChangePoll`; `ServeLoad`, then `LoadSucceeds` or `LoadFails`; `Unmount` |
| `VotePage`: options, `handleVoteSubmit` | `Select`; `Submit`, `ServeVote`, then `VoteSucceeds` or `VoteFails` |
| `fetchInitialData` | `Tick` (and the effect); `ServeFetch`, then `FetchSucceeds` or `FetchFails` |
| `connectWs` and its callbacks | `OnOpen`, `OnMessage`, `OnClose`, `Reconnect`; `Break` is the network |
| the effect's cleanup | `ChangePoll`, `Unmount` of `LivePage` |
| `handleToggleStatus` of the results page | `ToggleStatus`, `ServeToggle`, `ToggleEnds` |
| `Register`, `Login`, `Me` | `RegisterFinds`, `RegisterInserts` or `RegisterInMemory`; `Login`; `Me` |
| `AuthProvider` | `CheckAuth`, `CheckSucceeds`, `CheckFails`, `Logout`; `SignInSucceeds` |
| `Login.jsx`, `Register.jsx`: `handleSubmit` | `SubmitSignIn`, then `SignInSucceeds` or `SignInFails` |
| `navigate`, `syncStateFromURL` | `FollowLink`, `Traverse`; `Reload` |
| `CreatePoll.jsx` | `ChangeTitle`, `HandleOptionChange`, `HandleAddOption`, `HandleRemoveOption`; `HandleSubmit`, `ServeCreate`, then `CreateSucceeds` or `CreateFails` |
| `Dashboard.jsx` | `Navigate`, `HandleToggleStatus`, `HandleDelete`; `ServeCall` (the list; or GetPoll), `WriteCall`, then `CallSucceeds` or `CallFails` |

**Faults** (constant `Faults`): the process crashes and restarts; a MongoDB operation fails,
with or without effect; a client disconnects and its request context is cancelled; Redis
stops answering and answers again; Redis comes back empty; the Redis client sends a command
twice. Each configuration says which it allows. In the frontend modules any answer may be
lost (only `LivePage` bounds how many, as it is about convergence), after the server has done
what was asked or before; sockets break at any time.

**Data abstractions.** A total is represented by the tally it is the sum of (the total of a
write-back is handed to `UpdateVotesInDB` beside the counts it belongs to), so that no arithmetic
over sets is needed. Titles, texts, times and percentages are left out. A message of the hub is the number of the result
it carries, or 0. A frontend module has one number or text for what it does not look into:
counts of a poll are one number in `LivePage`, a title is its two lengths in `PollForm`, a
password one that matches or not.

An operator introduced by "(Mutant of ...)" is not part of a specification. It is the
definition with a plausible bug, and substituting it makes the run find the property
violated; section 3 lists them.

## 3. What the runs check

| Run | Question | Properties | States |
|---|---|---|---|
| `VoteRedis` | normal deployment, with crashes and MongoDB errors | `VoteTypeOK`, `TallyCountsVotes`, `ReadYourVote`, `CopiesNotAhead`, `TallyNeverDrops`, `BallotSpec` | 125 000 |
| `VoteMemory` | neither store, with an owner's requests | `OneVotePerVoter`, `ReadYourVote`, `StatusOnlyByOwner` | 108 000 |
| `VoteFaults` | everything fails | `NoInventedVotes` | 488 000 |
| `VoteLive` | owner requests against votes and write-backs; does everything end | `PollTypeOK`, `AckedDeleteHolds`, `EveryRequestEnds`, `EveryWriteBackEnds` | 98 000 |
| `HubRooms` | rooms that come and go | `MembersCanReceive`, `OneLiveRoom` | 531 000 |
| `HubLive` | results and a status change on their way to a viewer | `HubTypeOK`, `NoSilentGap`, `OrderKept`, `ResultsGetThrough`, `StatusGetsThrough` | 120 000 |
| `VotePageTabs` | two tabs, two polls, late and lost answers | `VotePageTypeOK`, `NeverCrashes`, `OneVotePerBrowser`, `MarkMeansCounted`, `ThanksMeansCounted`, `SubmitEnds`, `LoadingEnds` | 222 000 |
| `LivePolling` | the results page with everything that goes wrong around it | `LivePageTypeOK`, `OneConnection`, `NothingAfterUnmount`, `SocketsEnd`, `Converges` | 413 000 |
| `WebApp` | two tabs that sign in, log out, reload, go back and forth | `WebAppTypeOK`, `SessionConsistent`, `OneAccountPerAddress`, `NothingStuck` | 1 169 000 |
| `OwnerPages` | an owner's form and list, and another tab | `DashboardTypeOK`, `ServerAgrees`, `DeletedStaysOff` | 1 257 000 |

`BallotSpec` is a refinement: `VoteService` implements `Ballot` with `counts <- rVotes` and
`voted <-` the voters of the casts counted. `StatusOnlyByOwner` and `TallyNeverDrops` are
action properties, and so is `NothingAfterUnmount`; `EveryRequestEnds`, `EveryWriteBackEnds`,
`ResultsGetThrough`, `StatusGetsThrough`, `SubmitEnds`, `LoadingEnds`, `SocketsEnd` and
`Converges` are liveness. `EveryRequestEnds` is about casts and requests for results; an owner's
PATCH may wait in `BroadcastPollStatus` (hub.go:205), and `StatusGetsThrough` says when it does
not wait for ever: as long as its room is not removed.

What `Converges` says is the reason why the results page works at all: messages are lost and
overtaken (five configurations below), and the 5 s interval repairs the page each time, also
when no socket ever opens. With the interval removed (`TickNever`) it fails.

Mutants (definition replaced, property that then fails): `CreatePoll` without counts
(`PollTypeOK`); `ReplacePoll` as an upsert (`AckedDeleteHolds`); `AddVote` with the wrong sign (`VoteTypeOK`); `SAdd` with its answer
ignored (`BallotSpec`); `HIncrBy` as a read and an `HSET` (`TallyCountsVotes`); `HGetAll`
answering the poll's counts (`ReadYourVote`) or writing back what it read (`TallyNeverDrops`);
`Accept` adding the vote again (`CopiesNotAhead`); the analogous ones of `MemVote`, `MemRead` and
`UpdateVotesInMemory` for `VoteMemory`; `SeedOption` with `HINCRBY` (`NoInventedVotes`) or
insisting on an answer (`EveryRequestEnds`); `FindForUpdate` waiting for a document
(`EveryWriteBackEnds`); `LookUpRoom` without `if !ok` (`HubTypeOK`); `Cleanup` leaving the room in the hub
(`OneLiveRoom`); `Deliver` keeping (`MembersCanReceive`) or skipping (`NoSilentGap`) slow viewers,
or waiting for viewers (`ResultsGetThrough`, `StatusGetsThrough`); `Put` in front (`OrderKept`).

Of the frontend: a fingerprint that is not made when there is none (`VotePageTypeOK`) or is not kept
(`OneVotePerBrowser`); `LoadFails` without an error (`NeverCrashes`) or without its `finally`
(`LoadingEnds`); `VoteFails` taken for "already voted" (`ThanksMeansCounted`) or without its
`finally` (`SubmitEnds`); `Submit` that marks before the answer (`MarkMeansCounted`); `Shown`
without the null check (`LivePageTypeOK`); `OnClose` that reconnects at once too
(`OneConnection`); `FetchSucceeds` without `isMountedRef` (`NothingAfterUnmount`); a cleanup that
leaves the socket open (`SocketsEnd`); no interval (`Converges`); `Visit` that pushes no entry
(`WebAppTypeOK`); `Logout` that keeps the user (`SessionConsistent`); `RegisterInserts`
with an index that is not unique (`OneAccountPerAddress`); `CheckSucceeds` that ignores an answer for an earlier token
(`NothingStuck`: the page would load for ever); `HandleAddOption` off by one
(`DashboardTypeOK`); `Unique` without `toLowerCase` (`ServerAgrees`); `Relabel` that adds a poll
that is missing (`DeletedStaysOff`).

### Where code and documentation disagree

Two runs expect a violation. Each checks one statement of a document or page, and TLC's
trace is a run of the code.

| Run | Statement | What happens |
|---|---|---|
| `DurableStale` | README.md:50 "ensuring zero data loss" | two write-backs overtake each other; MongoDB keeps the older counts, with no failure at all |
| `ThanksElsewhere` | VotePage.jsx:203 "Thank You! Your Vote is Recorded." | the browser goes back from a poll voted on to another one; `hasVoted` is still set, and that page thanks for a vote that was never cast |

Further configurations show more disagreements of this kind, and are there to be run by
hand. Each checks one statement of the code or its documents, quoted in the module where it is
defined, and TLC finds it violated.

Voting: `DoubleVote` (a voter counted in Redis votes again in memory while Redis is
unreachable), `OtherNetwork` (a voter whose address changes votes again), `Resent` (a resent
HINCRBY counts a vote twice), `MarkedLost` (SADD works, HINCRBY fails: the voter is turned away
and was never counted), `LateVote` (a vote that passed the check is counted after the owner was
told the poll is closed), `SeedOverwrites` (after Redis lost its data, a seeding overwrites
a new vote), `LostAnswer` (the vote is counted, its answer lost, and the page says it failed).

Polls: `StaleReopen` (a write-back read the poll before it was closed and puts the open status
back), `Undelete` (in memory, `SetPollStatus` brings back a deleted poll;
with two casts and `TotalMatchesVotes` for its invariant, an older total beside newer counts), `Duplicate` (the
answer to a creation is lost and the owner publishes twice), `OddTitle` (a title of two
characters and three UTF-16 units, or U+0085 as one of two options, passes the form only), `LateJump` (the answer to a creation
takes the owner away from the dashboard).

Hub: `InitialPanic` (the viewer leaves before the initial state is sent; the send to the closed
channel ends the server), `CleanupJoin` (the timer wakes up while a viewer that has the room is
being registered), `CleanupPanic` (it finds a room whose `CancelSub` is still nil), `RoomLeak` (a
room emptied by dropping slow viewers starts no timer), `InitialLost` (the request context of an
upgrade ends before the initial state is read), `PublishPanic` (`broadcastLocal` sends to a
channel closed meanwhile), `ViewersStale` (votes publish in another order than they read),
`FrameLost` (two messages in one frame are not parsed by the page).

Pages: `OtherPoll` (the answer for the poll shown before appears on the page of another),
`CountsBack` (an older answer replaces newer counts until the next poll of the server),
`LogoutOvertaken` (the answer to getMe arrives after a logout and sets the user again),
`OtherTab` (a tab sends the token another tab has stored, and acts as another user than it
shows), `TwoAccounts` (without the unique index, whose creation may fail unnoticed, two
registrations of one address succeed).

### Bounds, and why they are enough

- One poll id. Redis keys, documents, map entries and rooms of different polls are disjoint;
  the only thing shared, the locks, are held for one action each.
- Three casts by two voters for two options in `VoteRedis`: two casts of one voter and one of
  another, so that duplicates and independent votes overlap, and a results request that may
  seed. Lost updates and duplicates need two casts; the theorems of section 4 remove the bound.
- Two casts in `VoteMemory` and `VoteFaults`, since every property relates at most two casts
  and faults multiply the states (a wrong seeding needs a write-back of one vote, a loss of
  data, and two requests that seed); one cast, one results request and one owner request in
  `VoteLive`, where it matters that each ends whatever the others do.
- Two room objects and two viewers: a room, its successor, and timers of the first that meet
  the second. `InboxCap`, `SendCap` and `LocalCap` are 1 or 2 instead of 32, 64 and 10: full
  queues are reached by as many messages; their exact size is in no property. `MaxResults` is
  1 where rooms change and 3 where order matters. (The viewer count sent at each registration
  adds messages without a bound on results.)
- `timers` is not bounded by a guard: it grows by one for each viewer that leaves last.
- `VotePageTabs`: two tabs, two polls, two votes, two openings, so that a vote is tried again in
  the same tab or another and a page goes from poll to poll; one option, because what
  distinguishes options is that those of two polls differ.
- `LivePolling`: three sockets, so that a connection breaks in each of two effects; one GET
  request at a time keeps liveness within reach (answers out of order relative to messages still
  happen), one vote or status change, one failing request.
- `WebApp`: two tabs, two addresses, two passwords, two acts of users and two requests under
  way at once. Each of the overtakings needs one request and one act of the other tab.
- `OwnerPages`: up to three options of four texts, two of which differ in case only and one of
  which is a blank for Go (U+0085) and not for JavaScript, titles below and at the limit of three
  characters, one poll in memory, two requests at a time, three acts: going to the list and
  pressing two buttons, or one button here and one in another tab.
- Symmetry over casts, voters, options, viewers, rooms, tabs, addresses and passwords, which no
  definition tells apart; liveness is checked without it.
- `CHECK_DEADLOCK FALSE` throughout: when all requests have been made and have ended the
  model stops, as the server is then idle.

### Fairness

`VoteFairness`: a request that is under way takes its next step, and a write-back its next
command. Commands to Redis and MongoDB return or time out (PING has 500 ms, write-backs have
5 s, the rest the time-outs of the drivers), and Go schedules runnable goroutines. No client has to
send anything, and no fault has to come or to end.

`HubFairness`: each goroutine of a viewer and of a room that can go on does. A `select`
takes a ready case at random, so every case that stays ready is taken in the end (`Register`,
`Unregister`, `Deliver` and `StopRoom` have fairness of their own, rather than the loop as a
whole). Sleeping timers wake up; a write has a deadline of 10 s, after which the connection
counts as closed. A panic ends all of this (`Running`).

`VotePageFairness`: a `fetch` settles, with the server's answer or by failing. The server need
not answer and the voter need not do anything.

`LivePageFairness`: timers expire, requests are answered (all but `MaxFailures`), the browser
dispatches messages and close events. No socket has to open, none has to stay open, and what the
server has computed need not be sent: `Converges` must hold by polling alone.

## 4. What is proved

For any finite set of casts and any sets of reads, voters, options, users and owner
requests. `PollServiceProofs`:

- `PollTypeCorrect`: the type invariant, for any faults and both stores.
- `DeletionHolds` (`AckedDeleteHolds`, assuming MongoDB). The inductive invariant adds to the
  type that an acknowledged deletion leaves the poll in phase `deleted`; no step leads out of
  that phase, as `CreatePoll` needs phase `none` and `ReplacePoll` does not insert.
- `StatusIsOwners` (`StatusOnlyByOwner`, assuming polls in memory). A call that is about to
  write belongs to the owner; that is what `BeginCall` checked.

`VoteServiceProofs`, with three invariants, each inductive relative to the one before:

- `TypeInv`: the types, and that a cast under way has a voter and an option. Gives
  `VoteTypeCorrect`.
- `CountInv`: adds `Fresh` (a cast that has yet to be recorded is not in `counted`) and
  `NoInventedVotes`. `NoInventedVotes` alone is not inductive: that an increment is matched by
  a larger `Counts` needs `Fresh`. A step either moves a tally from one place to another, and
  `Counts` never goes down, or counts one cast. Gives `NoVotesInvented`, under all faults but
  resent commands, with which it is false.
- `RInv`, assuming `Reliable` (MongoDB and Redis in use, no faults other than crashes and
  MongoDB errors, so that no client cancels its request and nothing is sent again): adds that
  Redis answers, `Marking` (a cast that is counted or about to be
  has its voter in the set, and no two such casts have the same voter), and `Counting` (the
  hash is exactly `Counts`, the fallback is not used, and what a request is about to seed is
  zero everywhere, so that seeding writes nothing). `Marking` spans the time between SADD and
  HINCRBY; that is why two casts of one voter cannot both get to the increment. `Counting`
  rests on the write-backs being behind the hash: whoever finds the hash empty holds a poll
  without votes. Gives `OneVoteEach`, `CountsAreExact`, `CopiesBehind`, `CountsNeverDrop` and,
  with the step-by-step mapping of `BallotStep`, the refinement `ImplementsBallot`.

and four more beside them:

- `Read`, on top of `RInv`: a cast that was counted never seeds the hash, and the counts it has
  read contain its option. The HGETALL of a cast comes after its HINCRBY, and counts only
  grow. Gives `VotersSeeTheirVote` (`ReadYourVote`).
- `MemOnly`, assuming that the server has no Redis: no request is between two commands to Redis, a
  cast that was counted finds its option in `mVotes`. Gives `VotersSeeTheirVoteInMemory`
  (`ReadYourVote` again) under all faults: a crash empties the map, and ends every request with it.
- `MemVoters`: the voters of the casts counted are in `mVoters`, and no two of them are the same.
  Gives `OneVoteEachInMemory` (`OneVotePerVoter`), assuming no crash, since a process that starts
  again has forgotten who voted.
- `Reporting`: a cast under way has a poll that was created, and its write-back has not begun.
  With `CountInv` it shows that every step of `VoteService` is a step of `PollService` or leaves
  its variables alone (`PollSide`, one case for each action). What `PollService` assumes of its
  caller in `Report`, that the tally is one so many votes can give and that the poll was created
  (it may be deleted by now), is what `Accept` does. So `VoteService` implements `PollSpec`
  (`ImplementsPoll`, all faults but resent commands), and the theorems about `PollService` hold
  with votes going on: `DeletionHoldsWithVotes` (`AckedDeleteHolds`) and `StatusIsOwnersWithVotes` (`StatusOnlyByOwner`).

`VotePageProofs`, for any sets of tabs, polls, texts and fingerprints and any bounds:

- `VotePageTypeCorrect` (`VotePageTypeOK`).
- `NeverCrashesAlways` (`NeverCrashes`), by way of `SanePages`: a page that is not loading has a
  poll or an error. `finally` ends the loading of a page in the same step in which the poll or
  the error is set, and a poll once loaded is not taken away.
- `OneVoteOfABrowser` (`OneVotePerBrowser`). Two invariants carry it: `PrintsAgree` (all votes
  sent have the fingerprint that is stored, because it is read or made before the request is
  sent and never changed) and `VotesSent` (a vote that is counted was sent).
- `MarksAreTrue` (`MarkMeansCounted`): a mark is written only behind the await of a vote, and
  a vote that was counted stays so.
- `ThanksAreTrue` (`ThanksMeansCounted`). `InstancesKnown` and `AboutOnePoll` say that each
  mounting has a number of its own, and that the votes of a mounting whose address never
  changed are about the poll it shows; without the numbers an answer to a page that is gone
  could not be told from one to its successor in the same tab.

These are conjuncts of one inductive invariant, `VotePageInv`. The proof that a step preserves
it has one lemma for each action.

`WebAppProofs`, for any sets of tabs, addresses, passwords and poll ids and any bounds. The
inductive invariant `WebAppInv` has a part for the server and one for each tab:

- `AuthInv`: types; `RequestsSound` (a token that is sent was made, and an answer is a token with
  its account); `InMemoryAtOnce` (in memory no registration is between two commands). Gives
  `OneAccountAlways` (`OneAccountPerAddress`).
- `Served`: `NothingStuck` for one tab. It needs that a form that waits is on the screen (`Forms`
  in `TabsOK`), because that is why the way to the dashboard after a sign-in ends it: React
  forgets the state of a component that is rendered at another place. Gives `NothingEverStuck`.
- `Consistent`: `SessionConsistent` for one tab. It is not inductive without what a check is
  about: unless the session was overtaken, a check that is due will send the token of the tab
  (which is that of `localStorage`), and one under way carries it. Gives `SessionsAgree`.

`WebAppTypeCorrect` is its type part. A step is about one tab; `TabKept` shows once and for all
that the others keep what holds of them.

`HubProofs`, for any sets of rooms, clients and notices, any capacities and both ways of results.
`HubInv` joins `HubTypeOK` (`HubTypeCorrect`) and the three invariants, each of which needs
something more:

- `LoopNeverPanics` (`MembersCanReceive`) needs `Newcomers`: a connection that is still to be
  registered is in no room and its channel is open, so that registering it is safe.
- `ViewersTogether` (`OneLiveRoom`) needs `FreshRooms`: a room that was not created has not been
  cancelled. How many timers sleep does not matter, as each acts on the room that the hub has.
- `ResultsHandedOut` (`NoSilentGap`) needs that no client is in two rooms, which
  `MembersCanReceive` says.

Most steps touch none of the variables that these look at (`inView`); for them only the types
remain to be shown (`OutOfView`).

`ResultsInOrder` (`OrderKept`) assumes that results come through Redis (`Via \subseteq {"redis"}`).
Without Redis it is false: every vote request sends to the local channels itself, and two of them
may do so in different orders; and with both in use nothing orders one against the other. Its
invariant `OrderInv` adds to `HubInv`, for every room, that what the loop took last, the
inbox, what the forwarder holds and its subscription are, in this order, older and newer
results (`WayOrder`), and all of them older than the next to be published; that the local
way has none; and for every viewer that its queue is in order, above what it has got last and not
above what it was handed. The lemmas on `WayOrder` are about four sequences and say what
each step along the way does to them: publish, take, put, take out, and the notices without a
number that come between.

`LivePageProofs`, for any set of polls and any number of sockets, requests, failures and votes:

- `LivePageTypeCorrect` (`LivePageTypeOK`). `VotesFit` is the strengthening: a poll has no more
  votes than there were acts.
- `OneConnectionOnly` (`OneConnection`), from `WaysInv`: each effect has at most one *way* to a
  connection, that is a socket that is not closed or a timer to open the next (`OneWay`); timers
  belong to sockets that are closed; no socket is of an effect to come; and while the first
  poll is shown, `wsRef` and `timerRef` refer to the socket and the timer there are.
  `OneConnection` alone is not inductive: that `OnClose` does not set a timer beside a second
  socket needs the way to be one.
- `OneWayPerEffect` (`OneWay`) is the part of it that remains true when the page has been given
  other polls: the socket or timer that a change of the poll may leave behind does not multiply.
- `NothingHappensAfterUnmount` (`NothingAfterUnmount`), step by step from `mounted` being false.

`DashboardProofs`, for any titles, texts and numbers of polls, options and requests. The inductive
invariant `DashboardInv` consists of

- `FormInv`: the types; `GoodRequests` (a request on its way has from two to `MaxOptions` options,
  no two alike, and a title that is long enough as the form counts; it is refused only if the
  bindings refuse it); and `MadeByRequest` (a poll was made by a request of its own, so there are
  no more polls than requests: a counting argument over an injection). Gives
  `FormAndServerAgree` (`ServerAgrees`), with the lemmas on `NonBlank` that say what dropping
  empty options leaves, in the form and again at the server (`Kept`): all of them, in their order,
  where no text is blank.
- `CallsFit` (requests are about polls that were created, and only those of the buttons write) and `ListFirst` (a dashboard asks for the
  list once, and there are no buttons before there is a list). Gives `DashboardTypeCorrect` and
  `DeletedStaysOffList` (`DeletedStaysOff`). `DeletedStaysOff` needs `ListFirst`: an answer with a
  list replaces what is shown, so none may be under way once a deletion was confirmed.

Assumptions on constants (`PollAssumption`, `VoteAssumption`, `HubAssumption`,
`VotePageAssumption`, `NoneAssumption`, `LivePageAssumption`, `WebAppAssumption`,
`UrlsAssumption`, `PollFormAssumption`, `NoFormAssumption`, `DashboardAssumption`,
`NoCallAssumption` and those of `AuthService`) are evaluated by TLC in every run. They say no
more than that bounds and capacities are numbers, that addresses lead to views, and that None is
none of the values it is used beside. What a theorem assumes beyond them is in its statement,
and says which deployment it is about: MongoDB or not (`UseMongo`), Redis or not (`HasRedis`), the
faults it excludes, Redis as the way of results. The disagreements of section 3 show that
these are needed: `Undelete`, `StaleReopen`, `Resent` and `DoubleVote` are what happens
without them.

Every invariant and action property of a passing run is stated by a theorem. *Only
model-checked* are the liveness properties: `EveryRequestEnds`, `EveryWriteBackEnds`,
`ResultsGetThrough`, `StatusGetsThrough`, `SubmitEnds`, `LoadingEnds`, `SocketsEnd` and
`Converges`. They rest on
fairness, hence on ENABLED, which the prover does not support.

## 5. What is not modelled

- Several server processes on one Redis. They would share `rVoters`, `rVotes` and the poll,
  as requests of one process do in the model, and have fallback maps of their own. `LivePage`
  takes from such a set-up that a status notice may not reach a viewer of another process.
- A change of storage mode of the polls over a restart: `UseMongo` is a constant, while Redis
  may be found or not at each start.
- The order of results without Redis: `OrderKept` is checked and proved for the Redis way, and
  does not hold with `Via = {"local"}`, where calls of `broadcastLocal` overlap.
- In `LivePage` a `new WebSocket` that throws (usePollLiveResults.js:86) is one that breaks at
  once; an address without a poll id, for which no socket is opened (line 36), is left out.
- In `Dashboard` another tab reads and writes in one step; the halves of this tab's requests
  (`ServeCall`, `WriteCall`) may come before and after it.
- Pings and read deadlines of a viewer: a disconnection stands for them.
- Hashing of passwords and signing of tokens, which are library code; that a stored token is
  not of this server.
- Effects that the development build of React runs twice (`StrictMode` in `main.jsx`).
- Percentages and their rounding, viewer counts as the page shows them, the clipboard, the QR
  code, confetti and styling: they change no state that another part reads.
- CORS, configuration and the pages' scaffold have no state.

## 6. Plan

1. *Done:* `PollService`, `VoteService`, `Ballot`, `Hub`; the pages in `VotePage`, `LivePage`,
   `AuthService` with `WebApp`, `PollForm` with `Dashboard`.
2. *Done:* the proofs about all of them; every invariant and action property that is checked.
3. `VotePage` against an abstract specification of its own (`Ballot` as its external server), so
   that the assumption it makes of the backend becomes a refinement.
4. `LivePoll`: `VoteService` with `Hub` for results that carry counts, if its states allow.
