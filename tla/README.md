# Pheme in TLA+

Pheme is an end-to-end encrypted messenger with broadcast channels: a Go server
(`api/`), a web client (`web/`), a mobile client, and a Rust crate over OpenMLS
(`crates/pheme-mls`) that both clients use. Hosts federate: a conversation has a
hub and mirrors, a channel an origin and mirrors. The server cannot read
conversations; what it must get right is that their members stay on *one*
history, that nothing accepted is lost, and that who is out stays out.

Modules live in this directory. `PROJECT.json` maps each definition to the
source lines it models and lists the runs, the mutants, the hazards, the
findings and the theorems. Run one configuration with, for example,
`tlc -config StoreFaultFree.cfg MCMLSCommitStore`; check the proofs of one module
with, for example, `tlapm MLSCommitStoreProofs.tla`.

Paths are relative to the repository; `store`, `chat`, `channel`, ... stand for
`api/internal/store`, `api/internal/chat`, ..., and `mls.ts` for
`web/src/lib/mls.ts`.

## 1. Inventory

| component | code | state | operations | hard because |
|---|---|---|---|---|
| MLS group state | `store/*_keypackages.go`, `mlschain`, `chat/mlsgroup.go` | group id, epoch, chain head, retired ids, control messages | commit (compare-and-set, inserts, rollback), reset, GroupInfo | separate database calls interleave, fail, or are never made |
| conversation federation | `chat/convfed.go`, `federation` | the hub's and each mirror's copy, calls under way | post, forward, relay, verify, apply, provision, reset | calls between hosts are reordered and lost, never retried; check and apply are two steps |
| client group management | `mls.ts`, `roster.ts`, the crate | ratchets, staged Commits, the settle, timers | establish, catch up, join, announce, admit, prune, publish GroupInfo, retire | awaits between read and use, reloads, lost answers |
| KeyPackages and devices | `chat/keypackages.go`, `store` | single-use and last-resort packages, tombstones | publish, claim, list, terminate | two tabs, many claimers, a termination of several writes |
| key backup | `chat/keypackages.go` | snapshot, archived versions, tail | append, upload, restore | seven steps, each may fail, bodies arrive meanwhile |
| conversations | `chat/chat.go`, `messages.go`, `list.go`, `attachments.go` | rows, members, numbers, receipts, blobs | create, add, remove, roles, post, report, clear, delete | two hosts create at once; deletes of many steps |
| calls | `calls`, `chat/calls.go` | mailboxes, answer locks | signal, ring, relay, accept | locks and mailboxes expire under their users |
| channels | `channel/app.go`, `members.go`, `comments.go` | members, subscriptions, keys, comments | join, approve, block, leave, delete | a member's row and devices are written apart |
| channel posts | `channel/ingest.go`, `message`, `broker`, `idempotency` | keys seen, queue, dead letters, stored posts | ingest, consume, push, fan out | retries, redelivery, a consumer's death |
| accounts | `channel/auth_handler.go`, `admin_*.go`, `otp`, `auth` | pending sign-ups, invitations, accounts, revocations | register, verify, sign in, refresh, reset, terminate | spend-then-create, compare-then-count, persist-then-cache |
| profiles | `channel/profile.go`, `channel_avatar.go` | names, aliases, avatars | edit, upload, remove | uniqueness by pre-check and index; blob and row apart |
| push | `chat/pushqueue.go`, `push`, `store` (devices) | queue and budget, addresses, settings | register, offer, group, build, route, prune | settings and addresses change while a push is on its way |
| live events | `live` | streams, one shared subscription | connect, deliver, leave | closing while sending; first and last stream |
| hosts | `nodelist`, `federation/signing.go` | signed host list, nonces | sign, verify | clocks differ, requests are replayed |

Not modelled: see section 6.

A device calls its host's HTTP API. `postMLSCommit` checks the epoch inside the
Commit, then calls the store (on a hub) or forwards to the hub (on a mirror). A
hub relays what it stored to each host that has a member. Devices hear of news on
the live stream or by a push and fetch what they miss. Conversation, channel and
account state is in MongoDB; server processes share nothing else but Redis
(calls, codes, rate limits, nonces, idempotency keys, live events) and
the broker. An in-process store implements the same interface for a single host
without MongoDB.

## 2. Modules

| module | models | role |
|---|---|---|
| `MLSChain` | `mlschain.Link` | a link is the sequence of what was linked: as strong as a hash without collisions |
| `MLSGroupLog` | the in-memory store | the abstract specification: a commit or a reset is one step |
| `MLSCommitStore` | the MongoDB store | one action per database call; implements `MLSGroupLog` when no call fails |
| `MLSCommitStoreProofs` | | theorems about `MLSCommitStore` |
| `ConvFederation` | hub, mirrors, network | built on the atomic store |
| `MLSClient` | devices of one conversation | built on the atomic store |
| `AccountStore` | the account tables of both stores | functions on tables; used by `SignUp` |
| `SignUp` | registration, invitations | one action per store or Redis call |
| `Sessions` | sign-in to revocation, of one account | one action per database call, with restarts |
| `ChannelStore`, `Channels` | a channel and the people around it | tables as functions; one action per store call |
| `ChannelPosts` | ingest, queue, dispatcher, peer | one action per call, with liveness |
| `ConversationStore`, `Conversations` | conversations on two hosts | tables as functions; one action per call |
| `KeyPackages`, `KeyBackup`, `Calls`, `PushQueue`, `PushAddresses`, `PushPayload`, `LiveBus`, `Paging`, `Hosts`, `Profiles` | one part each | put together by `MCParts` |
| `MLSClientProofs`, `ChannelsProofs`, `ConversationsProofs` | | theorems about the module of that name |
| `DeliveryProofs` | | theorems about `ConvFederation`, `ChannelPosts` |
| `AccountsProofs` | | theorems about `SignUp`, `Sessions` |
| `NotifyProofs` | | theorems about `Calls`, `LiveBus`, `PushQueue`, `PushAddresses`, `PushPayload`, `Paging` |
| `DirectoryProofs` | | theorems about `KeyPackages`, `Hosts`, `Profiles`, `KeyBackup` |
| `MC...` | | TLC instances; they evaluate the assumptions of the parts |

Every module's head comment names the code it models and draws the steps of its
requests. Conventions they share:

- **One action per call.** A handler is a program counter (`pc`) that walks from
  one store, Redis or network call to the next; what the code does between two
  calls is part of the action. A request keeps in its record what it has read,
  so a stale value is stale in the model too.
- **Both stores.** Where the MongoDB and the in-process store differ, the module
  has `MongoX` and `MemoryX` and a variable, chosen in `Init`, that says which
  one is in use. A MongoDB call is atomic; a sequence of them is not; a method of
  the in-process store is atomic, since it holds the lock throughout.
- **Faults are counted.** `Fault` in a guard takes one of `MaxFaults`: a store
  call that errs, or a request that dies where it stands.
- **Ghosts.** Variables marked "ghost" record what happened for the properties
  and are read by no guard.
- **Focus.** `MCParts`, `MCDelivery` and `MCAccounts` check several components
  that share no variable in one run. `focus`, chosen in `Init`, says which one
  moves; the others stay in their initial states. TLC then explores the sum of
  the state spaces, which loses nothing: the product adds only interleavings of
  steps that cannot see each other.

### MLSCommitStore
`group`, `epoch`, `chain`, `prior` are the fields of the conversation document
(`mlsGroupId`, `mlsEpoch`, `mlsChainHash`, `mlsPriorGroupIds`), `log` the control
messages in `chatMessages`. Each member of `Requests` is one call of
`CommitMLSGroup`: `pc` is the database call it makes next, `prev` the head it
read. Actions follow the code in order: `ReadHead` (or `ReadHeadFails`, whose
error the code drops), `CompareAndSet` or `Conflict`, `InsertWelcome`,
`InsertCommit`, `InsertFails`, `Rollback`; `CompareAndSetUnanswered` and
`InsertUnanswered` are writes that were applied and reported as failed; `Cancel` ends
a request anywhere, as a context that is done does. Each member of `Resets` is a client that found a group
beyond use (`Notice`) and a call of `ResetMLSGroup` (`ReadGroup`, `Retire`).
`Establish` and `Advance` are the callers: a client that advances is in the
group, so it read the Commit of the epoch it names. On a mirror (`IsMirror`),
`Follow` is the relayed Commit, which is checked against the head and not
against the log. `Failures` says what may go wrong.

### ConvFederation
`conv[h]` is host h's copy. A post goes from `sent` through `stored` (in the
hub's log, not yet relayed), `answered` and `checked` (on a mirror) to what the
device is told. `net` holds relays under way, `checked` the relayed Commits
whose link was verified and that are not applied yet: `applyRelayedCommit` and
`ForwardCommit` verify in one store call and apply in another. Adding a member
is `ReadConversation`, `AddMemberRow`, `ProvisionMirror`, `RecordMembership`,
each a call of its own. With `"loss"`, a call between hosts fails (`LoseRelay`,
`LosePost`, `LoseProvision`), before or after it did its work.

### MLSClient
A group's state is the sequence of Commits that led to it (`held[d][g].hist`);
`made[c]` says what Commit c was built on, by whom, and which leaves it adds and
drops. `Applies` states when OpenMLS merges a Commit: it was built on exactly
this state, it is not one's own, and one's leaf is still in the tree. A device's
`pc` walks through `settleGroup`, `tryExternalJoin`, `reconcileDevices` and the
answer to a Commit; everything the code does between two awaits that matter is
one action. `Locked(d)` is `Session.exclusive` held over the round trip of a
Commit. Beside the settle run `Live` (the event stream), `Export`, `Label`,
`CheckInfo`, `WriteInfo` (`publishGroupInfo` on the client and `SetMLSGroupInfo`
on the server), and `Recheck`, `Retire` (the wedge timer). OpenMLS is external:
it is modelled from what the crate and the client rely on. Not in this model:
changing membership, non-admins who may not prune, calls in progress,
KeyPackages whose credential is not the device's, an admission running *beside* a
settle on one device, and a request that reaches the server after its device gave
up on it (one is handled before that, or never).

### SignUp and Sessions
`SignUp` has the pending sign-ups (`signups`, with the attempt counter and the
expiry Redis keeps), the invitations and the accounts. `verify` compares the code,
counts a wrong one in two Redis calls, spends the invitation, creates the account
and hands the invitation back if that fails. `Sessions` is one account: tokens
with their issue second and session id, `stored` (the revocations in MongoDB),
`cached` (the copy every request is checked against), a `Restart` that ends the
requests in flight and loads the copy again. Time is whole seconds, as in a
token's `iat`. Changes of the account overlap freely; the ghost `crossed` keeps the
rows that two of them were about to write at once, `ended` how far each completed
change reached. In `SignUp`, `LostAnswers` lets a database call succeed and its answer
be lost.

### Channels and ChannelPosts
`Channels` writes a member's row and the member's device subscriptions in separate
steps, as `members.go` does, and deletes table by table. A join may name anybody's
device, since nobody looks whose it is; `lent` keeps who named whose. `ChannelPosts` follows a
post from the API call through the idempotency key, the durable queue, the
consumer that stores, pushes and fans it out, to the peer's mirror; a consumer
that dies gives its task back to the broker, a task that cannot be stored is
dead-lettered.

### Conversations
Two hosts with a table each. A direct chat is created by find, insert, members,
provision, and undone if the other host cannot be reached; the loser of the
unique index reads the winner. A post takes its number and is stored in two steps;
a receipt is written and forwarded; a delete removes blobs, records and rows one
after another and then tells the other host. Blobs and records that cannot be deleted
do not stop it (`BlobsFail`, `RecordsFail`); any other call that fails does.

### The parts
`KeyPackages`: tabs, claimers, a termination and a co-member's listing of one
user's devices. `KeyBackup`: one device's bodies, the tail and the uploads; the device reads with or
without the code, restores all, part or nothing, and is armed without a restore too; a
stored backup that cannot be read is none (`GetKeyBackupFails`).
`Calls`: mailboxes and answer locks per host, which may expire at any moment.
`PushQueue`: offers and workers around a channel and an atomic counter.
`PushAddresses`: who holds a handset's address, against terminations, whose revocation
of the login may fail, and fan-outs.
`PushPayload`: what a push says, its size in units of the payload's budget (a name
that JSON escapes takes several). `LiveBus`: streams, the lock and the shared
subscription. `Paging`: pages of a transcript cut while rows appear out of order.
`Hosts`: two clocks, a host list, signed requests delivered repeatedly.
`Profiles`: edits, names up to case, avatars as blobs.

## 3. Runs

Passing runs. Each property has a mutant, a plausible bug in a mapped definition,
that breaks it under the run's own configuration.

| run | instance | what it shows |
|---|---|---|
| `store_fault_free` | 3 commits, 2 resets, 2 groups, no failures | `ChainLinks`, `NoGhostWelcome`; `ImplementsGroupLog`: the database calls behave as one step of the in-memory store |
| `store_failing` | 3 commits, 1 reset, 2 groups, on a mirror, reads and inserts err, answers are lost, requests are cut off | what a sender was told: `OneCommitPerEpoch` and `AcceptedNeverUndone` |
| `fed_failing` | hub, 1 mirror, 2 Commits, 1 message, 2 groups, loss, and resets on both hosts | `MirrorFollowsHub`; `EveryPostAnswered` (liveness) |
| `answers` | hub, 2 mirrors (1 added later), 2 Commits, 2 groups; or 2 API calls (1 of which cannot be stored), 1 key, 2 consumers, 1 fault | a device is told the truth: `RefusedIsNotHistory`, `AcceptedIsApplied`; so is an API caller: `NoPostLost`, `OnePostPerKey`, `DuplicatesOnlyAfterDeath`, `EveryPostEnds` (liveness) |
| `client_races` | 3 devices (founder, late device, one asleep and terminable), 3 Commits, 2 groups | `UnreadableIsNoticed`, with a premature reset possible |
| `client_failing` | 3 devices, 4 Commits, lost requests and answers, reloads | `LogApplies`, `NoFork`, `KeysKept` |
| `accounts` | 2 addresses, 1 invitation, 2 requests, 1 fault; or 2 sessions, 2 concurrent requests, 3 seconds, 2 changes, 1 restart | `InvitesBalance`, `AttemptsAreBounded`, `StoresAgree`; `EndedSessionsStayEnded` |
| `channels` | owner and user, 2 concurrent requests of 4, 1 fault, either store | `NobodyHearsUnadmitted`, `OutsidersHearNothing`, `NothingOldSurvivesDelete` |
| `conversations` | 2 hosts, 3 users, 2 concurrent requests of 3, 1 fault, either store | `OneChatPerPair`, `AnsweredIsMember`, `TicksAreTrue`, `NothingOldSurvivesDelete` |
| `parts` | ten parts, one at a time | `ClaimsConsumeSinglesOnce`, `TerminationIsSeen`, `BackedUpIsKept`, `OneDeviceAnswers`, `SignalsReadInOrder`, `BudgetIsExact`, `RevokedGetsNoCiphertext`, `PushSaysNoMore`, `NoSendOnClosed`, `WalkMissesNothing`, `HandledOnce`, `ProfileIsItsOwn` |

Runs that are expected to find a violation; each is a `finding` with the quoted
line it contradicts:

| run | what TLC finds |
|---|---|
| `store_chain_aba` | the head is read before the compare-and-set, which pins group and epoch only; a rollback in between returns the epoch and not the head, and the Commit is linked to one that exists nowhere, which every mirror refuses |
| `fed_reorder` | with nothing lost, a relay overtakes the answer to the Commit before it; the mirror refuses it, it is never sent again, and the mirror stays behind |

### Bounds
All bounds are constants. `Requests`, `Resets`, `Commits`, `Messages`,
`MaxRequests` bound how often something is done at all; the sets are as large as
the interference a property speaks about needs. Three commit requests are the
smallest number in which two race and a third builds on the winner or finds what
a rollback left, two groups a retired one and its successor. For the federation
two Commits give a reordering, and a mirror beside the one that posts gives a
relay. For the client, the founder, a device that joins and a member that neither
founds nor joins are the three roles; three Commits are a founding, a join and a
change that races with it, four leave one to build on the result. `Attempts = 2`
lets one retry happen and run out. `MaxPriorGroups = 2` is the bounded list of
retired groups with every group of the instance in it. `Publishers`, `Impatient`,
`Terminable`, `Awake` pick the devices that do something at all; no property
mentions them.

For handlers of several steps, two concurrent requests are the smallest race,
and one fault in each behaviour leaves every step as the one that fails; the
`MaxRequests` of three or four lets the sequences that matter run their course: join,
approve, block and leave, or create, post, report and delete. `MaxAttempts = 1`
and two requests let the counter be overrun by one; `TTL = 1` and three seconds
let a revocation expire while something it ended could come back. In `Parts.cfg`
the sizes are those at which the limit is met: two slots and four bytes for four
jobs of one and two bytes, two workers; one archived version and three uploads over two instants;
pages of two for three posts, two of which can share a millisecond; a skew of
one with clocks one apart, over three ticks, is past twice the skew; names that
take nothing, one or three units of a payload of nine, ciphertexts at, below and
above their own limit. Deadlock is not checked: requests are finitely many, and an
instance that has used them up stops. Symmetry is over names that no definition
tells apart (requests, Commits, groups, ids) and is not used with liveness.

### Fairness
`ConvFederation!Fairness` is weak fairness of each handler: one that was started
runs on, a relay under way arrives or is lost, and nobody is forced to post, to
reset or to fail. It is what the Go scheduler and HTTP with timeouts give.
`ChannelPosts!Fairness` is weak fairness of the broker's delivery and of each
step of a consumer: the worker loops as long as the process lives, and the broker
hands a task that came back to the next consumer. `EveryPostAnswered`,
`MirrorsConverge` and `EveryPostEnds` use them. In `MCDelivery` a queue at rest
has no fair action enabled. That a device gets into a group depends on people
opening the app: no fairness of the code's gives it, and it is not stated.

## 4. Proofs

Checked by TLAPS for every value of the constants that the named assumption of
each module (`StoreAssumption`, `CallsAssumption`, ...) allows: any number of
requests, hosts, groups, devices, any failures the model has. The assumptions say
what kind of value a constant is, that `None` is no id, that bounds are natural
numbers; TLC evaluates each on the constants of a run. A theorem that needs more
says so in its `ASSUME`, and section 5 has what happens without it. Every
inductive invariant was checked with TLC before it was proved.

**`MLSCommitStoreProofs`**
- `TypeCorrect`: `TypeOK`.
- `OneHistory`: `OneCommitPerEpoch`, about the Commits whose senders were told they are
  in; of the log at large it is false (section 5, *Lost insert*). By itself it is not inductive: the log says
  nothing of a request that has moved the epoch and not inserted its Commit. The
  invariant `IInv` speaks of *claims*, requests whose compare-and-set landed and
  that were not rolled back: two claims on one epoch of one group are the same
  (`ClaimsUnique`), the current group's epoch is above every claim on it
  (`ClaimsBelow`), a request that establishes has an id nobody else uses
  (`Freshness`), and each Commit in the log is the one its claim built
  (`LogOrigin`). A rollback gives up exactly the topmost claim.
- `NothingUndone`: `AcceptedNeverUndone`, from the same invariant.
- `ChainIsTheLogs`: `ChainLinks`, on a hub and with no failing call. `FInv` adds
  that a request about to compare-and-set against the current epoch has the
  current head (`Heads`), which is exactly what a rollback breaks in
  `store_chain_aba`; that each claim's parent is logged (`Parents`) and that the
  head belongs to the topmost claim (`ChainHead`).
- `Refinement`: `ImplementsGroupLog`, under the same conditions. The mapping
  shows the log with the messages of the claims in flight (`Promised`), and no
  chain while there is no group, since the reset leaves the old head in place.
  `CompareAndSet` is the abstract `Commit`, `Retire` the abstract `Reset`, the
  inserts are stutters.

**`DeliveryProofs`, hub and mirrors**
- `FederationTypes`: `TypeOK`.
- `NoMirrorForks`: `MirrorFollowsHub`, with any losses and resets. A mirror
  recomputes the link it stores from its own head, one step after it compared it
  with the hub's. The invariant says that the hub's log is one chain (`OneInv`,
  `LinkInv`, `HeadInv`), that what travels and what the hub answered is in it
  (`TravelInv`, `AnswerInv`), and that ids are fresh (`FreshInv`): then the group
  and the epoch of a mirror determine its head, and the compare-and-set pins
  those two.

- `RefusalsAreTrue`, `AcceptancesAreTrue`: `RefusedIsNotHistory` and
  `AcceptedIsApplied`, while calls between hosts arrive and nobody resets
  (`Failures = {}`, `MayReset = {}`). That the hub's answer still fits the mirror
  when it arrives is not plain: relays and other answers move the mirror
  meanwhile. `AInv` says that they cannot move it from where the accepted Commit
  was built (`FitsInv`), since the one Commit of the hub's that fits there is this
  one and it is not relayed to the mirror it came from (`NoEchoInv`).

**`MLSCommitStoreProofs`, further**
- `EveryWelcomeHasItsCommit`: `NoGhostWelcome` while nothing fails but head reads;
  the host may be a mirror. `WelcomesBacked` adds that
  nobody has given an epoch up.
- `NoWayBack`: the action property `RetiredStaysRetired`, whatever fails (TLC finds
  it true with `StoreFailing` too; no run lists it). Only a founding Commit names
  another group; `PriorInv` says that one about to land names a group that was
  never retired, because `Freshness` makes its id its own.

**`MLSClientProofs`**, for any number of devices, groups, Commits and attempts. Four
theorems hold with lost requests, lost answers and reloads, as long as a founder
hears the answer to its first Commit (`"founding" \notin Failures`).
- `EveryCommitApplies`, `NoDeviceForks`: `LogApplies` and `NoFork`. Neither says where
  the next state comes from. `ClientInv` adds that what a Commit was staged on, the
  GroupInfo the server keeps, the one on its way to it and the one a join was fetched
  with are all beginnings of the log (`JobOf`, `InfoInv`, `PubOf`, `SeenOf`); that
  the device holds what its Commit was built on as long as it holds the lock; and
  that a group being founded is its founder's alone. A Commit whose declared epoch is
  its real one and the server's was then built on all of the log.
- `NoGroupIsLost`: the action property `KeysKept`, from the same invariant: what a
  refusal or a silence makes a device drop is half-joined, or a group of its own
  that never was.
- `ClientTyped`: `TypeOK`. `TypedInv` says that attempts are counted before a Commit
  is built, so that one under way leaves room for its refusal.
- `WhoCannotReadIsBehind`: `UnreadableIsNoticed`, while nothing is lost or reloaded
  (`Failures = {}`). `ReadInv` adds who throws out whom: a Commit drops terminated
  devices and, if it is an external join, its builder's old leaf (`DropInv`); a
  device holds the leaf of the last such Commit of its own that the log has, and is
  half-joined only while it waits for an answer (`HeldSince`).

**`AccountsProofs`, sign-up**
- `StoresDecideAlike`: `StoresAgree`, in every reachable table: MongoDB's filter in
  one update and the in-process store's check under its lock.
- `GuessesAreBounded`: `AttemptsAreBounded`. `Counted` relates the ghost to the
  counter in Redis: a wrong code was counted, or its request is on the way to
  count it, or has died.
- `SpentOnce`: `InvitesBalance`, unless an insert that succeeded is reported as
  failed (`~LostAnswers`). `Balance` follows an invitation from hand to hand: what
  a request holds is spent in its name (`HeldIsSpent`), an account's invitation is
  spent in the account's (`Vouched`), and nothing spent is nobody's (`Owned`).

**`AccountsProofs`, sessions**
- `EndedForGood`: `EndedSessionsStayEnded`, however changes overlap. While the process
  runs, its copy never moves back (`HereInv`). The cutoff's row is overwritten whatever
  it holds; that it does not move back for a row no two changes were about to write at
  once is because whoever writes it chose its second after the last write
  (`RequestsInv`, `OneEach`). What a change has ended is then refused by the row and by
  the copy, or has expired (`EndedInv`), which is why a restart, which loads rows only,
  refuses it still. Without the exception it is false (section 5).

**`ChannelsProofs`**, for any number of users, messages and requests, on either
store. `Types` says which calls go with which request; `StepsAre` reduces every
action to what it does to the members, the devices and the requests.
- `AdmittedOnly`: `NobodyHearsUnadmitted`, whatever overlaps or fails. The status a
  request carries from the membership to the devices is one its user has had
  (`AdmittedInv`); a device somebody else named is on by way of whoever named it.
- `SilentOutsiders`: `OutsidersHearNothing`. Between two calls of a moderation the
  devices may still be on; who is not disturbed (nobody else has named
  their device either) has one request about them (`OneEach`), and it is on its way to the devices (`QuietInv`) with a status the
  membership has (`Backed`). A delete takes a user's devices no later than the
  membership (`DevicesFirst`), on what is left of its list of tables.
- `NothingLeftBehind`: `NothingOldSurvivesDelete`, with any deletes at once and any
  of them failing half way. Each delete under way takes a row that is not late no
  later than what the row hangs off (`ParentLast`), also when other deletes go on
  taking rows. MongoDB finds deliveries through the ids of their messages, so a
  delivery must not outlive its message (`Stored`, `DeliveriesFirst`), and a delete
  of messages is on its way to the channel (`ChannelLast`), which is what makes a
  delivery written meanwhile late.

**`DeliveryProofs`, channel messages**
- `KeyQueuesOnce`: `OnePostPerKey`. Whoever passed the check holds the key alone
  (`KeyIsHeld`).
- `AcceptedIsKept`: `NoPostLost`; `AtMostOncePerDeath`: `DuplicatesOnlyAfterDeath`.
  A post is in the queue once or in one consumer's hands (`OnePlace`), and each
  place says how far it has come (`Progress`): nothing is stored, pushed or
  relayed more often than its consumers died, plus one.

**`NotifyProofs`**
- `OneWinner`: `OneDeviceAnswers`. Nobody has won a lock's life to come, and who won
  this one holds the lock (`WinnersHold`).
- `ReadInOrder`: `SignalsReadInOrder`; no cursor is past the end of a mailbox that
  has not expired.
- `NoSendOnClosedChannel`: `NoSendOnClosed`; an event goes to registered streams.
- `NoByteLeaks`: `BudgetIsExact`, as sums over disjoint sets of jobs. The budget is
  checked when bytes are reserved, so the bound is stated for all that may still
  take a slot (`Within`).
- `NoCiphertextAfterRevocation`: `RevokedGetsNoCiphertext`, on either store. A
  device counts as severed when its login was revoked and its addresses are deleted
  (`Severed`), so only a registration already past the session check can bring one back
  (`Gone`).
- `OnlyWhatWasAsked`: `PushSaysNoMore`. A group of phones made by a fan-out carries a
  setting its owners have had since the fan-out began, or the default a failed lookup
  falls back to, and no phone is in two groups or in one already sent. That a payload
  fits rests on a name's bound (`maxFieldLen`, escaped) being well below the
  payload's, which `PushPayloadAssumption` states.
- `PagingMissesNothing`: `WalkMissesNothing`, for pages of any length, on either feed
  and either store. `PgInv` says what a walk's cursor has passed: whatever was there
  when the walk began is on a page already, or older than the cursor, or shares its
  millisecond with another post (`Accounted`). A chat's order is total, since no two
  of its messages have one number; a channel's is by time alone.

**`ConversationsProofs`**, for any number of hosts, users, conversations and
requests, on either store. What each call does to each table is stated once
(`RowSet`, `MemSet`, `MsgsSet`...) and proved of the store's operators; a step of
`Next` is then one of a handful of such effects (`...Does`), and each invariant is
shown to survive the effects.
- `ConversationsTyped`: `CvTypes`, which says which requests are at which call and
  what they carry there.
- `TicksSayWhatWasReported`: `TicksAreTrue`. `TickInv` adds that the positions a
  receipt carries to another host are ones its member reported.
- `DeleteLeavesNothingOld`: `NothingOldSurvivesDelete`. `EraseInv` follows each
  delete under way (`Emptied`: a table it is through holds only what is late), and
  says that a photo without a record is on its way to one, or off, or late, or was
  passed over: the delete finds photos through their records.
- `TheAnsweredAreMembers`: `AnsweredIsMember`. Between the insert of a conversation
  and that of its members, whoever finds it is answered with a conversation they are
  no member of; `MemberInv` says who of them is still to be made one (`Settled`). For
  that one request at a time creates or undoes a conversation (`OneCreator`), and all
  hosts agree on its hub and its pair (`Rooted`: there are functions that say them).
- `OneChatComesOut`: `OneChatPerPair`. That no MongoDB host has two chats of a pair is
  inductive on its own (`OnePerHost`: every insert and every mirror passes the unique
  index). That the two homes end up with the same one is not: `PairInv` follows each
  direct chat through its create, mirror, undo, leave and delete (`ChatWhole`). A chat
  is on both homes or on none unless some request is still making it, clearing that
  host or about to tell the other (`BothOrNone`); the undo of a refused mirror finds the
  chat on its hub alone (`MadeOnHub`, `UndoneOnHub`); and a delete tells every other
  home (`EndsEverywhere`), because whoever may ask for it still has the other host's
  member beside them in the roster (`RosterWhole`), which holds since members of a
  direct chat leave only by themselves (`LeaveAlone`, `MemsFit`: it has no
  administrator who could remove the other).

**`DirectoryProofs`**
- `PackagesGoOnce`: `ClaimsConsumeSinglesOnce` (`Consumed`: what was handed out is
  not in the directory; `Tombstoned`: the last resort goes behind a tombstone).
- `TerminatedOrListed`: `TerminationIsSeen`. What a list owes its reader is on it
  already or among the tombstones it has yet to read (`Owed`).
- `NoReplay`: `HandledOnce`, for any clocks. A nonce is remembered until the
  request's own timestamp is too old on that host's clock
  (`RememberedLongEnough`), and a check that passed is still fresh when the nonce
  is recorded (`StillFresh`).
- `NameAndAvatarHold`: `ProfileIsItsOwn`. What an upload is going to delete is no
  row's avatar (`PreviousIsReplaced`), since a blob is set by its own upload only
  (`BlobsAreOwned`).
- `HistoryIsKept`: `BackedUpIsKept`. An upload of a device that held all that is kept
  carries it, except what is appended after its stamp, and so does any upload once its
  record is written, of what it has left (`CoverInv`); the truncation takes only what is
  older than the stamp. It does not rest on the shrink guard, which a stored backup that
  cannot be read passes by. The proof shows more than restoring needs: the snapshot and
  the tail suffice, superseded versions are not used.

Only model-checked:
- liveness (`EveryPostAnswered`, `EveryPostEnds`, `MirrorsConverge`): TLAPS does not
  reason about fairness, nor about `ENABLED`;
- what a recursive definition computes for every input: induction over data is out
  of the provers' reach.

## 5. What the models show without a run of its own

Some properties are stated in the modules, with the line of the code that claims
them, and do not hold, or hold only on an instance that has no run here. The
constants reproduce each.

### Groups and federation
- *Double reset.* `ResetsRetireWhatWasNoticed` on two requests, two resets and no
  failures (`StoreFaultFree` with one request fewer): of two members who notice
  one dead group, the second resets the group the first one's reset made room for
  (`store_mongo_keypackages.go:671`; the comment at 657 says it cannot).
- *Late member.* `MirrorsConverge` with `FedReorder` and `Founding = {}`: a Commit
  accepted after `addMember` read the conversation and before the member's row
  exists is neither in the new mirror's snapshot nor relayed to it.
- *Half-joined device.* `UnreadableIsNoticed` with `ClientRaces` and
  `Failures = {"reload"}`, `Groups = {g1}`: a reload between the persist of an
  external join and the arrival of its request leaves a device that holds the
  group at the server's epoch, reads nothing, and notices nothing (`mls.ts:784`).
- *Rollback.* With `Failures = {"insert"}` on a hub, `EpochBacked` holds: every
  epoch has its Commit. With `"answer"` it does not, since a compare-and-set that was
  applied and reported as failed is not rolled back; nor with `"cancel"`, since the rollback runs on the
  request's own context, nor on a mirror, where a later relayed Commit makes the
  rollback a no-op.
- *Lost insert.* `OneReadableHistory` with `StoreFailing`, or with
  `Failures = {"answer"}` alone: an `InsertOne` is applied and its answer lost, and the
  rollback (`store_mongo_keypackages.go:308`; 301: "the Commit never reached anyone")
  takes the epoch back under a Commit members can read. The next Commit of that base
  is accepted for the same epoch, and the log has two, against 231: "keeps every
  member on one group history".
- *Ghost Welcome.* `NoGhostWelcome` with `Failures = {"insert"}`: the Welcome was
  inserted, the Commit's insert erred, the rollback leaves the Welcome. The run has no
  failures, and says that a conflict writes nothing.
- *One lost relay.* `FedReorder` with `Failures = {"loss"}`: the mirror refuses
  every later Commit of the group.
- *A lost answer.* `Delivery` with `Failures = {"loss"}` violates
  `RefusedIsNotHistory`: the device is told of an error while the hub has its
  Commit, and drops it.
- *A reset on the hub* is not relayed: a mirror keeps the retired group and its
  head, and refuses the next group's first Commit. A reset of the mirror's own
  would not help: it leaves the head in place too.
- *Numbers.* A mirror numbers the Commits it forwarded with its own counter
  (`ApplyAnswer`), so `MessagesVerbatim` is about messages only.
- *A founder whose answer was lost* keeps its group with the staged Commit
  dropped. `ClientFailing` with `"founding"` violates `LogApplies`: its wedge timer
  resets the group while its second founding Commit is under way, and the server
  takes that for a group being established.
- *A lost answer to an external join.* `ClientRaces` with `Failures = {"loss"}`
  violates `UnreadableIsNoticed`: the device is welcomed later, and applying its
  own accepted external commit removes the leaf it holds.

### Accounts
- `InvitesBalance` fails with `LostAnswers = TRUE`: an account whose insert
  succeeded and whose answer was lost has its invitation handed back.
- `NoRefreshOutlivesTheChange` fails (`SessionsSpec`, the constants of `Accounts`,
  `TTL = 2`): a refresh that is past its checks when a password is reset or an
  administrator changes the account signs its token in the second after the last
  cutoff's, and the session goes on. `admin_handler.go:215` ("so a concurrent refresh
  cannot mint a token between the account change and its revocation") and
  `auth_handler.go:674` ("closes the race with a concurrent refresh") say it cannot. A
  sign-in that passed its checks is not ended either, and a refresh that races with a
  termination mints a token that outlives the deny-list entry.
- `RestartRefusesTheSame` fails on the same instance: two changes of one account choose
  their cutoffs in one order and store them in the other, the row is overwritten
  (`store_mongo_keypackages.go:553`), and a restart loads the older one
  (`revoker.go:31`: "a restart re-hydrates the same set").
- Only MongoDB makes an email unique; the in-process store relies on the check.

### Channels
- `OneSubscriptionPerDevice` fails: `Subscribe` finds and inserts in two calls, and
  the collection has no unique index (`store_mongo.go:1014`).
- `OneMirrorPerChannel` fails with `Joiners = {j1, j2}`: two users of a peer who subscribe at once make two
  mirrors (`channel_federation.go`).
- Overlapping changes can leave a blocked member's device active, or a rejoined
  member's device silent; a blocked user can leave an open channel and join it
  again. `OutsidersHearNothing` is about changes that did not overlap or fail.
- `unsubscribe` asks whose device it is given, join and subscribe do not
  (`members.go:53`). A device that somebody else named is on by way of a member its
  owner may not be, is not silenced when the one who named it leaves (their removal
  silences their own devices), and a join that names it overwrites its status, also
  with pending.
- A retry of a request that failed after its key was remembered is answered
  "accepted" and dropped (`ingest.go:79`): the exception in `NoPostLost`.

### Conversations
- A create that fails between the row and the members leaves a direct chat without
  members, with which every later create is answered. Leaving a direct chat locks
  the user out in the same way. Two hosts that create one chat at the same time
  may both undo it. Whoever was answered with the row that is then undone holds the id
  of a conversation that is gone; `AnsweredIsMember` leaves that out.
- `PhotosGoWithMessages` fails with `Conversations`: attachments that cannot be listed
  or deleted are logged and passed over (`attachments.go:140-152`), the messages and the
  row go, the photo stays and nothing names it (`messages.go:817`: "The photos go with
  the messages"). `NothingOldSurvivesDelete` leaves those photos out.
- No property says that a tick never moves back; `TicksAreTrue` bounds it by what was
  reported.
- The in-process store does not enforce the unique key of a pair.
- A delete that was told to nobody leaves a mirror whose key blocks a new chat; a
  post that races with a delete is stored with number 0 in no conversation;
  deleting a mirror leaves its attachments.
- A removal on a mirror is not told to the hub; the last administrator may leave; a
  note of a membership change takes the mirror's own number.
- A clear hides a message that was stamped before it and stored after it.

### Parts
- `HonestBackupPasses` (`KeyBackup`) fails: a body that is both in the tail and in
  the snapshot is counted twice by the shrink guard, which then refuses an upload
  that loses nothing (`keypackages.go:620`; 606-608 says honest ones are not
  blocked). The guard is not asked when there is no snapshot yet.
- `SmallerTakesForce` (`KeyBackup`) fails with `Parts`: any error of `GetKeyBackup` is
  taken for a first backup (`keypackages.go:595`), the guard and the archive are
  skipped, and a smaller transcript replaces the stored one without force (604:
  "replacing a transcript with a smaller one now takes saying so").
- `BackedUpIsKept` leaves out two losses (the ghost `taken`). A device that did not hold
  all that is kept (armed by a code and not restored, or half restored) and counts as
  many bodies as are stored, or forces, or meets a stored backup that cannot be read,
  replaces the snapshot and cuts the tail. And a record that was written and reported as
  failed names blobs that are deleted again (`keypackages.go:653-658`).
- `SubscribersAreFed` (`LiveBus`) fails: the last stream's `shutdown` runs after the
  registry's lock is given up (`live_redis.go:108`), so a stream that connects in
  between is left without a subscription. `RevokedHearsOneAtMost` holds.
- `AroundCanGoOn` (`Paging`) fails: the cursor is given for a window of exactly the
  limit (`app.go:646`). A hit at the newest end has half a window (`Limit = 3`,
  `MaxMillis = 3`), and an even limit makes one message too many (four posts,
  `MaxMillis = 4`); the instance of `Parts` is too small for either.
  Channel and comment cursors compare times alone, and skip what shares a
  millisecond with the cursor; a deleted anchor restarts the walk in MongoDB and
  ends it in memory.
- `AlwaysNamed` (`Profiles`) fails: two tabs blank the two names of one user, each
  having read the other (`profile.go:97`).
- A registration past the session check brings back the push address of a device
  terminated meanwhile; calls do not prune dead addresses. A termination revokes the
  login as best it can (`keypackages.go:194-222`: no revoker, or an error that is
  logged) and answers 204 all the same: the device keeps its session, registers its
  address again and gets ciphertext. `RevokedGetsNoCiphertext` is about logins that were
  revoked.
- `WalkMissesNothing` is about messages a host numbers itself; relayed ones keep the
  hub's number (`store_mongo_conversations.go:199-205`), and ties
  within a millisecond there are not covered.
- `HandledOnce` takes a check and the record of its nonce to happen within one tick of
  the clock (`HsTick`).
- An expired mailbox starts again at 1, and a client that kept its cursor misses
  what follows; `SignalsReadInOrder` is about one life of the mailbox.
- The host list is loaded at start only, so its serial check never meets an older
  list; the in-process nonce record re-admits at the instant it expires.

## 6. Not modelled

The rate limiter and the commit-storm tripwire (counters over real time; nothing
the models speak of depends on them), the MLS wire parser and cryptography (what
they promise is an assumption: `EpochDeclared`, `Applies`, `MLSChain`), history
handoff blobs (stored once, deleted when fetched), TURN credentials, the in-memory
broker, images, e-mail, identifiers, configuration, start-up, the push services
behind their HTTP calls, and presentation in web and mobile.

Assumed: the backup's device and server clocks agree and one device uploads at a
time; a mail arrives; MongoDB applies one update of one document atomically; Redis
commands are atomic; the broker redelivers what was not acknowledged.

## 7. Plan

Modelling follows the inventory and is done as far as section 6, and every safety
property that a passing run checks is stated by a theorem.
