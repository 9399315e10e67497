# A TLA+ model of the inj-pass backend

The repository is a NestJS backend for a passkey wallet: users register with a passkey, earn and
spend NINJA points, buy game chances on a chain, mint NFTs with credits that come with the
chances, and talk to an agent that can send transactions from a sandbox wallet. It runs as
serverless instances, any number of them at a time, over one PostgreSQL database and one Redis;
a separate worker process follows the chain. Nothing in memory is shared between two requests.

This directory models the parts where requests, retries and crashes can meet, checks them with
TLC on small instances, and proves the main results for every instance with TLAPS.

## 1. Inventory

| component | state | operations that change it | talks to |
|---|---|---|---|
| Points and chances (`points/`) | `users.ninjaBalance`, `chanceRemaining`, `chanceCooldownEndsAt`; `points_transactions`; the miner's state in Redis | `syncNinja`, `consumeChance`, `adjustNinjaBalance`, `saveNinjaMinerState` | Users (creates the row when missing) |
| Users (`user/`) | `users`, `referral_logs` | `createUser` with both rewards, `ensureUserExists`, `ensureUserExistsWithWalletAddress` | called by every other component |
| Administration, webhook (`admin/`) | `users`, `chance_transactions`, `mint_credit_ledger` | `ingestChancePurchase`, `adjustUserBalance` | Users; called by the worker |
| Chance worker (`workers/`) | a state file, a cursor in memory | `bootstrap` and its loop, `processRange`, `processRangeFromReceipts`, `postPurchase` | the chain's RPC, the webhook |
| AI billing (`ai/ai.service.ts`) | `users.ninjaBalance`, `ai_usage_logs` | `recordChat` | Users, Conversations; called by the agent |
| Conversations (`ai/ai.service.ts`) | `conversations`, `messages` | `syncConversation`, `saveConversation`, `deleteConversation` | called by the agent and by clients |
| Wallet agent (`ai/agent-*.ts`, `ai/agents/`) | `agent_sessions`, `agent_tool_logs` | `chat`, `confirm`, `submitClientToolResult`, `deleteConversationSession`, `sweepSandbox` | the model provider, the chain, AI billing, Dapps |
| CatNFT (`catnft/`) | `users.mintCreditsRemaining`, `catMintNonce`; batches, metadata items, mint records | `issueMintVoucher`, `recordMint`, `backfillMintRecord`, `createBatch`, `upsertMetadataItems` | the chain, IPFS |
| Passkeys (`passkey/`) | challenges in Redis, `passkey_credentials` | `generateChallenge`, `verifyPasskey`, `storeCredential`, `updateCredentialCounter` | Users, Sessions |
| Sessions (`auth/`) | JWTs, their entries in Redis | `generateToken`, `verifyToken`, `revokeToken`, `refreshToken` | every controller |
| Dapps (`dapps/`) | a list of dapps and one of tabs in Redis | `upsertDapp`, `saveTabs` | read by the agent |
| Referral statistics, prompts, configuration, uploads | none | none | |

What is hard in it:

* **Two ways to write one row.** Some handlers lock the users row in a transaction; others read
  it, compute, and call `repository.save(entity)`, which selects the row again and updates every
  column in which the entity differs from it. A copy that was overtaken does not only lose the
  column the handler meant to change: it brings back every column another handler changed.
* **Several statements without a transaction**: a balance and its log row, a registration and its
  rewards, a session row and its tool log. An instance may die between any two.
* **At-least-once delivery** of purchases by a worker that retries whole ranges, with posts whose
  answer was lost and that may still be handled later.
* **An RPC that lags, withholds logs, or refuses a method.**
* **Look, then act**: a wallet name is counted and then inserted, a metadata item is read and then
  saved, a challenge is read and then deleted; retries of one client meet each other in between.
* **A protocol with the model provider** (every tool call answered before the next turn) that must
  survive cancelled, deferred, repeated and interrupted confirmations.
* **Whole documents in Redis** (the dapps, their tabs) that are read, changed and written back, each
  checked against the other, with no lock and no version.
* **Two clocks for one token**: its `exp` in whole seconds from when it is signed, its Redis entry in
  milliseconds from when it is stored; and two tokens signed in one second are one string.

The hazards, with their lines and the properties that watch them, are in `PROJECT.json`.
What makes each component correct:

* Points, users, webhook: the row agrees with its ledgers, a purchase is credited once, a cooldown is
  not shortened, an invitee has one referral.
* Worker: no confirmed log is passed over uncredited or credited too early, and each is credited in
  the end.
* Agent: every prompt can be answered by the provider; a call the user confirmed runs once, one the
  user cancelled never, and one the dapps in question do not grant never.
* Conversations: a backup is one call's body.
* CatNFT: the records of mints and the marks on metadata items agree.
* Passkeys: what a client is told is what is stored; a wallet that is set stays.
* Sessions: a token lasts as long as it says, a login has one of them, and a logout ends it.
* Dapps: an edit is what everybody reads until the next one; every category has its tab.

## 2. Modules

| module | models | used by |
|---|---|---|
| `Accounts` | the users row, its ledgers, every handler that writes it | `MCAccounts`, `AccountsProofs` |
| `PurchaseLedger` | the promise to buyers: a transaction hash is credited at most once, with its chances | refined by `Accounts` and by `ChanceWorker` |
| `ChanceWorker` | the worker, the chain, the network between worker and webhook | `MCChanceWorker`, `ChanceWorkerProofs` |
| `AgentSession` | one conversation with the agent: session row, tool log, overlapping requests | `MCAgentSession`, `AgentSessionProofs` |
| `ToolCalls` | the promise about each tool call: run at most once while it is open, ended once | refined by `AgentSession` |
| `Passkeys` | challenges, credentials, wallet names, both branches of `verifyPasskey`, the trigger on the table | `MCPasskeys`, `PasskeysProofs` |
| `Sessions` | tokens, their entries in Redis, refresh and logout | `MCSessions`, `SessionsProofs` |
| `Conversations` | the backup of one conversation and the calls that rewrite it | `MCConversations`, `ConversationsProofs` |
| `CatMints` | metadata items, records of mints, edits and reports that overlap | `MCCatMints`, `CatMintsProofs` |
| `Dapps` | the directory of dapps and its tabs, what older entries are read as, the tools a turn may use | `MCDapps`, `DappsProofs` |
| `AccountsProofs`, `ChanceWorkerProofs`, `AgentSessionProofs`, `PasskeysProofs`, `SessionsProofs`, `ConversationsProofs`, `CatMintsProofs`, `DappsProofs` | the theorems about the module each is named for | |

`Accounts` and `ChanceWorker` are composed through `PurchaseLedger`: in `ChanceWorker` the webhook
is one step on `credited` and `chances`; in `Accounts` that step is `ingestChancePurchase` with
its branches and its lock. Both are shown to refine the same abstract specification.
`Passkeys` takes `createUser` as one step, because `Accounts` has its statements, and ends where
`Sessions` begins, with the token of a verified ceremony. `Conversations` takes up `recordChat` where
`Accounts` leaves it, after the charge. `Dapps` has the check that `executeTool` makes before a tool;
in `AgentSession` a tool it refuses is one that fails. The modules meet in single calls whose outcome
each leaves open, so what is proved of one holds beside any behaviour of the others.

### Accounts

`users` holds the six columns of a row that handlers change; ledger tables are kept as the sums
the properties compare with the row (`pointsTotal`, `chanceTotal`, `mintLedger`, `vouchers`), except
`chance_transactions`, whose unique `txHash` matters.

Amounts are integers, in millionths of a NINJA, because the database has two scales: `users.ninjaBalance` is
`numeric(20,2)`, `points_transactions.amount` is `DECIMAL(20,4)`, and PostgreSQL rounds what is stored in
either (`ToCents`, `ToLedger`; half away from zero). `adjustNinjaBalance` rounds an amount to cents before
it uses it, and its row and its log row get the same. `recordChat`, `adjustUserBalance` and `syncNinja`
do not round: of a chat that costs 0.0375 the row loses 0.04 and the log says
-0.0375. `fractions` counts such changes of a user. The code's arithmetic in doubles is taken as exact.

A locked handler is one action, as its
transaction is. An unlocked handler is a *request* (`req[r]`) that advances one awaited statement
at a time: it holds the `entity` it read, and a save is two steps, `SaveSelect` (the columns in
which the entity differs) and `SaveUpdate` (those columns are written). That is what TypeORM does,
and it is modelled as an external library from how the code uses it. The driver returns a decimal column as
text, so a balance the handler assigned, a number, differs from the selected one even where both say
the same (`AssignsBalance`): it is always written.

| code | action |
|---|---|
| `PointsService.syncNinja` / `consumeChance` / `adjustNinjaBalance` | `SyncNinja` / `ConsumeChance` / `AdjustNinjaBalance` |
| `CatNftService.issueMintVoucher` | `IssueMintVoucher` |
| `AdminService.ingestChancePurchase` | `IngestChancePurchase`; when the buyer's row is missing or has no wallet, `CreateUser` or `BackfillWallet`, then `IngestAfterEnsure` |
| `AdminService.adjustUserBalance` | `AdjustUserBalance`, `SaveSelect`, `SaveUpdate`, `RecordPoints` |
| `AiService.recordChat` | `RecordChat` (or `CreateUser` ... `ChargeNewUser`), `SaveSelect`, `SaveUpdate`, `RecordPoints` |
| `UserService.createUser` | `CreateUser`, `InsertUser`, `RecordBonus`, `ReadInviter`, a save and a points row for the inviter and for the invitee, `LogReferral` |
| a failure or the end of an instance | `Crash` |

`ensureUserExists` in front of a locked handler is a request of its own ("ensure") that only
creates the row: the handler that follows it is a locked action, whenever it comes. Five history variables
are kept: `spent`, `unlogged` (balance changes saved whose log row is not yet
inserted), `fractions`, `fresh` (which copies have not been overtaken) and `raced` (users over whose row an
overtaken copy was saved). No action's guard reads them, but that `MaxFractions` bounds how many fractional
tap sessions a run explores.

### ChanceWorker

`stateFile` and `cursor` are `lastProcessedBlock` on disk and in memory; `stage` is where the loop
is. `Start` is `bootstrap` up to the loop (`StartFails` when its save fails), `Poll` reads the
height, `FetchRange` the logs of a range, `PostPurchase`, `PostRejected` and `PostFails` are the
three ends of a post, `FinishRange` saves the cursor, `ReadFails`, `SaveFails`, `Signal`, `Crash`
and `Exit` are the ways out. The environment mines blocks (`Mine`), makes buyers known
(`Register`), and handles a notification nobody waits for any more (`LateDelivery`). An RPC node
may be `NodeLag` blocks behind; with `Gaps` it may leave logs out of an answer. `missed` records
the logs the cursor passed without the worker having seen them.

### AgentSession

`row` is the `agent_sessions` row, `logs` the status of each call's `agent_tool_logs` row. A request
loads the row into `copy` and walks through `chat`, `confirm` or `submitClientToolResult` and the
loop; each `saveSession` is a `SaveSelect` and a `SaveWrite`. A message is its author and the calls
it makes or answers. `Send`, `Mined` and `ChainFails` are the payments of a tool, with the retries
of `playOnce`. `contested` records the calls that two overlapping requests both found pending,
`disturbed` those whose request died half-way.

`ToolCalls` is what the loop, the confirmations and the tool log promise together. A call is logged as
open, may run once, and ends once as completed, failed or, if it has not run, as cancelled. In
`AgentSession` the status of a call is what `logs` says (`CallStatus`: both kinds of pending are
open) and its runs are those counted in `runs`, except for the calls that are contested or disturbed: they are
`waived`, and the abstract `Waive` is the step in which they become so. Nothing else is waived, and
`RunOnce` and `CancelledNotRun` name two of the consequences.

### Passkeys

A ceremony is a challenge and the one answer a client has for it; the client may submit the answer
any number of times, and each submission is a request. `Edited` names the credentials whose rows
somebody edits by hand ("recovery operations" in the migration), through the trigger.

| code | action |
|---|---|
| `PasskeyService.generateChallenge`; the challenge's time to live | `GenerateChallenge`; `Expire` |
| `verifyPasskey` up to its branches | `VerifyPasskey`, `DeleteChallenge` |
| `storeCredential`, `generateUniqueWalletName` | `FindCredential`, `CountNames` (one query each), `InsertCredential` |
| `createUser` after a registration | `CreateUser` |
| login: `getCredential`, the assertion, `ensureUserExistsWithWalletAddress` | `GetCredential`, `CheckAssertion`, `BackfillUser` |
| `generateToken` and the answer | `GenerateToken` |
| `protect-wallet-fields.sql` under an UPDATE | `RecoveryUpdate` with `PreventWalletFieldClear` |

A name is a base and its suffixes, since a name with a suffix can collide with one that was asked
for. History: `answers` (what clients were told) and `overlapped` (credentials named at once).

### Conversations

A message is the call that brought it and its place in that call's body, so the model can tell
mixtures from prefixes. `Call`, `FindConversation`, `SaveSelect` and `SaveInsert` find or create the
row; `ClearMessages` and `SaveMessage` rewrite the messages; `EndOfBody`, `TouchSelect` and
`TouchInsert` end a call (`syncConversation` saves the row again); `DeleteConversation` and `Crash`
come whenever they like. History: `body`, `overlapped`, and `last`, the call whose body the backup
has to be, if one ran to its end with nothing else happening meanwhile.

### CatMints

A record is named by its token: a reported mint is taken to have happened, with that token. (With a
`tokenId` in the body the code does not look at the chain; the model is about repeated, overlapping
and interrupted reports, not about false ones.)

| code | action |
|---|---|
| `createBatch` | `CreateBatch` |
| `upsertMetadataItems`, for each item | `UpsertMetadataItem`, `CreateItem` or `SaveSelect` and `SaveWrite` |
| `recordMint`, `backfillMintRecord` | `RecordMint`, then `persistMintRecord` |
| `resolveMetadataItemForTokenId` | `FindAsked`, `SearchItem` |
| the insert, the update, the mark of `persistMintRecord` | `InsertRecord`, `UpdateRecord`, `MarkItem` |

History: `asked` (items some report named by id), `broken` (tokens whose last report died before the
mark), `stale` (items over whose mark an overtaken copy was saved).

### Sessions

`redis[t]` is when the entry of token `t` expires, in half seconds, so that a refresh may fall into the
same second as the login or into the next one. A token is its credential and its second of issue, as
in the JWT: two of one second are one string with one entry.

| code | action |
|---|---|
| `AuthService.generateToken` after a ceremony | `Login`, `Store` |
| `refreshToken`: `verifyToken`, `revokeToken`, `generateToken` | `Refresh`, `ReadSession`, `RevokeOld`, `Sign`, `Store` |
| `POST passkey/logout` | `Logout` |
| a Redis call that throws, the end of an instance | `Fail` |
| time | `Tick` |

`verifyToken` reads Redis through `cacheManager.get`, whose errors it takes for a missing entry: that is
the choice `inRedis` of `ReadSession`. Without `AUTH_REQUIRE_REDIS_SESSION` the answer is only logged;
both modes are initial states. Every other endpoint makes the same check and changes nothing.
History: `of` (the logins a token stands for), `revoked`, `ended`, and `forked`, the logins that two
requests acted for at once.

### Dapps

| code | action |
|---|---|
| `upsertDapp` | `UpsertDapp`, `ReadTabs`, `ReadDapps`, `StoreDapp` |
| `saveTabs` | `SaveTabs`, `ReadDapps`, `StoreTabs` |
| `listDapps`, `listTabs` | `List` and a read |
| a document that does not parse: `redisClient.del` | `DeleteTabs`, `DeleteDapps` |
| `buildToolPolicy` for a turn of the agent, then `executeTool` | `Turn`, `ReadDapps`, `CallTool`, `ReadDapps` |
| a Redis call that throws, a tool that is done | `Finish` |

`normalizeStoredDapp` is translated as the function it is: entries of older versions have capabilities
in place of tools, or `ai-driven` as a category. An entry is named by the edit that brought it, and the
texts of an edit are that name. History: `acked` (what the last edit of an id answered), `lost` (ids
whose entry a stale list was written over, or that a reader deleted), `mixed` (the two documents were
written by requests that overlapped), and in a request what others changed since it began to read.

## 3. Runs

| run | shows | bounds |
|---|---|---|
| `accounts_races` | a row not saved over from an overtaken copy agrees with its ledgers; settled balances are logged (both up to the rounding of fractional amounts); balances stay whole cents and are never negative; cooldowns never shorten | one user, two unlocked requests, one purchase, balances to 0.02 NINJA, a chat that costs 0.7525 cents, an administrator who takes 1.2525 or sets zero, tap sessions of 0.505 (one of them) and 2 cents, clock 0..1 |
| `accounts_registration` | rows created, invite codes, the webhook's slow branch and crashes: one referral per invitee; refinement of `PurchaseLedger` (that these rows agree with their ledgers too is `ConsistencyCorrect`) | three credentials of which two exist, two requests, two logs of one transaction, rewards and costs of whole cents |
| `worker_honest` | no log is missed, credited twice or credited too early | two transactions, one with two logs, 5 blocks, ranges of 2 and 1, nodes 1 block behind, 3 failures |
| `worker_liveness` | with an RPC that withholds logs and a window of one block, the cursor passes no other log uncredited, and each confirmed log is credited in the end | two transactions, 4 blocks, 3 failures |
| `agent_serial` | well-formed prompts, tool log equal to the session, payments within rounds and retries | one request at a time, 2 calls, 5 turns, 2 failures |
| `agent_races` | answerable prompts, no second run, no run after a cancellation; refinement of `ToolCalls` | two overlapping requests, 1 call, 3 turns, 1 failure |
| `passkeys_races` | tokens have users, answers agree with the rows, names are distinct unless chosen at once, no edit loses a wallet | two requests, two ceremonies and one older credential whose row is edited, two wallets, one name |
| `conversation_races` | a call that ran alone leaves its body; mixtures come from overlapping calls only | two requests, three calls, bodies of 0 to 2 messages |
| `catmints_races` | marks are on record, records are marked, items go by their number | two requests, two tokens, two batches, one number, one item asked for by id |
| `dapps_races` | an edit is what readers get, dapps have tabs, no tool runs that was not granted | two requests, two dapps, one category and `ai-driven`, one tool, one old capability, two edits |
| `sessions_races` | tokens last as signed; in the strict mode one token per login and none after its logout | two requests, two logins of one credential, a lifetime of two seconds, two seconds of time |

Why the bounds are enough. A lost update needs two actors and one row; a third request only
repeats what two do. The amounts are small because only their fractions matter: the row loses
a whole cent of a cost of 0.7525 and one of a withdrawal of 1.2525, unless that empties it, and gains one of an
earning of 0.505, a hair over the half; the ledger keeps more of each. The worker's interesting cases are a range with no log, a range with one, a
range cut by the target, a restart below, at and above the target, and a lag beyond the window:
all fit in five blocks. A call goes from proposal to its end within three turns, and two calls in one turn
give the deferral of the second. A larger instance of `agent_races` (two calls, four turns) was
explored for ten million states without a violation. A name collides with the name of one other
registration or of a stored row, and three credentials with one name give each; the case of a name
that looks like another with its suffix is left to the proof. Two messages are the fewest that can
be interrupted between; three calls let two overlap over what a third has left. An item has at most
one rival in another batch and one token that takes it by id; an instance with two numbers was
explored for twelve million states without a violation. Two edits are the fewest of which one can
undo the other, and the second dapp is the one whose edit carries the first one along. Two seconds let
a refresh fall into the second of its login, into the next one, and after the token's end; two logins
of one credential in one second share their token.

`agent_paid_twice` is expected to end in a violation: it checks what the game agent's instructions say a round
costs, and the trace shows that a round whose confirmation could not be read is paid for again (the finding in `PROJECT.json` quotes the lines).

`CHECK_DEADLOCK` is off except in `catmints_races`: requests and ceremonies end, the chain and the
counters are bounded, and a quiet backend is not an error. In `CatMints` an administrator can always
edit an item, so there a state without a step would be a mistake.

**Divergences no run is kept for.** Reading the code for the models showed these too; the invariants
above state what holds in spite of them, with the exception spelled out.

* The repository's README says that the NINJA balance may be deducted to a negative number (line 232). No
  handler does that: `adjustNinjaBalance` (`points.service.ts:486`) and `adjustUserBalance`
  (`admin.service.ts:668`) stop at zero, `recordChat` refuses a call the balance cannot pay
  (`ai.service.ts:147`). `TypeOK` of `Accounts` states what the code does.
* `points_transactions` is the "Transaction log for NIJIA points changes" (migration 002:24), but a
  fractional amount is rounded to cents in the row and to ten-thousandths in the log, each by its own
  column: `recordChat` (`ai.service.ts:164`), `adjustUserBalance` (`admin.service.ts:668`) and
  `syncNinja` (`points.service.ts:258`) let the two drift apart by up to half a cent and half a ledger unit per
  amount, with no race and no crash. `WithinRounding` says so, in `ConsistentUnlessRaced` and `SettledLedger`.
* The same log and the row part for good in a race: two unlocked saves of one balance log both changes
  and keep one (`raced` in `Accounts`).
* `recordChat` reads the user, computes, and saves the whole entity (`ai.service.ts:121` and `:166`):
  chances consumed in between are back, against the comment "Consume one chance on backend so chance
  usage is persisted" (`points.controller.ts:273`). `ConsistentUnlessRaced` has the exception `raced`.
* The repository's README (lines 227 and 228) promises rewards to inviter and invitee; `createUser` gives them in later
  statements (`user.service.ts:115`), and nothing takes up what a request that died before them left.
  `ReferredOnce` has the exception of a request that failed.
* `recordChat` refuses a call the balance cannot pay; the agent does not look at the answer
  (`agent-orchestrator.service.ts:507`), after the model has been paid for.
* The comment of `verifyToken` says "Checks both JWT signature and Redis presence"
  (`auth.service.ts:85`); unless `AUTH_REQUIRE_REDIS_SESSION` is set a revoked token is accepted.
  `OneTokenPerLogin` and `LogoutEndsLogin` are about the strict mode.
* README:307 lists `JWT_EXPIRES_IN=7d`; the code signs for thirty minutes whatever it says.
* README:262 says that one code invites one user; `createUser` only looks the code up, so any
  number of newcomers can use it.
* `challenge-storage.service.ts:103` promises a unique wallet name "by checking for duplicates"; the
  count and the insert are separate and the column has no unique index (`overlapped` in `Passkeys`).
* `passkey.service.ts:218` backfills the users row of an older credential at login. Where another
  credential with the same wallet has its row, the insert fails on the unique `walletAddress`
  (migration 010:17) and with it every login of this credential.
* The comment of the trigger (`protect-wallet-fields.sql:40`) says a name cannot be changed once
  set; the trigger only keeps it from being cleared. `WalletKept` states what it does.
* An interrupted `syncConversation` leaves a part of a conversation; `BackupIsLastCall` states what remains
  true. A call in flight when its conversation is deleted inserts the row again, which no property looks at.

**Fairness.** Only `worker_liveness` needs it: `WF_vars(Worker)` says that the worker's own steps
happen. Its loop never ends but by a signal, each of its awaited calls ends in an answer or in an
error, and a worker that stopped is started again by its supervisor. Failures have no fairness and are bounded by
`MaxFaults`: errors stop at some time. New blocks and registrations are not fair either; the
property only speaks about logs that are deep enough when every buyer is known.

## 4. Proofs

All theorems are about `Spec` of the module, for every value of the constants that satisfies
`ConstantsAssumption` (credentials, amounts and times are of the right kind),
`WorkerAssumption` (ranges are at least one block, logs of one transaction are told apart by
their index, `START_BLOCK` is a block of the chain), or the
assumptions of the other modules, which only say that NULL and the missing row are no values of a
column and that bounds are natural numbers.

* `TypeCorrect` (Accounts): `[]TypeOK`. `TypeOK` is not inductive: a save writes the entity of a
  request, so what a request at each stage holds must be known. `TypeInv` adds it. That balances are whole
  cents (`CentsOK`) is preserved because every write rounds or adds what is whole already (`CentsNext`); the
  entity of a request may hold any fraction.
* `ConsistencyCorrect`, `CooldownCorrect`: the inductive invariant is `TypeInv`, `Unborn` (a
  credential without a row has no ledger entries, and no request holds it but those about to
  create it), `CopyInv` (an entity still in `fresh` differs from its row only in the balance, by
  `delta`, or in the wallet, and never in the other columns), `CentsOK` and `ConsistentUnlessRaced` itself.
  `CopyInv` is what makes `SaveUpdate` safe on a row that is not raced. The balance clause of `Consistent`
  (`WithinRounding`) is carried by `RoundedMove`: row and ledger total move by one amount, each rounded to its
  unit; if the amount is whole cents they move alike, because the row was whole cents before, and if not, each moves by
  half its unit more or less at most, which is what one more in `fractions` allows.
* `AccountsImplementPurchaseLedger`: initial states map to initial states, and every action leaves
  `chance_transactions` and the chance total alone or is `Credit`.
* `ReferralsCorrect`: `ReferralInv` follows one registration from its insert to its log row; at
  most one request of a credential is past the insert. `OwedInv` says that an invited user without a
  log row has a request that still owes it, unless a request failed.
* `SettledLedgerCorrect`: `PendingInv` says that `unlogged` is the sum of the points rows that requests
  have still to insert, unless a request failed. A sum over the requests would take an induction, so
  it is counted: a request that owes n millionths of a NINJA is a column of n units, `Units` is the (finite) set of
  them all, and a step replaces one column (`MovedUnits`). With `ConsistentUnlessRaced` it gives
  `SettledLedger`.
* `TypeCorrect`, `CursorCorrect` (ChanceWorker): the invariant adds `ChainInv` (no log above the
  newest block), `CursorInv` (a cursor lies on the chain or at `START_BLOCK`) and `RangeInv` (while
  a range is posted, each of its logs is settled, pending or overlooked), without which the save
  of the range's end could not be justified.
* `ConfirmationsCorrect`: `DeepInv`; what is pending, in flight or credited is deep enough, since
  the target was computed from some node's height and heights only grow.
* `WorkerImplementsPurchaseLedger`: every step is a `Credit` or a stutter of `PurchaseLedger`.

* `HonestWorkerMissesNothing` assumes `Honest`: an RPC that withholds no log, no `START_BLOCK`, a window
  as long as the chain. Then bootstrap never jumps over a block, and `missed` stays empty.
* Passkeys (`PasskeysInvariant` and five theorems): the invariant follows each submission. A request
  that has stored or read a credential holds the row as it is (`RequestOK`), a registration's
  credential is its ceremony's own (`CeremoniesOK`), and a name about to be inserted is free but for
  names inserted while it was chosen (`ChosenNameOK`): the last is what `CountNames` establishes and
  any other insert may break, and then `overlapped` has the pair. Rows in `Edited` are excepted.
  `WalletNeverLost` needs that a stored row changes through the trigger only (`RowStep`).
* Conversations (`BackupInvariant`): while a call is alone and past its deletion, the messages are
  the prefix of its body that it has saved; when it ends, the prefix is the whole.
  `OverlapsOnlyMix` adds `MixInv`: a call that saves has met the call of every message it finds, and
  its own last message is the one before its next.
* CatMints (`MintsInvariant`): what a request found still fits its token (`Fits`: batches stay active,
  items stay), a mark and every copy of a mark belong to a token on record (`Marked`), and the record
  is there before the mark. `RecordMarksItem` is part of the invariant; the others follow from it.
* AgentSession (`AgentInvariant`, then `RunsOnce` and `CancelledStays`): for each call that is neither
  contested nor disturbed (`UseOK`), at most one request holds it; a request that proposes it is the
  only one that knows of it; a holder that closes it will overwrite the row where the row still names
  it; and once it has run, or was cancelled, the row names it only while its one holder is about to
  write it off. `FreshInv` says that nothing has happened to a call not yet proposed, and `Shape` what
  a request holds at each step. This invariant needs no history and leaves it untyped. A stale copy
  written back later could break it, and does not, because a save reads the row again and writes
  only the columns in which the copy differs from that.
  `LogFollows` assumes one request at a time (`Serial`) and adds `LogOK`: until it has written the row,
  a request that holds a call is the one the row names, and the log says of each call what the
  request is about to write.
* AgentSession, the repair (`RepairAnswers`, `RepairMatches`, `RepairIdempotent`): after
  `repairMissingToolResults` every call of a history has an answer in the turn that follows; if the
  answers matched before, they match after; and a second repair changes nothing. `RepairHistory` is a
  fold, and what a fold returns takes an induction over data that the provers do not have. In its
  place stands `LeastNatural`: a set of naturals that is not empty has a least member, from the
  library's theorem that inclusion among finite sets is well founded (a bounded set of naturals, cut
  off at each member, gets smaller as the member does). `FlattenFacts` is proved that way: a flattened
  sequence is laid out piece after piece. `RepairLayout` says where each turn of a history
  lands (`Flat`), and the three theorems only look at neighbours in that layout.
* `AgentTypes`: `[]TypeOK`, histories included. It needs `LiveCopies` on top of `AgentInvariant`: which
  of a request's copies the code reads again, and of what kind they are there.
* `AgentPromptsAnswered` (`PromptsAnswered`, with any number of requests): `AnswersInv` says that the
  calls without an answer in a request's history are those it has still to handle (`Owing`), so that
  none is left when the model is asked.
* `AgentPromptsMatched` (`PromptsMatched`, under `Serial`): answers come right behind their calls
  (`Matched`), where every call but the pending one (`Open`) was there before the request (`Old`). Two
  requests at once can append to one history what belongs to different turns, so the theorem
  has the same assumption as the run.
* `AgentImplementsToolCalls` (`RefinesToolCalls`, with any number of requests): `CallsInv` says of each
  undisturbed call that whoever knows of it finds it logged (`CallOK`), that one which has ended
  is proposed by nobody any more, and that a call which needs no confirmation is known
  only to the request that runs it. The invariant of `RunsOnce` names one holder of a pending
  call, and the log follows that holder: that is why an end is not written twice. Every step is then one
  action of `ToolCalls` on one call, or a `Waive` (`PromiseStep`). Two requests that load one pending
  call make it contested in the step of the second load, which is the first step that could harm it.
* `AgentPaymentsBounded` (`PaymentsBounded`): `PayInv` says that the rounds before this one have cost
  at most their retries each, and this one at most its attempts so far, and that at most one request pays
  for an undisturbed call. `OnePaymentPerRound`, the stronger claim of the instructions, is what
  `agent_paid_twice` refutes.
* Sessions (`SessionsInvariant`): `EntriesTimed` compares the two clocks of a token and holds in both
  modes; in the strict mode, `Held` says of a login no two requests met over that what stands for it
  is one token, in Redis or in the hands of one request, and nothing once it is logged out.
* Dapps (`DappsInvariant`): `EditorOK` and `SaverOK` say what a request that holds a list, or has checked
  tabs, still knows: the list agrees with the answers but for the ids it has missed, and with the
  document it was checked against unless it was crossed. An entry in today's form is read as it is
  stored (`NormalizedTwice`), which is why an edit of one dapp does not change how another one reads.
  `RunnerOK` keeps what the directory has granted since an execution began.

Only model-checked: `EventuallyCredited` and its fairness (liveness is out of the prover's reach). Every
other property of the passing runs is a theorem.

## 5. What is not modelled

* **Amounts**: doubles (their arithmetic is taken as exact), amounts finer than a millionth of a NINJA, the
  `balanceAfter` column, pricing of models (a free cost), usage logs.
* **The chain**: a reorganisation deeper than `BLOCK_CONFIRMATIONS`; heights only grow and a log stays where it is.
  A second log of one transaction is settled by the first: the webhook goes by `txHash`, and so does the
  model's word for credited.
* **The miner's state in Redis** (`getNinjaMinerState`, `saveNinjaMinerState`): a document the client
  supplies and the last writer keeps. It decides whether a sync consumes a chance, which is a free
  choice in `SyncNinja`; nothing else reads it.
* **Texts**: of messages, of dapps and metadata items, their order in lists, uploads to IPFS and to the
  bucket, header parsing, prompts.
* **Dapps**: two entries whose ids are made in one millisecond, a tab that is itself called
  `ai-driven`, and how a message is searched for the names of dapps; a conversation mentions a fixed
  set of ids.
* **Sessions**: clocks of two instances that differ, and the in-memory cache of a development setup:
  Redis is taken to be where the entries are. `app.module.ts:48` hands its store to the cache module as
  `store`, and the versions in `package.json` (`@nestjs/cache-manager` 3, `cache-manager` 7) read `stores`: if the
  option is ignored, challenges and tokens are in the memory of each instance, and what `Passkeys` and
  `Sessions` show holds within one instance only. (`Dapps` has a Redis client of its own.)
* **The agent**: `sweepSandbox`, a computation with the fees of the chain that writes no table; two
  conversations of one user share nothing but the balance, which is in `Accounts`.
* **Passkeys**: public keys and signature counters. A verification may accept or refuse, and nothing
  else reads the counter.
* Searches and lists of the administration, referral statistics, configuration, and migrations that
  clean up data once. `PointsService.deductForAi` and `UserService.updateBalance` are called by
  nothing.

Two hazards of `PROJECT.json` have a note in place of a property. Credits are deducted before the voucher
is signed (`catnft.service.ts:406`): the code decides it in a line that a property could only repeat. And a
conversation deleted under a call is stored again by it (`ai.service.ts:272`): the histories of `Conversations` start over at
a deletion, so its properties do not see what comes back, and no document promises that it does not.

## 6. What could follow

1. `Passkeys` with the statements of `createUser` out of `Accounts` in place of its one step. The two
   meet in a single call, so the composition multiplies the states and adds no new interleaving of
   one table; it would show the two models at the same place in one trace.
2. `Conversations` with the agent's snapshots and with the refusal of `recordChat` the agent ignores.
