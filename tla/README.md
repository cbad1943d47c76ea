# Verification of catoly-server

TLA+ models of the NestJS server in `src/`: what its stateful components do when
requests overlap, stores fail, processes die and networks answer late; TLC checks
of small instances; and TLAPS proofs of the most important results for every
instance. Line numbers below refer to the sources at this commit; `PROJECT.json`
maps every definition to the lines it models.

    tlc -workers 2 -config MCAirdrop_windows.cfg MCAirdrop
    tlapm AirdropProofs.tla

## 1. Inventory

The server is one Node process. Requests interleave at every `await`; the process
ends on an unhandled rejection. State lives in Redis, HashiCorp Vault, MongoDB, on
Solana, and in a few fields of the services.

| Component (sources) | State | Operations | Interacts with | What makes it correct |
|---|---|---|---|---|
| Wallet custody (`vault/`, `user/`, `redis/`, `backup/`) | Redis record and Vault key of a name, User and BackUp documents | create (two endpoints), revoke, delete the secret, sign in | three stores without a common transaction; actions read keys | stores agree; a key pair is usable at most once; revocation all or nothing; success only for what has been written |
| Whitelist (`whitelist/`) | AccessCode and WhitelistedUser documents | generate, validate, revoke | user sign-up in the frontend | one admission for each code, none by an open code, revocation takes back its own |
| Conversations (`chat/`) | thread counter, conversations, messages | create, stream a turn, list | the agent, through a byte stream | distinct thread numbers; ordered histories; answers stored; responses end |
| Agent stream (`chat.service.ts` 306–560) | `rawBuffer`, relayed tool calls and content | data, end, error | fed by axios, feeds the response of a turn | all that is sent is relayed, once, in order, however the bytes are cut |
| Compressed airdrop (`actions.service.ts` 1229–1511) | batches, attempts, the window | estimate, send | Solana RPC | everybody served once, or an exact error; bounded concurrency; an answer |
| Submission of transactions (the rest of `actions/`) | nothing but the request | 14 endpoints | Solana RPC, Helius, partner services | an answer says what has been spent, and on which network |
| Trending pools (`gecko.trending.service.ts`) | two caches, `isUpdating` | interval, read | – | nothing: no module provides the service, it never runs |
| Admin (`admin/`) | login attempts for each address, in memory | log in, verify | the clock, restarts | few attempts in any window; nobody kept out longer than that |
| Sessions (`auth/`, `guard/`, sign-in of `user/`) | none; tokens and a cookie with the client | sign in, renew, log out, guard | Privy, the wallet of the user | what a token claims is not too old |
| Digital assets (`das/`) | none; page numbers and cursors with the caller | assets, portfolio, balances, transactions | Helius | nothing twice, nothing left out, one network |
| DLMM (`dlmm/`) | none | builds transactions | Meteora SDK | forwarding only |
| Market data (`gecko.service.ts`) | none | forwards | GeckoTerminal | forwarding only |
| Bootstrap (`main.ts`, `app.*`) | none | wiring | – | – |

Hard behaviours, listed line by line under `hazards` in `PROJECT.json`: writes to
several stores without a transaction; two writes in parallel of which one fails;
checks separated from the writes they guard; errors that a callee swallows;
restores after a partial failure; writes that outlive the process; callbacks after
the end of a response; messages cut anywhere into chunks; transactions that land
after the caller has given up; networks chosen anew by a balance that changes;
listings that change while a caller turns their pages; claims that outlive what they say.

## 2. Modules

    WalletLifecycle <-- refined by -- WalletCustody --- WalletCustodyProofs
                                      Whitelist     --- WhitelistProofs
                                      ChatThreads   --- ChatThreadsProofs
                (bytes of a turn)     AgentStream   --- AgentStreamProofs
                                      Airdrop       --- AirdropProofs
                                      TxSubmission  --- TxSubmissionProofs
                                      DasPaging     --- DasPagingProofs
    Clock <-- AdminLogin, Sessions <-- Access       --- AccessProofs
    MC<module> + MC<module>_<run>.cfg instantiate a module for TLC

A request is a member of `Reqs`; one action is what its handler does between two
awaits (`pc`, or `at` in TxSubmission, is the await it is at). Definitions marked
`(mutant)` are plausible bugs of the definition below them; no specification uses
them, and `PROJECT.json` pairs each property with one that breaks it.

**WalletCustody.** `redis`, `vault`, `users`, `backup` are the stores by name,
`stray` the Vault path that restores write to by mistake, `draft` and `owner` the
MongoDB transaction of a revocation. `Check` … `AwaitVault` are `createNewWallet`
and `storeWalletKey` (`vault.service.ts` 66–251). `Issue` sends the writes to Redis
and MongoDB and `StoreVault` the one to Vault; `RedisLands`, `MongoLands`, `VaultLands`,
`MongoFails` complete them in any order, even after `Crash`; the request goes on in a step
of its own (`AwaitRedis`, `AwaitMongo`, `AwaitVault`), so that a reader can meet a key
whose creation has not answered, or never will. `ReadVault`, `BackUp`, `DeleteVault` are `deleteSecret`, where `DeletionFails` is the error it
swallows (`swallowed` remembers the request);
`Mark` … `Commit`, `Restore*` are `revokeUserWallet` (`user.service.ts` 112–279);
`Find`, `Insert` the sign-in; `ReadAddress`, `ReadRecord`, `ReadKey` are what the actions sign with
(`getWalletPublicKey`, `retrieveWalletPrivateKey`). `WalletLifecycle` is the abstract promise about one
key pair: unborn, as long as its Vault write may come (`KeyToCome`), then usable once, then
retired; `OneLife` is the refinement.

**Whitelist.** `codes` and `entries` are the two collections; `Already`, `FindCode`,
`MarkUsed`, `Admit` are `validateAccessCode`, `RevokeFind`, `RemoveEntry`,
`RemoveCode` are `revokeAccessCode`.

**ChatThreads.** `counter` and `threadOf` are the numbering of the agent's threads,
`log` and `last` the messages and `lastMessage` of a conversation, `reply` the HTTP
response. With a `conversationId` the caller names the agent's thread as well
(`asked`, from the constant `Named`), and nobody compares it with the conversation's own.
A turn stores its question, relays (`Relay`), ends the response
(`Complete`) and then stores its answer in a callback without a catch, where a
failure ends the process (`Die`).

**AgentStream.** The text of a stream is a sequence of tokens, so that a chunk can
end within an identifier, a body or a two-byte character, of content or of a tool
call. The first token of a call is its key, `tool_name` and `additional_kwargs`; of two
calls with one key the second is dropped whatever else it says (`ProcessToolMessage`).
`Send` is the agent; `stream`
and `text` are what it has sent, `pos` how much of that has arrived. `Data`, `End`,
`Error` are the handlers. The first two go on with two loops over `rawBuffer` (`loop`, 0
when no handler runs): `ProcessMessages` is one turn of a loop, which takes the first
message of its type together with all that stands before it, and `LeaveLoop` leaves it for
the other one, or for good. Handlers do not interleave: each begins when `loop` is 0.

**Airdrop.** `BatchCount`, `Instruction`, `RecipientsOf` are the divisions of the
recipients, `Start` and `NextWindow` the windows of concurrent transactions,
`Submit`, `Confirmed`, `Unconfirmed`, `Retry` one round of `sendTransactionWithRetry`.
`Submit` includes a call that throws although the network has taken the transaction. `Land`
executes one, well (`landed`) or with an error (`failed`); `sendAndConfirm` returns the
signature of either, so that what the server knows of is `Executed`, not paid. `givenUp` are
the batches that have left a transaction behind: by a wait given up, or by such a throw.

**TxSubmission.** Each endpoint is a plan, the sequence of its awaited calls;
`at` is the place of a request in it. `UsePreference` and `Detect*` are
`getRpcUrl` and `detectNetwork`, with the two balance requests as steps of their own
(`ProbeMainnet`). `Submit`, `Confirm`, `Check`, `GiveUp` are sending, waiting without
and with a look at `err`, and a wait that ends without an answer; `Outcome`, `Win`,
`Claim` the rest of a game. `Execute` and `ExecuteClaim` are the networks.

**DasPaging.** One walk over one listing: `ep`, `pref`, `limit` are the request,
`page` and `cursor` where it stands, `net` the network of a page. `Connect` and
`NativeConnect` are `getRpcUrl`; `OwnerPage`, `FungiblePage`, `PortfolioPage`,
`BalancePage`, `NativePage`, `Signatures`, `Details`, `Join` what each endpoint makes of
the provider's answer; `BlockWithoutResult`, `FetchFails`, `DetailsFail` its errors. `Begin`,
`Continue`, `Retry` are the caller, `Arrive`, `Leave` and `AccountChanges` the world: the
account that `detectNetwork` looks for appears on mainnet, or is drained and purged there.
`delivered` is what the caller has been given and `refused` the transactions whose details
the provider did not give.

**Access.** `AdminLogin` has the Map of attempts (`checkRateLimit`), `Sessions` the
tokens a client holds: `SignInRead` and `SignInAnswer` (`signInUser`), `Status`
(renewal), `Logout`, and `Admits` (the guard). `Access` composes them on the one
`Clock`, with `Restart`, which forgets what is counted and nothing that is signed.

## 3. Runs

| Run | Bounds | What it shows |
|---|---|---|
| `custody_faults` | 2 requests, 2 names, any endpoint or reader, overlapping, 1 fault | `NoPartialRevocation`, `SuccessMeansWritten`, `KeyOfWrittenWallet`, `OneLife` (refinement); `RequestsEnd` under fairness |
| `custody_serial` | 3 requests that write, one at a time for a name with nothing of an earlier one on its way, 2 faults | `RecordNotOverwritten`, `DeletedOnlyAfterBackup` over both faults; `RevokedMeansErased`, but for a swallowed deletion; `StoresAgree` as long as nothing has failed |
| `custody_two_creations` | 2 webhooks for one name | violation: both answer success, the first wallet is gone |
| `whitelist_overlaps` | 4 requests, 2 users, 2 codes, 1 fault | `AdmittedByBurntCode` always; `OneUserPerCode`, `RevokedUserOut`, `RevokeTakesOwnEntry` while requests have not overlapped |
| `chat_turns` | 3 requests, 1 thread that callers name, 1 fault, fairness | `ThreadsDistinct` (numbers given out, and turns that ask on one thread), `AnswersFollowQuestions`, `DanglingOnlyByFailure`; `AnswerStored` unless the process dies; `LastIsNewest` where turns have not overlapped; `ResponseEnds`, except for a stream without content |
| `agent_stream_chunks` | streams of up to 3 messages of 9 kinds, every cut | `RelayedInOrder`, `ToolsComplete` for each key, `ContentComplete` where no chunk completes two identifiers |
| `agent_stream_coalesced` | content and tool call, every cut | violation: content that arrives in one chunk with a later tool call is dropped |
| `airdrop_windows` | 0, 15, 16, 31, 46 recipients of at most 45, windows of 2, 2 attempts, fairness | `SuccessMeansExecuted`, `PaymentsCertain`, `AtMostConcurrent` (batches, and transactions not left behind), `NothingSentAfterAnswer`, `AirdropAnswered` |
| `tx_answers` | 2 requests for 1 wallet, 6 endpoints, 0 or 1 unit on each network, fairness | `OkMeansExecuted`, `ErrorMeansUnspent`, `PrizeAfterStake`, `PreferredNetworkOnly`, `RequestAnswered` |
| `tx_preference` | 1 swap with a preference | violation: the swap goes to mainnet whatever `options.network` says |
| `das_walks` | 1 walk, 6 items on two networks, limits 1 and 2, at most 2 items in a request (3 for a balance), 1 change of the listing, an account that appears and vanishes, any failures and repetitions, fairness | `OneNetworkPerWalk`, `NothingTwice`; `NothingSkipped` and `PagesComplete`, which name each reason why a caller misses something; `CallAnswered` |
| `access_clock` | 1 address, 2 attempts in a window of 1, tokens of 2 and 1, 4 units of time, restarts | `AttemptsBounded`, `RefusedOnlyWhenSpent`, `ClaimsBounded` |

Type invariants have no run of their own: a theorem proves each of them (section 5).

Why the bounds suffice. Two requests for one name, code, conversation or wallet meet
at every pair of steps; the third and fourth request are for what takes a third
party (a creation after an aborted revocation, a validation after a validation and
a revocation). One fault reaches every error path; the second reaches the failure
of a restore. Two windows of two batches with a last one that is partly filled are
the shapes of the division; 46 is one more than the maximum. The one thread that callers
name in `chat_turns` is the first that is given out: the conversation's own for the first
conversation and another's for all others. The nine kinds of `agent_stream_chunks` have each
of content and tool calls with a character to cut in two, two calls with one key, and an
identifier within a body. The endpoints of
`tx_answers` are one for each way a plan ends (`MCTxSubmission.tla`); the proofs
cover all fourteen. Every subset of six items is a listing, five of them on mainnet:
it has full, partly filled and empty pages, and what the filters drop can stand
before, on and behind the edge of a page. In `access_clock` two windows follow each other, and a token of the
last second of another ends within the clock. Symmetry is used only in
`custody_serial` and `whitelist_overlaps`, which have no liveness property. Runs turn deadlock checking off because the system
comes to rest when every request has been answered.

History variables (`overlapped`, `coalesced`, `split`, `givenUp`, `gaveUp`, `wavered`,
`cutShort`, `swallowed`, `refused`, `start`, `log`, `lastHeld`) record what
has happened, so that a property can say exactly where it holds. They are read by
no guard of an action.

### Fairness

- WalletCustody: weak fairness of the steps of a request and of its outstanding
  writes. Node runs the continuation of every settled promise; the clients settle
  every promise. Nobody is obliged to call.
- ChatThreads: the same, and the agent ends every stream it was asked for. Clients
  may leave or stay.
- Airdrop, TxSubmission: every awaited call of the Solana libraries returns or throws
  (they time out). The network itself need not execute anything.
- DasPaging: the provider answers each request or `fetch` gives up, and Node goes on
  with it (weak fairness of `Serve`). The caller need not go on, and the listing may change.
- Access has no liveness property and no fairness.

## 4. Disagreements between code and documentation

`PROJECT.json` (`findings`) quotes the lines.

1. `user.controller.ts:58` Overlapping creations both succeed and the first wallet
   is lost (`custody_two_creations`).
2. `chat.service.ts:434` Taking out a tool call drops the content before it
   (`agent_stream_coalesced`).
3. `actions.service.ts:1990` A swap ignores `options.network` (`tx_preference`).

The models also contain, without a run that singles them out: the clean-up "If vault
storage fails, clean up Redis" (`vault.service.ts:226`), which cannot be reached, since
`writeSecret` reports a failure in a result nobody reads, so that the record stays and
the answer is a success; life times whose comments say fifteen minutes and whose
values are an hour (`auth.module.ts`, `'3600s'`) and a minute (`user.controller.ts:35`,
`60 * 1000`); an error of `getBlock` that looks like an empty block (`das.service.ts:1037`);
tokens cut off a page of twice the limit (572); the existence check
that does not look at Vault (`vault.service.ts:82`); `deleteSecret`, which turns
errors into `undefined` (447); restores that write to `secret/data/<name>` and
store `[object Object]` in Redis (`user.service.ts` 209 and below); a whitelist
validation that survives a revocation it overlaps; characters that are broken when a
chunk ends within them (`chat.service.ts:469`). The properties state the
guarantees that remain.

## 5. Proofs

All theorems hold for every value of the constants that satisfies the module's named
assumptions (`ConstantsAssumption`, `ListingsAssumption`, `LifeAssumption`, ...), which TLC
evaluates in each run.

- **WalletCustodyProofs**: `TypeCorrect`; `RevocationAtomic`; `SuccessWritten`;
  `KeysOfWritten`; `LifecycleImplemented`; and `SerialStoresAgree`, `SerialRecordKept`,
  `SerialDeletedBackedUp`, `SerialRevokedErased`.
  A committed document is settled only because of what the open transaction has
  written, so the invariant `TxnOK` ties the label of a revocation to the holder
  and the draft of its document. `WritesAwaited` says which of the two parallel writes
  have been acknowledged at each label of a creation. The refinement and the
  readers need `KeysComeLast`: the Vault write of a creation is sent only when its Redis and
  MongoDB writes have been acknowledged, and only then can its key be in Vault. A
  Vault write that arrives late, even after its request has died, may complete the wallet
  (`VaultActivates`), so that a wallet can become usable with nobody told of it. But it does so
  once: every other step maps to a loss or a stutter (`OnlyLoses`), and no late write,
  restore or crash makes a wallet usable a second time.
  The last four hold where requests for one name are handled one at a time
  (`Serial`, a constant of the model), as `custody_serial` checks them: with any number of
  requests and names, and, `StoresAgree` apart, any faults. `Alone` is what that gives. Then what a request has seen of the
  stores is still so when it acts on it (`StillSo`): no record when a creation writes
  one, the key that was backed up when it is deleted. `StoresAgree` is not inductive, since
  the stores differ inside of a request; `AgreeInv` says by how much at each label
  (`WritesFit`: as much as has been acknowledged, and nothing else).
- **WhitelistProofs**: `TypeCorrect`; `EntriesByBurntCodes`; `CodeAdmitsOne`; `RevokedOut`;
  `OwnEntryTaken`. `IInv`: a request about to save an entry holds a burnt code, and
  burnt codes stay burnt. `SerialInv`, while nothing has overlapped: at most one
  request is under way, and a code's user is the one its entries name.
  `FaultlessInv`, while nothing has failed either: a used code has its entry, unless a
  request is about to write it.
- **ChatThreadsProofs**: `TypeCorrect`; `NumbersGivenOnce` (every number given is behind
  the counter); `HistoriesInOrder` (phases of a turn and what it has stored in each);
  `LastMessageExcused`; `ShownAnswersStored` (unless the process dies); `ShowsNewest`, from `CreatedInv` (only a
  conversation that exists has turns) and `NewestInv` (where turns have not
  overlapped at most one is at work, and lastMessage is the last stored message
  unless that turn stands between its two writes).
- **AgentStreamProofs**: `TypeCorrect`; `OrderKept`; `ToolsKept`; `ContentKept`, for
  streams of any length and any choice of kinds, wherever the chunks are cut. `Layout` says
  that the text is divided into messages, `BufferInv` that the buffer is the end of what
  has arrived, with replacement characters where a chunk has cut one (`Resembles`). Then a turn
  that takes a body which parses takes a whole message (`TurnTakes`, from `FoundInText` and
  `WholeBody`), and what it relays comes behind all that was relayed before
  (`RelayedMore`). For what must not be lost, in well-formed streams, three more parts of
  `StreamInv` are needed: no message is cut by the begin of the buffer (`Uncut`), the
  loop over content meets no tool call that is complete (`NoToolLeft`), and where no chunk has
  completed two identifiers, no handler has a second message before it that the loop over
  tools could jump over (`FewInBuffer`). `NothingLeft` is the end of the stream. `ToolsInv`
  and `ContentInv` collect what has left the buffer and been relayed, tool calls by their
  keys (`KeyRelayed`).
- **AirdropProofs**: `TypeCorrect`, `EverybodyServed`, `BatchesPayApart`, `AnswersCertain`,
  `LoopNeverLeft`, `WindowBounded`, `QuietAfterAnswer`, for any number of recipients,
  maximum, window size and number of attempts. `Inv` relates the call, the window, the status of
  each batch and the transactions the network has taken, executed or failed; arithmetic lemmas show
  that the slices of 5 and 15 cover the list and are disjoint, and
  `EstimateExact` that the cost estimate counts the same transactions.
- **TxSubmissionProofs**: `TypeCorrect`, `OkExecuted`, `ErrorUnspent`, `ClaimAfterStake`,
  `PreferenceKept`, for all fourteen endpoints. `Orderly` collects what is used of the
  order of the calls in a plan, proved for each plan; `Known` says what a request
  that has got so far has done (nothing is sent before its submission, what
  has been checked has landed, what has been confirmed was executed on the network
  of the connection). `OneChanged` reduces a step to the request that takes it.
- **DasPagingProofs**: `TypeCorrect`; `OneNetwork`; `GivenOnce`; `GivenAll`;
  `PagesGivenAll`, for every finite listing, every limit and any number of changes. `Steady`
  says what a walk never changes, `NetInv` which networks it has used, `CursorInv` and
  `PageInv` how far it has got: what has been given stands at or above the cursor, or at a
  rank above the next page (lemmas about `Rank` and cardinalities). `FrontInv` adds that
  everything the walk began with and that stands above the cursor has been given or refused,
  which arrivals, being newer, cannot disturb. `WalkInv` is the same for pages by number,
  where the listing stays as it is: of all that ranks before the next page nothing is
  missing but what was refused or cut off behind the limit (`Trimmed`), and a walk that has
  stopped early has something before it that a filter drops. It rests on `PageCount`: the ranks of a listing have no gaps, so a page that is not full is
  the last.
- **AccessProofs**: `TypeCorrect`; `Throttled`; `OnlySpentRefused`; `ClaimsExpire`, for any
  limits and life times. `EntryInv` and `NumberInv` relate the count of an address to the
  attempts in the log; `ApartInv` separates two counts by more than a window;
  `CountInv` says that each number of a count has been given to one attempt. Any window
  meets at most two counts, and the first attempt of both only if it is too long.
  `Claims` bounds the age of the wallet in each token by the life it has left.

Only model-checked: liveness (`RequestsEnd`, `ResponseEnds`, `AirdropAnswered`,
`RequestAnswered`, `CallAnswered`), since fairness needs ENABLED, which is beyond the
provers. Every other property of a passing run, and every type invariant, is the subject of
a theorem.

## 6. Abstractions and assumptions

- Each awaited call takes effect at once; before and after it anything may happen. A failed
  write to MongoDB has not been applied; a failed one to Redis or Vault may have been, before
  the failure is reported and not later. The Redis, MongoDB and Vault writes of a creation are
  apart from what awaits them, and one that was sent can be applied after the process has
  ended. Deletions, restores and the commit of a revocation have taken effect by the time the
  process ends, or never do.
- MongoDB: unique indexes are built (mongoose `autoIndex`) and count a missing field;
  a write outside a transaction waits for the transaction that holds the document,
  a second transaction fails with a write conflict.
- Node (15 and later) ends on an unhandled rejection.
- A wallet is named by the request that generated it; cryptography always works. Only the
  newest backup of a name is kept. Passwords, tokens and signatures are no part of a model.
- Access codes do not repeat; `attempts` stays 0, since nothing increments it.
- An empty question is refused by the schema (`required`). When the client has left,
  the callback of `response.end` may or may not run.
- The threads that callers name for the agent are taken from a set (`Named`), whatever
  conversation they belong to; a name that is no number is 0.
- `JSON.parse` of a tool call gives its key and a rest that the server only forwards; a
  character that a chunk has cut is decoded to replacement characters wherever it stands.
- The airdrop's recipients are told apart by their place in the list. Nothing of a
  call survives the process, so that a crash is not modelled there. A transaction that the
  network has taken is executed, executed with an error, or expires, at any time; the model
  allows that also after its sender has given it up.
- Solana, in TxSubmission: a transaction spends one unit and a prize or the faucet
  brings one; preflight simulation refuses what cannot be paid for, and the claim of
  a prize on a network where the game was not played. `sendAndConfirmTransaction` of
  web3.js throws for a transaction that failed; `sendAndConfirm` of Umi and
  `confirmTransaction` return. The Helius SDK works on mainnet unless told otherwise,
  and its `sendSmartTransaction` polls until execution. Bodies that do not parse are
  refused before a request begins. `tradeTokens` (1809–1884) has no caller.
- Helius, in DasPaging: a listing is ordered, newest first, and a page of it is a range of
  its order at the moment of the request; an unknown cursor gives nothing; a
  confirmed block does not change. The account of a caller appears on mainnet and is drained
  and purged there as often as it likes (`AccountChanges`). Items are numbered by age. A portfolio is not
  repeated by its caller, since each call of it is a walk of its own.
- In Access signing takes no time and a client may keep or lose any token. The
  other tests of the guards are of signatures, which are assumed to be sound.

## 7. Not modelled

- `TrendingPoolsService` (`gecko.trending.service.ts`): no module provides it and nothing
  imports it; its interval, caches and flag never exist in the running server.
- `dlmm/`, `gecko.service.ts`: each operation forwards one request to an SDK or an API and
  keeps nothing; the properties they have are those of the libraries.
- Single lookups of `das.service.ts` (assets, NFTs, one transaction) and the sums and
  percentages of its analysis: one request without state, and floating-point sums.
- `das.types.ts`, `actions.types.ts`: shapes of foreign answers; `main.ts`, `app.*`: wiring.
- Redis hash and list helpers, which custody does not use; image generation and
  token reports, which are pure I/O; cryptography, passwords and Privy, which are
  libraries.

What would be worth doing next: the bounded part of liveness, a measure for each
component that every step of a request decreases, so that fairness alone is left to
assume; and for the walk through pages by number, what a change of the listing can cost.
