# StreamFi SDK: specification and proofs

The SDK in `src/` is a TypeScript client for a protocol of payment streams on
Stellar.  It runs in a browser or in Node: one thread, no shared memory, but
many promises, timers, sockets and RPC requests under way at the same time.
What is hard about it is what happens *between* two awaits: answers that come
late, twice or never, callbacks of objects that were replaced meanwhile,
retries of requests that did arrive.  The modules here model those parts, TLC
checks them on small instances, and TLAPS proves most of the safety properties for
instances of any size.

1. Inventory
2. How the modules are written
3. The modules and what is checked
4. Proofs
5. What the code does not keep
6. Bounds, fairness, limits
7. Plan

## 1. Inventory

Paths are relative to `src/src/` unless they start with `src/`.

| Component | State | Operations | Depends on | Hard part |
| --- | --- | --- | --- | --- |
| WebSocket relayer `relayer/WebSocketRelayer.ts` | current socket, lock and its queue, connect promise, reconnection flags and counter, offline queue, heartbeat timers, last transition | connect, send, disconnect, destroy, socket events, timers | WebSocket | tasks that interleave at awaits, events of older sockets, teardown at any moment |
| RPC circuit `rpc-circuit-state.ts` | per endpoint: state, failure counter, cooldown; listeners | read, record success or failure, reset, execute | - | callers with different thresholds, results of requests admitted earlier, a state that changes when it is read |
| Retry `with-retry.ts` | none beyond a call | withRetry | circuit | retries that do not look at the circuit again |
| Soroban transport `soroban.ts` | server caches, ledger-info cache, decimals cache, timeout counters | createRpcServer, getLatestLedgerInfo, build, simulate, invoke, poll for confirmation | circuit, retry | a transaction that lands after its confirmation timed out; caches filled by late answers |
| Event subscription `events.ts` | poll loop, cursor or start ledger, dedup window, sequence and ledger trackers, two repair flags | subscribe, unsubscribe, replay, history pages | transport, gap detector | three fetch loops over one dedup window, page limits, unsubscribe in mid-flight |
| GraphQL indexer `indexer.ts` | active subscriptions, per subscription socket, timers, handshake; persisted queries | query, fetchAll, subscribe, cleanup | WebSocket, fetch | heartbeat and onclose both reconnect, teardown from inside callbacks |
| Batch submission `batch-tx.ts` | per call: outcomes, first failure | build, submitBatch, getFailedOperations | transport | a chain of sequence numbers under lost requests, lost answers and late ledgers |
| Streams `streams.ts` | wallet, caller address, in-flight reads | create, withdraw, cancel, pause, batch, list, estimate | transport, factory, coalescing | submit and confirm; cached address of a replaced wallet |
| Factory `factory.ts` | address cache with negative entries | addresses, counts, admin calls | transport | negative answers that overwrite positive ones |
| Governor `governor.ts` | config cache, in-flight fetch | getConfig, proposals | transport, coalescing | a result that arrives after the cache was cleared |
| Client `client.ts` | modules, endpoint index | setWallet, failover, health | all modules | endpoint replaced under running calls |
| Builder `builder.ts` | fields, payload queue, semaphore, timers; batch queue, processing flag | setters, submit, reset, clone, execute, executeAsync, cleanup, destroy | batch submission | cleanup while the queue is being processed, timers taken from a submission |
| Coalescing `coalesce-async.ts`, memo cache `lru-memo-cache.ts` | promises by key; LRU order, TTL | get, evict | - | eviction by an entry that is no longer current |
| Bounded concurrency `map-with-concurrency.ts` | worker pool, token bucket, adaptive limit | mapWithConcurrency | - | a limit that shrinks below what is in flight |
| Wallet adapters `adapters/`, `signer.ts` | session, pairing, pending requests; cached keys | connect, sign, authorize, disconnect | wallet, device | answers after disconnect, a wallet or device that was switched meanwhile |
| Fee estimator `fee-estimator.ts` | fees by operation, base fee, promises under way | estimateFee, getLedgerFeeStats | transport | two caches in a row, promises shared between operations |
| Transaction history `dashboard/` | list, filters, page, memo of the filtered rows | reducer, selectors | - | sorting and paging with ties |
| Errors `errors.ts`, `relayer/ErrorMapper.ts` | handlers on the relayer | classify, parse, isRecoverableError | - | three contracts with the same codes, chains of causes |
| Utilities `utils.ts` | - | amounts, rates, durations, what a stream owes | - | rounding, boundaries of time |
| React bindings `src/packages/react`, `react/` | state of each hook, request numbers, snapshots | one hook per call | client | answers for an argument that changed, optimistic changes that fail |
| Token, custom fetch, types, numbered modules | none | one call each | transport | little |
| Generator, examples | - | - | - | - |

How they interact: every RPC request goes through the proxy of
`createRpcServer()`, hence through `withRetry()` and the circuit of its endpoint,
which React hooks and circuit breakers of the application share.  The modules
(streams, factory, governor, token) are called by the client and the React
hooks; each submits transactions through the transport.  Subscriptions
(relayer, indexer, events) run on their own timers and call the application
back, which may call them again from inside the callback.

What makes each component correct: the relayer's lock excludes and forgets
nobody, messages are neither reordered nor repeated, and its announced state is
true; the circuit's counter and state agree and it recovers; subscriptions
deliver each event once, heal gaps and stop when told; an answer about a
transaction is true whatever was lost, and a batch never breaks the chain of
sequence numbers; a cache is no older than it says and forgets failures; a
queue settles every promise it handed out; a signature is for what was asked;
an amount is the one that was entered, to the unit; and what is shown belongs to
what was asked for.  The points where each of these could go wrong are the `hazards` of `PROJECT.json`.

## 2. How the modules are written

JavaScript runs one job at a time.  An action is one such job: the code from
one await (or event, timer, call) to the next, with every synchronous call it
makes.  Where the order of jobs matters (the relayer), `Quiet` states the rule of
the platform that continuations of settled promises run before the next event or
timer.  Sockets come from a pool and are reused once nothing refers to them, so
reconnections need no bound.  Time appears only where the code compares it.

Variables have the names of the fields or local variables they model.  A
definition introduced by "A mistake for the runs to notice" is not part of any
specification: it is a plausible bug that replaces the definition below it in a
mutation run, to see that the named property would catch it.

Every component has a module of its own.  The smaller ones are checked together,
in four composites (`MCClient`, `MCFeeds`, `MCReads`, `MCWrites`): a variable
`scenario` says whose turn it is, one component moves and the others stay as they
began.  That is an economy of runs, not a claim of interaction: those modules
share no variable, so that every behaviour of a composite is one of a component
by itself, and fairness is stated of the component's actions in its scenario.
Where components do interact, the interaction is inside one module: the circuit
with withRetry() and the proxy, the caches with the coalescing under them, the
streams module with its fee cache and the estimator behind it, submission with
the ledger and the wallet, the client with its modules, subscribe() with the
lookup of the address before it.  `ClientWallet` puts the client beside the session of the
wallet it holds, each moving by itself, and defines `WalletFollowed` of the two.

Each module ends its actions with a specification of its own (`Spec`, `PoolSpec`,
`SubmissionSpec`, ...), which is what the theorems of section 4 are about; the composites
run the same `Init` and `Next`.

## 3. The modules and what is checked

Seven runs hold (the first table), five show what the code does not keep (section
5).

| Run | Scenarios | Properties |
| --- | --- | --- |
| `RelayerSafety` | every operation, heartbeat, 2 calls, 3 sockets, 2 messages | `LockExclusion`, `LockQueueExact`, `SendTruthful`, `NeverSilent`, `ImplementsChannel` |
| `RelayerOrder` | no teardown, 3 messages that may expire, an offline queue of 2 | `WireInOrder` |
| `RelayerLiveness` | constructors that throw, disconnect(), no heartbeat | `CallsReturn` |
| `Client` | circuit, facade, session, signing, signer, request, amount, error | `CountMatchesState`, `ListenersKnow`, `Recovers`, `WalletFollowed`, `SignaturesAsAsked`, `ArgumentsAsAsked`, `AmountsExact`, `MeaningKept` |
| `Feeds` | poll, feed, cliff, reads, mutations, history | `DeliveredExactly`, `SilentAfterUnsubscribe`, `PollDelivers`, `NobodyLeftPolling`, `ShownAsAsked`, `MutationsTruthful`, `PagesExact` |
| `Reads` | subscription, cache, fee, stats, memo, math, walk, batchread, query, sse | `TransportExact`, `NothingLeftBehind`, `SubscriptionReopens`, `CachesHonest`, `EstimateAge`, `MemoExact`, `PayoutExact`, `ReadWhole`, `QueryTidy`, `LinesExact` |
| `Writes` | batch, call, builder, batcher, pool, build | `OutcomesTruthful`, `BatchExact`, `AnswersTruthful`, `SubmittedInOrder`, `SlotsExact`, `QueueServed`, `PoolExact`, `EverythingSettles` |

In the composites some names stand for the properties of two or three modules:
`WalletFollowed` is `OneWallet` and `SessionWatched`, `SignaturesAsAsked` is
`SignedAsAsked` and `SignersTruthful`, `ReadWhole` is `WalkExact` and
`BatchReadExact`, `BatchExact` is `BuiltExactly` and `BatchInOrder`,
`SubmittedInOrder` is `OrderedSequences`, `SignedBySource` and
`HaltsAtFirstFailure`, and `EverythingSettles` is `Returns`, `SubmissionsSettle` and
`BatchesAnswered`.

### Connections

**WebSocketRelayer, MessageChannel** (`relayer/WebSocketRelayer.ts`).  A task is a
call of an asynchronous method, and `pc` the await it stands at: `queued` and
`granted` around `acquireLock()`, `backoff`, `opening`, `settled` under the lock.
`Connect`, `DoConnect`, `AfterOpening`, `ConnectReturns` are the four pieces of
`connect()`; `Reconnect`, `BackoffEnds`, `AfterOpening` those of
`attemptReconnect()`; `Send` and `SendLocked` those of `send()`.  `SocketOpen`,
`SocketError`, `SocketClose` and `Frame` are the event handlers, `HeartbeatTick`
and `HeartbeatExpires` the timers, `Disconnect` and `Destroy` the two teardowns.
`attached` says which handlers a socket still has, which decides what a late
event does.  `onerror` and `onclose` are two events, with continuations between
them.  `SendTruthful`: a message is kept for a connection to come as long as
there is room, refused for good when the attempts are used up, and neither while
the relayer is up.  `NeverSilent`: when the application was last told of a
connection or an attempt, the relayer is connected, at work, or will still hear
the close of a socket.  `WireInOrder` is promised
only without teardown: with a disconnect() a message sent after it may overtake
one that is being flushed.

`MessageChannel` is the abstract specification of the outbound direction: a
channel that may lose messages but writes each at most once and only if it was
given.  `ImplementsChannel` is its specification under the mapping
`pending` = messages that some send() or the offline queue holds.

**RpcCircuit** (`rpc-circuit-state.ts`, `with-retry.ts`, the proxy of
`soroban.ts`).  One circuit with callers of both kinds.  `Start` and `FailFast` are
the check at the beginning of `execute()` and of `withRetry()`; the other actions
are the ways a request ends.  `GetCircuitState` is an operation that writes:
reading an open circuit after its cooldown makes it half-open and tells the
listeners.

**IndexerSubscription** (`indexer.ts`).  Subscriptions of one indexer on the
WebSocket path.  `owner` is the subscription a socket's handlers belong to,
`None` once they are detached.  `ScheduleReconnect` and `End` are shared by
`SocketClose` and `HeartbeatExpires` as in the code.  An `onError` callback may
call `unsubscribe()`: that is why `SocketClose` may always end the subscription.
A constructor that throws is reported and forgotten: such a subscription stays
active with neither socket nor timer, so `TransportExact` and
`SubscriptionReopens` are stated of the others.

**SseSubscription** is the other path of `subscribe()`: chunks of a streamed
body cut the text anywhere, and `ChunkRead` passes on the complete lines and
keeps the rest.  `LinesExact`: the lines reported are a prefix of those written,
each once.

**IndexerQuery** is one `query()`: the two requests of the persisted-query
protocol, the timer and the caller's signal, which are both taken off before the
body is read.  `QueryTidy`: the text goes only to a server that does not know its
hash, the timer and the listener live as long as a fetch, a timeout is not blamed on
a caller who aborted, and the metric says what the caller was told.

### Events

**EventSubscription** (`events.ts`).  The poll loop (`Poll`, `Seed`, `Fetch`,
`PollFails`), the two repairs (`ReplayGap`, `BackfillLedgerGap` and their
failures) and `Unsubscribe`.  `Fetch` handles a whole page by folding `Polled`
over it, as the loop in `poll()` does without an await.  The RPC node and the
chain are external: `Page`, `From`, `After`, `CloseLedger`.  `node` is the kind of
RPC node the subscription talks to, fixed at the start: whether it answers with
a cursor, and which events it may leave out of the answer to a poll because it
lags.  `DeliveredExactly`: nothing twice, on a node with cursors that leaves
nothing out no gap and no disorder either, and failures counted no further than
the bound that stops the loop.

**EventListeners** (`streams.ts`, `events.ts`, `useStreamEvents`).  What is around
that loop: `subscribe()` and `subscribeToStreams()` return before the address is
known, so that `Unsubscribing` and `AddressesResolved` come in any order; the
handlers of an event; the effect of the React hook; the cliff timer of
`onStreamEvent()`.  `NobodyLeftPolling`: no inner subscription is left polling
for one that was ended, whatever its lookups answer later, and the subscription a
hook holds is for the stream that is shown.

**PagedReads, Selections** (`events.ts`, `factory.ts`, `streams.ts`, `indexer.ts`): reads
that go page by page while the collection grows, each with its own idea of "more".
What a filter, a `Map` or a `Set` leaves of a sequence is given by positions
(`Picked`, `Ascending`).
`WalkExact`: a walk that ran to its end has handed over everything that was there
when it began, once and in order, unless it met a limit the code states
(`Unclipped`).

### Reads, caches, arithmetic

**ReadCaches** (`coalesce-async.ts` and seven caches).  One key of one cache, whose
`kind` is chosen at the start; a call joins the `flight` of another or fetches, and
`NodeReads`, the moment the node looks at the value, is apart from the moment its
answer arrives.  `CachesHonest` is two parts: ledger info was the latest less than
its time to live before the call, or after it (`LedgerInfoAge`); and the map of
fetches under way holds the last one since it was cleared, and never a promise
that has rejected (`FlightExact`).  The caches that store a late answer over a
newer one have no such promise of age (section 5).

**FeeEstimator** (`fee-estimator.ts`, `streams.ts`).  The cache of
`StreamsModule.estimateFee()` lies before the estimator's own.  `NodeSimulates`, the
moment a fee is of, is apart from the arrival of the answer, which stamps the entry.
`EstimateAge`: when it is asked for, an estimate is at most twice its time to live old
and the time its answer took, and what the estimator remembers for an operation was
simulated for it.

**LruMemoCache**: the order of use, expiry, and snapshots.  `MemoExact`:
never more than the size, what goes next is what was used longest ago, and a
snapshot restores the same keys in the same order of eviction.

**StreamMath** (`utils.ts`, `streams.ts`): what a stream owes, both copies of it,
while the ledger withdraws, pauses and cancels.  `PayoutExact` relates them:
the copies agree, what is streamed never passes the term, and nothing
more comes of a stream that is over.

**StreamsBatchRead** (`client.ts`, `streams.ts`): `getStreamsBatch()` and
`getStreamInfos()`, chunk after chunk with a bound on the reads under way.
`BatchReadExact`: every id that was asked for is in the results or in the
failures, once however often it was named, in the order of the first occurrences.
`ReadWhole` joins it with `WalkExact`.

### Transactions

**BatchBuild, BatchSubmit** (`batch-tx.ts`).  `BatchBuild` is the checks, the
encoding of maps and arguments, the sequence numbers and the simulations that
run together; `BuiltExactly` says each transaction is that of its operation and
its place.  `BatchSubmit` is `submitBatch()` piece by piece (`Skip`,
`StartTransaction`, `Sign`, `Send`, `SendThrows`, `Poll`, `PollGivesUp`, `Finish`),
the signal (`Abort`) and a retry of the failed operations (`Retry`) against an
external ledger that accepts, applies, rejects or drops transactions and whose
answers may be lost.  `OutcomesTruthful`: SUCCESS means applied, and FAILED and
SKIPPED mean not.

**Submission** (`streams.ts`, `token.ts`, `governor.ts`, `soroban.ts`).  One call of a
method that changes the ledger, with one item or several; `place` is the await an
item stands at.  `StartInvoke`, `StartCreate`, `StartApprove`, `StartWithdrawal`,
`StartProposal` are the beginnings of the methods, `ResolveAddr`, `GetSender`,
`GetAccount`, `Simulate`, `SignTx`, `SendTx`, `PollOnce`, `PollTimesOut`, `ReadValue`
the pieces they share.  Between any two of them `SetWallet` replaces the wallet,
`AbortSignal` aborts, and the external ledger applies (`LedgerApplies`), forgets
(`LedgerForgets`) or is used by somebody else (`OtherApplies`).
`AnswersTruthful`: a success of the streams module is applied, a
failed transaction neither is nor will be, and what was rejected or skipped never
reached the ledger.  `SignedBySource`: approve() and executeMultipleProposals()
have a transaction signed by the account it was built for, whichever wallet is
set meanwhile.

**StreamBuilderQueue, ConduitBatcher** (`builder.ts`).  `submit()` with its
semaphore, queue and backoff timers; `StopTimers` is `cleanup()` and `reset()`.
`SlotsExact`: the slots in use are those that submissions hold, and nobody waits
beside a free slot.  The batcher's loop gives way only inside
`buildBatchTransactions()`; `building` is the set of loops suspended there, because
`cleanup()` lets a second one start.  `QueueServed`: a loop is there for every batch that waits,
and only one as long as cleanup() has not reset the flag under it.

**WorkerPool** (`map-with-concurrency.ts`): fixed and adaptive limit;
`PoolExact`: no wake-up is lost, no item taken twice or left out, and the
promise resolves with a result in every place.

**StreamRequest** (`builder.ts`, `streams.ts`): three ways from what is asked to the
eight arguments of create_stream; `ArgumentsAsAsked` says of each what it keeps.  A
deposit is a number of units or a decimal text of tokens; a text counts grains, the
finest that its places tell.  `create()` rounds it to units (`HalfUp`); the builder and
`execute()` encode it as it is (`Encoded`), so that its tokens become units; and
`execute()` makes a void argument of a deposit that is missing.  The property is
exact about the first and states the other two as the exceptions they are
(`DepositAsAsked`).

### The application's side

**ClientFacade** (`client.ts`): construction, `setWallet()` through all modules, the
calls passed on, `health()`.  `OneWallet`: the modules hold the wallet
that is attached, and no wallet that failed the check of its chain would sign.

**WalletSession, WalletSigning, Signers** (`adapters/`, `signer.ts`).  Sessions of
WalletConnect against the wallet's own list of them; signatures of each adapter
while the user switches network and account; key pair, Ledger device and passkey,
with the conversion of a DER signature byte by byte, because it is what the
property is about.  `SignedAsAsked`: a signature that is returned is for the network asked for
or built for, and a key comes back from a keystore as it was exported.
`SignersTruthful`: an envelope is signed when the call said so, an entry only for
its own address, and a broken answer of the authenticator is refused and never
taken for another signature.  `SessionWatched`: an adapter that says it is connected
hears the end of its session.

**Amounts** (`utils.ts`, `soroban.ts`): texts, units and durations against what they
mean, half-up rounding included.  **ErrorMapping** (`errors.ts`,
`relayer/ErrorMapper.ts`): the routes from a failure to its name; `MeaningKept`: no
route gives a code another contract or number, none is invented, and with fewer
than five wrappers `isRecoverableError()` says whether the failure was transient.
A code that several contracts share stays without a contract (`Ambiguous`).

**HookReads, HookMutations** (`src/packages/react`, `react/`).  The hooks fall into
five forms each, chosen at the start: which request number they compare, when they
bump it, what they append to.  `ShownAsAsked`: a hook that is not loading and reports no
error shows what it was asked for, but for the exceptions its comment names.  The form
`polled` is `useWithdrawableAmount`, which has a state of its own: `rate` names the
streams whose samples made `ratePerSecond`, `ahead` those by whose rate the ticker
(`LiveTick`) has taken the amount shown beyond the last sample, and `switched` says that
the hook was asked for one stream straight after another.
`MutationsTruthful`: no hook is left pending without a call, the result shown is
of a call that succeeded, two clicks send one clawback, and an optimistic change
made alone does not outlive its failure.

**TransactionHistory** (`dashboard/transaction-history.ts`): the reducer, the memo of
filtered rows, and the page taken from a bounded heap; `PagesExact` compares it
with the sorted list.

## 4. Proofs

TLAPS proves, for every value of the constants that the named assumptions of each
module allow, the properties below.  Each follows the same argument: an invariant
that is stronger than the property and is inductive (`...Inv`), one lemma for `Init`, one for
each action or group of actions, and a temporal step at the end.  What is said
here of each is what the strengthening adds and why it is needed.

| Module | Properties proved | Of |
| --- | --- | --- |
| `WebSocketRelayer_proofs` | `TypeOK`, `LockExclusion`, `LockQueueExact`, `SendTruthful`, `WireInOrder`, `NeverSilent`, `ImplementsChannel` | `Spec` of the relayer |
| `Client_proofs` | `TypeOK`, `CountMatchesState`, `ListenersKnow`, `SignaturesAsAsked`, `MeaningKept`, `AmountsExact` | the circuit, wallets and signers, the naming of errors, amounts and durations |
| `Indexer_proofs` | `NothingLeftBehind`, `TransportExact`, `LinesExact`, `QueryTidy` | the indexer's two ways to subscribe, and `query()` |
| `Events_proofs` | `DeliveredExactly`, `SilentAfterUnsubscribe` | `Spec` of the event subscription |
| `Selections_proofs` | lemmas on positions: induction, least elements, ranks, `Nth`, `Ascending`, `Picked` | any finite set of positions |
| `Reads_proofs` | `CachesHonest`, `EstimateAge`, `PayoutExact`, `ReadWhole`, `MemoExact` | the caches, the two in front of a fee, what a stream owes, walks over pages, batches of reads, the memo cache |
| `Writes_proofs` | `AnswersTruthful`, `SubmittedInOrder`, `OutcomesTruthful`, `BatchExact`, `SlotsExact`, `QueueServed`, `PoolExact` | one call of a method that submits, a batch that is built and sent, the builder, its batcher, the worker pool |
| `Application_proofs` | `NobodyLeftPolling`, `ShownAsAsked`, `MutationsTruthful`, `WalletFollowed`, `ArgumentsAsAsked`, `PagesExact` | listeners, hooks, wallets, the arguments of a new stream, the pages of the history |

**Relayer.**  Any sets of calls and sockets, any number of messages, from
`RelayerAssumption`.  `RelayerInv` is what one must know to believe in the lock.
`LockOK`: who waits is queued and who is queued waits, each once, while somebody holds
the lock nobody else does, and after destroy() the queue may be forgotten but
nobody is granted the lock any more.  `SocketOK`: a connection promise that is not
settled has an owner, which stands at `opening`, and a task at `opening` waits for
one socket only.  `MessageOK`: a message is in one place.  The lemmas on
`AcquireFrom` and `Release` are stated once, of sequences of tasks, because the flush
in `onopen` queues several at once.

- `SendTruthful` adds nothing to `RelayerInv` but what a step does to a message that
  `send()` has in hand.
- `WireInOrder` needs `OrderInv`: what is on the wire comes before what is on its way,
  and that is in order whether it stands in the line of the lock or in the offline
  queue (`MessagesInOrder`); an accepted message is not kept offline while the relayer is up
  (`NothingStranded`), for then a later one could pass it; and who waits under the
  lock for a timer or a socket does so because the relayer is down (`BusyDown`).  The
  theorem has a hypothesis, that `disconnect()` is not among the
  operations of the application.  It is needed: with a
  `disconnect()` a message sent after it may overtake one that is being flushed.
- `NeverSilent` needs `SilentInv`: a socket is heard in all its events or in none, and an announced
  connection or attempt has a task at work or a socket whose close will be heard
  (`SilentOK`).  Its hypothesis is that the constructor of `WebSocket` returns: a
  reconnection whose constructor throws ends without a word.  A constructor throws
  for a URL it cannot parse, which does not change between two attempts, so
  that this is the case of a relayer that never had a connection; `RelayerSafety` makes
  the same assumption, and `RelayerLiveness`, where constructors throw, does not
  state the property.
- `ImplementsChannel` is the step simulation of `MessageChannel` under the mapping of
  section 3: `Pending`, what a send() or the offline queue holds, grows only by a
  message that `send()` accepts and shrinks by what is written or lost.

**Circuit.**  Any number of callers, thresholds and retries, from `CircuitAssumption`.
Over the three properties `CircuitInv` has `SleepsToRetry`: a call sleeps only while it has
a retry left, without which the bound of `attempt` is not inductive.

**Signatures.**  Any networks, accounts, key fetches and entries.  `SigningInv`: a call that is at
the wallet carries the network of its option, or else the transaction's, whatever
the wallet is switched to meanwhile.  `SignersInv` relates for each entry what the
authenticator produced to the step of its call (`AuthInv`) and the cached key to the fetches under way
(`KeysInv`: a second key was seen only if two of them overlapped).  That a signature is
the two scalars the authenticator answered with rests on `WholeOrNothing`: the reader
of DER returns both scalars, each padded to its width, from the whole encoding, and nothing from any
proper prefix of it.  `SignerAssumption` bounds `ScalarWidth` by 60, for a longer pair does not fit the
one byte of length that the encoding of a P-256 signature uses; the code's width is 32.

**Errors.**  Any number of wraps.  `ErrorInv`: what is thrown is a chain of the
application's wraps around a core (`IsChain`), and the core is true to the failure on every route
(`CoreOK`).  A chain of fewer than five wraps is read to its core, which
`FirstOf` finds, so that its answer is the core's.

**Events.**  Any number of events and ledgers, page limits, window and failures.  The
handlers of a page are a fold (`PolledPage`, `DispatchPage`); `FoldPolled` and `FoldDispatch` unroll it into
the states between two events, and `UpTo`, induction over a set of positions, carries to
the end of the page what each event keeps.  `EventInv`: of a window that holds every event, the log is part
of it and neither holds an event twice (`Once`), which is `AtMostOnce`; failures stop the loop at
the limit; nothing is known before the first ledger is (`Unseeded`); and `Follows`, for a node with cursors that
leaves nothing out: the events up to `Position` have been handled and no others (`Ordered`), the next page
starts right after, so that no replay ever starts, and a backfill, which starts wherever
ledgers hold no event, finds none.  The lemmas on the node say that events are numbered
in the order of their ledgers (`BeforeExact`) and that a page of a run is its
beginning (`PageOfRun`).

**Indexer.**  Any subscriptions, sockets and attempts.  `IndexerInv`: no two
subscriptions share a socket, and one that has handlers is the current one of
its owner (`OwnersExact`); one that is over has nothing left (`EndedExact`); a timer and an
attached socket exclude one another and one of them is there, unless the constructor
threw (`TimersExact`).  `SseInv` counts: the lines of the chunk in hand follow those that were passed,
up to the last line that was read whole.  `QueryInv` relates the phase of a query to its
requests, its timer and listener, and its metric.

**Caches.**  Any number of readers and operations, any time to live.  `LedgerExact`: a
reading was the latest when it was asked for or later, and an entry expires less
than `Ttl` after it stopped being so; hence the age.  `SharedExact`: a fetch in the
map was started by its own call.  `AgesExact` says of the two fee caches what each may
add, counted from the arrival of the answer; with the time the answer took, which each
fee carries, that sums to the bound.  `FeeAssumption` excludes that an operation
is called `any` or `none`, the marks for a promise shared between operations and for no value.

**Walks and batches of reads.**  Collections, pages and limits of any size.  `WalkInv` says of
each form of walk what it has read so far.  One that goes by a cursor or by a ledger has read
all that is wanted up to where it is (`PagedWhole`; `fetchAll()` at least once,
`AllWhole`); one that goes by a number of entries has read the beginning of the list
of what is wanted (`ListWhole`), and that stays its beginning while the collection grows, because an
entry comes at the end (`NthStable`).  `list()` merges two indices: within the
window both are led by the same numbers, so that their merged list begins like the list of
all (`LeadsStay`, `MergedLead`).  `BatchReadInv`: what the workers of a chunk have taken is in
flight or has an outcome, and never more is in flight than they are (`InFlight`); every
position of the chunks before it is in one of the two lists (`GatheredWhole`).

**Memo cache.**  Any keys, sizes and times to live.  `MemoInv`: the keys stand in the order of
their last use, hence each once, and those of a snapshot differ.  Of `insert()` one lemma says that it keeps
the order whatever it evicts (`InsertIs`); `hydrate()` is unrolled into the caches between
two entries (`HydratedStates`), with the use of each counted as it comes.  That a snapshot restores
its keys is an induction along it: no entry is there yet and there is room for all, so that none
moves or evicts another.  `MemoAssumption` excludes a cache for no entries, which
the code accepts and which then holds one.

**Stream arithmetic.**  Every rate, term, amount and time.  The operators are plain
arithmetic, and most of the work is in lemmas on them: `CopiesAgree` (the two copies
differ only in where they clamp), `StreamedMonotone`, `TermBoundsPayout`,
`FrozenStreamsNothing`.  In `PayoutInv` the amount withdrawn is, until the
cancellation, no more than has been streamed; that is inductive only because
what is streamed never falls, which rests on how the ledger stamps a pause: never
behind the local clock of the snapshot.

**Amounts.**  Texts of any length, tokens of up to 22 decimals, halves of any width.  `Power` is a
recursion of its own, unrolled once (`PowerIs`); that powers of ten add (`TensAdd`) carries the rest.
`DigitRounds` is the rounding of a digit and what follows it; `NearestScaled` and
`NearestShifted` take it from the digits kept to the whole text.  What is printed reads back
because zeros at the end stand for a factor of ten (`TrimmedIs`, `ReadsBack`).  `AmountInv`
says what each result was converted from, and keeps the halves of an i128 in their ranges (`HalvesOK`).
`AmountAssumption` stops at 22 decimals because `pow10()` takes larger powers of ten from a
double (`utils.ts:13`), which holds them exactly up to there, and bounds a duration so
that its seconds are exact.

**Writes.**  Any number of items, wallets and polls.  `SubmissionInv` says what the
place of an item implies of its transaction and of the ledger (`ItemExact`: not sent
means unknown to the ledger; a transaction that landed has a number the account has passed), that
the items of two methods take turns (`TakenInTurn`), and that `createBatchStreams()` has
either numbered all its transactions or none (`ChainPending`).  Actions are grouped by
what they change: those that only move an item share one lemma.  `BatchInv` for batches
of any length: the ledger applied only what reached it (`LedgerExact`), what reached it
is of an earlier round or before the current position (`ReachedInOrder`), and in
the first round the ledger's number is that of the last outcome, or one ahead
while the current transaction is polled for (`FirstRoundExact`).  That is why a sequence number the
ledger refuses occurs only in a retry, which `BatchRetry` shows.  `BuildInv`: while
simulations are out there is one for each operation, and the network and the first
number are settled (`SimulatingOK`); `ChunksAlwaysCover` is the arithmetic of the chunks, for any
list and any size.  `BatchExact` joins the two, which share no state.

**Queues.**  Any number of payloads, slots, batches and items.  `BuilderInv` adds to the count of the
slots that who waits is in line once (`LineExact`); `BatcherInv` that the flag tells of
the loop until `cleanup()` resets it under one (`BatchLoops`).  `PoolInv`: an item that was taken is in
flight, parked or answered (`PoolItems`), and nobody is parked while nothing is in
flight, which is what makes every wake-up arrive.  Cardinalities are
handled by the library's theorems on finite sets.

**Application.**  `ListenerInv`: a subscription that was ended has been asked for, so
that its identity is never taken again.  `HookReadsInv`: a request that is not stale is
for the arguments of the render (`LiveOK`), and only `useStreamBalance` has several of
them; the sample of the ticker is of the stream asked for, with its rate, unless the hook
went straight from one stream to another (`TickerOK`).  `MutationsInv`: `ToldOK`, what is told belongs to the last call; `JoinedOK`, the reference that
guards a clawback names the one under way; `OptimismOK`, an optimistic call that runs
alone keeps the stream as it was.  `FacadeInv` and `SessionInv` relate the modules'
wallets to the attached one and the shown session to those the wallet
granted.  `RequestInv` carries the three ways to the arguments: the builder holds what it was
told with the deposit as it encodes it (`AsSettings`), and a text is never negative
(`WellSaid`).  The lemma `HalfUpNearest` is the rounding of deposits and rates,
`EncodedWhole` what the encoding makes of a text.

**Transaction history.**  Any rows, times and page sizes.  `HistoryInv`: the memo, if it is of
the current array, holds what its signature asks for.  The work is in the heap.  No two
positions have the same priority (`PrioritiesOrder`).  While an entry rises only it may be
older than its parent, while one sinks only the two under it may, and in both cases these two are
newer than the parent above it (`OnItsWay`); each turn keeps that and brings the entry
further, so that it ends within as many turns as there are entries (`SiftIs`).  Hence the lowest stands on top (`LowestOnTop`), and
after each row the heap holds the top of the rows offered so far (`HoldsTop`,
`OfferKeepsTop`).  A row has as many above it in the heap as among all rows, and each number
belongs to one row (`HeightsDiffer`, `HeightsReached`), which makes the sorted heap the beginning of the sorted
list (`TopKIs`); the rest is the arithmetic of pages (`TotalPagesIs`) and slices (`SliceIs`).

Every invariant was checked by TLC on a small instance before it was proved.  The
two `TypeOK` are proved and therefore in no run; so is `LineAlwaysExact`, that who
waits for a slot stands in line once.

What stays with TLC is liveness: `Recovers`, `CallsReturn`, `PollDelivers`, `SubscriptionReopens`,
`EverythingSettles`.  The installed provers reach neither `ENABLED` nor fairness.

## 5. What the code does not keep

Each of these runs checks one sentence of the source or its docs, and TLC finds a
behaviour of the code against it.

| Run | The sentence | What happens |
| --- | --- | --- |
| `RelayerLateClose` | "only reconnect if not already connected" | `onclose` of an older socket clears `ws`; a second connection is opened beside an open one |
| `RelayerStaleHeartbeat` | "drive the reconnect ourselves instead of waiting" | a timeout of an older socket detaches one that is connecting: connect() never settles and keeps the lock |
| `CircuitProbe` | "allowing a single probe request" | every call that finds the circuit half-open is let through |
| `EventsLostPage` | "Re-fetch events from the last known ledger" | without cursors, what the page limit cut off is never fetched |
| `BatchRetry` | "ready to feed directly back" | ERROR also stands for lost answers and timeouts of accepted transactions, and the retry applies such an operation twice |

The models follow the code in the following too.  No run shows these; the
properties are stated so that they hold around them, and a reader who changes the
code can sharpen them.

Caches and reads

- A resolved stream address is called immutable and cached (`factory.ts:118-119`);
  a negative answer that arrives late overwrites it (335-338).
- After `clearConfigCache()`, a call still joins the fetch under way, whose result is
  then stored; the ledger-info cache does the same; `setWallet()` may be followed
  by the address of the wallet it replaced (`streams.ts:608`).
- A memo cache of no entries holds one (`lru-memo-cache.ts:127-136`).
- Calls without a cache share one fee promise, so an operation may be given the fee of
  another; a `fetch` that throws synchronously leaves the shared promise set.  A fee
  is stamped when its answer arrives (`fee-estimator.ts:444-446`), so that the time the
  answer took comes on top of both times to live.
- `list()` with a sender and a recipient loses streams beyond MAX_LIST_LIMIT;
  `replayEvents()` stops after one page on a node without cursors.
- A query's body is read without timer or signal.  An SSE subscription is never
  reopened, and lines of a chunk in hand are passed on after `unsubscribe()`.

Transactions

- `executeAsync()` builds every chunk from the same account, so that sequence numbers
  repeat from chunk to chunk (`builder.ts:1142-1151`, against 778-783).
- `executeMultipleProposals()` goes on after a hash that was not confirmed
  (`governor.ts:164-168`); so does `batchWithdraw()` after a poll timed out.
- `create()` and `createBatchStreams()` reject although the stream exists when only the
  lookup of its address fails; `createBatchStreams()` sends its chain concurrently.
- `withdraw()` and `topUp()` do not hand their signal on.
- `cleanup()` and `reset()` of the builder stop the backoff timers: such a `submit()`
  never settles and keeps its slot (`builder.ts:610-613`).  An abort from
  inside the last `onProgress` leaves the batcher's promise open.
- `validatePayload()` and `bigintSafeStringify()` run outside any catch
  (`builder.ts:1103-1118`): when one throws, as for parameters that refer to themselves,
  the batch is not answered and `processingBatch` stays set, so that no later batch is
  served until `cleanup()`.  The model takes batches for which they return.
- What reaches the contract: `fromConfig()` and `execute()` encode a decimal deposit as it
  is, which refuses a fraction and makes as many units of whole tokens, although
  `execute()` has validated it as tokens (`builder.ts:887-895`); a deposit that `execute()`
  was not given is validated by nothing (`builder.ts:881`) and becomes a void argument
  (`builder.ts:1019`, `batch-tx.ts:227-236`).  `reset()` keeps `cancelable` and
  `clawbackable` (`builder.ts:614-631`), although "all configured fields" are to be
  cleared (610); `create()`
  ignores `stopTime` and `endTime`; a deposit is validated with seven decimals and
  converted with the token's; a rate rounded half up may exceed the deposit;
  `clone()` drops two flags; that the end lies after the start is never checked.

Wallets

- A client without a factory address is refused because `StreamsModule` builds a
  factory of its own (`streams.ts:554`), although `client.ts:138-141` says callers
  may do without; `setWallet()` leaves that inner factory with the first wallet
  (against `client.ts:452-456`).  The chain is compared only on attaching.
- A `disconnect()` of WalletConnect that ends late discards a newer session; the grant
  of a pairing that timed out stays unknown.  Keys cached by Freighter and Albedo
  go stale, and a Ledger's cached key is not compared with the device that signs.

Names and amounts

- `parseContractError()` takes an RPC code of three digits for a contract's;
  the token contract's code may be named as the stream's, and a code its contract
  does not define as another's.  `isConduitError()` misses classes.  A confirmation
  that timed out is called recoverable.
- `parseDuration()` accepts "2 hx" and refuses "2 h".  Amounts that accrue ignore pauses
  in `calculateAccruedAmount()`.

React

- `useWithdrawableAmount` keeps its last sample and its rate when it goes from a stream A
  straight to a stream B (`useWithdrawableAmount.ts:67-79`): the first answer for B makes a
  rate of the two amounts, B minus A over the time between, and until the next answer
  the ticker (137-157) shows the amount taken ahead at that rate, with `loading` false and
  `error` null.  The rate is to be "`null` until a second poll lands" (9-11).
- A failed `loadMore()` skips a page; `useStreamBalance` polls overlap;
  `useStreamList` stays loading when superseded; a rollback may put another stream's
  snapshot back; `useCreateBatchStreams` drops the results of earlier chunks;
  `confirmTransfer()` twice sends twice; a late `LOAD_SUCCESS` overwrites a
  newer one.  `useStreamEvents` subscribes anew for every new object of callbacks,
  from the latest ledger, so that the events in between are missed.

## 6. Bounds, fairness, limits

Every bound is a constant of a `.cfg` or a named definition.

Connections.  Two connect() calls and three sockets are what it takes for an old
socket, a current one and one being opened to exist together with a waiting call;
two messages and a queue of one exercise overflow and requeueing, three messages
order.  Two attempts reach the limit and its reset.  Two subscriptions show that
they do not disturb one another; each has at most one current socket and one that
is closing.  Thresholds 2 and 3 make the two kinds of callers disagree.

Events.  Four events in five ledgers hold an empty ledger, a shared one and a page
boundary.  Three listeners and two streams let a listener of both overlap one of
each.  A walk over four items with pages of two and a cap of three meets a full
page, a short one and the cap.

Caches.  Three readers: one that fetches, one that joins, one that comes after the
answer.  A clock of 3 passes a time to live of 2.  Two operations share a fee
promise.  Three keys in a memo of two evict.

Transactions.  Three operations have a first, a middle and a last failure; three rounds
a retry of a retry.  Two items and two wallets let the wallet change between two
signatures of one call.  Three payloads over one slot and a queue of two fill the
queue; one retry occupies a timer.  Three batches of up to two chunks let a second
loop overtake the first.  A pool of four items and a limit of up to three shrinks
below what is in flight.

Arithmetic.  Amounts of two places cross the carry from the fraction to the whole;
scalars of two bytes have a leading zero, a high bit and both; halves of two bits
stand for 64, with five wraps for the sign.  Times up to five contain every order
of start, pause, end and now.  For a deposit told as a text a stroop is one grain, a unit of
the token three and a whole token six (`StroopGrains`, `UnitGrains`, `TokenGrains`), so that
of up to six grains (`MaxGrains`) one is a valid deposit that rounds to no unit, two
round up, three are a fraction of a token, and six are two units to `create()` and one
to `execute()`.

React.  Two keys or streams, two requests or mutations, and answers in any order.

Symmetry is used in the relayer's runs without liveness and in `CircuitProbe`, for
identities that are only compared; the composites have none.

Fairness.  Continuations of settled promises run, timers fire, a handshake ends
one way or another, a socket that is closing closes, requests are answered, fail or
time out.  An open socket may stay open for ever and the application need not call
anything, except in the circuit: an open circuit becomes half-open when it is
read, so somebody has to call.  `RelayerLiveness` runs without heartbeats;
`RelayerStaleHeartbeat` shows what heartbeats change.  A reconnection timer of the
indexer is strongly fair only because the pool of sockets is finite.  In `Client`
only the circuit is fair, in `Feeds` the poll loop, in `Reads` the subscriptions of the
indexer, in `Writes` the batch, the builder and the batcher; the steps of
applications, users, wallets and ledgers are not.

Deadlock checking is off where the system really may stop: after destroy(), after
the last unsubscribe, after the last round of a batch, after a call that ended.

Not modelled, and why:

- contents of messages and events, wire formats, delays and their jitter, logging,
  ciphers: no property depends on them;
- the custom fetch adapter and the provider of the React bindings: they refer to names
  that are declared nowhere (`customFetch`, `controller`, `timer`; `rpcHeaders`,
  `makeHeaderFetch`) and throw when they run;
- a relayer where no `WebSocket` constructor exists, or one that makes nothing
  (`WebSocketRelayer.ts:181-184`, 195-198): no connection is ever made there;
- two calls of `connect()` of the WalletConnect adapter that overlap, or two of
  `disconnect()`: each would pair, or end, a session of its own.  The model takes one of each
  at a time, which may overlap the other and the events of the wallet;
- tokens of more than 22 decimals, where `pow10()` is no longer exact;
- failover of the RPC endpoint, the counters of timeouts, the detector's `reset()`:
  nothing calls them;
- the token bucket (it only delays), `dryRun` (it sends nothing), getters, ready-made
  queries, single reads without state, pooled connections;
- the mock indexer, the numbered modules, the generator and the examples.

## 7. Plan

What is left, in this order.

1. An abstract register that each cache refines with a staleness of its own; today
   `CachesHonest` states that as an invariant.
2. The factory's address as a run that shows the divergence listed above, once a
   run can be spared; `dryRun`; the client's failover when something calls it.
