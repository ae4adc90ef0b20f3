# A TLA+ model of the Superfluid Aragon app

The repository holds an Aragon app: a contract (`contracts/Superfluid.sol`) through which an
organisation keeps Super Tokens in an Agent, converts them and streams them; a background script
(`app/src/script.js`, `app/src/store/`) that turns the events of the Agent and of the Superfluid
protocol into a state; and a React front end that shows that state and sends transactions.
This directory models all three, checks them with TLC on small instances, and proves most of
their safety properties with TLAPS for all instances.

## 1. Inventory

| component | state | operations | interacts with | what is hard | what makes it correct |
|---|---|---|---|---|---|
| Superfluid contract | `agent`, `host`, `cfa`, initialized | `initialize`, `deposit`, `withdraw`, `upgrade`, `downgrade`, `createFlow`, `updateFlow`, `deleteFlow`, `deleteOwnFlow`, `setAgent` | Agent (vault), ACL, Super Tokens, CFA | several token and vault calls per transaction; any contract passes for an agent, and any that answers `getHost` for a Super Token; the agent can be replaced while streams run; anyone can send it tokens | it holds what was left with it and nothing else, and leaves no approval to an Agent or a Super Token; each call is one authorised move of the agent's funds |
| Subscription ranges (`subscribeToExternals`) | none | three clamped block ranges | node, cache | young agents, caches ahead of or behind the settled block | no block is skipped; of the blocks in the cache only the last one is read again, when no other has settled since |
| Background script | store state, three subscriptions in three stages, the cache | `initializeState`, reducer, restart | contract, Aragon client, node | events of three subscriptions merged in any order; a page closed and a cache saved at any time; calls that fail, some of which end the store; `setAgent` between sessions | the list of flows is the chain's history; syncing ends |
| Updaters and handlers | flows, Super Tokens, senders' Super Tokens | `updateFlows`, `updateSuperTokens`, `updateSendersSuperTokens`, `loadInitialSuperTokens` | token contracts | not idempotent; a live balance with an old timestamp; rejected promises nobody catches | one open entry per flow; closed entries are final |
| `retryEvery`, `createSettings` | attempts, delay | attempt, sleep | contract, node, token list | an attempt fails at any of its calls | the script starts or gives up |
| App state reducer | none | cards with their rates and dates | store state, front end | flows and tokens come from different handlers | every open flow's token has a card, with the flows' rates |
| Side panels (`usePanelState`) | visible, presets, waiting, timers | open, close, transition, timer, transaction | forms, wallet | nothing is cancelled: a timer or a transaction of a closed panel acts on the one opened since | the wait is the pending transaction's, and ends |
| Token selector | selection, lookups | select, type, answer | token contracts | lookups answered late, in any order, or failing | the data shown are the selected token's |
| Transfer and Convert forms | selection, amount, recipient, error | edit, Max, submit, tabs | selector, panel, store state | positions in a list that grows; decimals and texts | the token that was picked and the amount that was typed are sent |
| UpdateFlow form | the same, with type, rate, description | edit, submit, presets | flow list, selector, panel, store state | two lists of tokens, positions, effects that run on every published state, renders that throw | an update stays an update; the deposit is covered; no edit takes the app down |
| Flow list and filters | filters, page | filter, page | store state | positions kept in growing lists, days against moments | the flows asked for, in order, on a page that exists |
| Cards: rates, carousel, figures | requests, retry, selected item; none | fetch, retry, cancel; select, drag, resize; compute | price service, window, time | requests outliving their list; errors taken for answers; limits; rounding; warnings that are not computed again as time passes | rates of the tokens listed now arrive; items in range; dates and amounts within a unit |
| Identities | search, selection, badge | search, select, resolve, modify | Aragon client | answers out of order, lookups that are never cancelled | the person shown is the one sent; the name is the one the address has |
| Presentation, deployment | | | | | no state a property could be about |

`PROJECT.json` lists every component with its status and every hazard at its line.

## 2. Modules

```
Treasury  <----- implemented by -----  SuperfluidApp  <- SuperfluidAppProofs <- SuperfluidAppRefinement
                                            ^-- MCSuperfluidApp
SyncRanges  <-  SyncSessions  <- SyncSessionsProofs
     ^--------  FlowStore     <- FlowStoreProofs
                     ^-- MCFlowStore
SidePanel <- TokenSelector <- TokenForms <- MCTokenForms, TokenFormsProofs
                     ^------- UpdateFlow <- MCUpdateFlow, UpdateFlowProofs
FlowList, TokenCards, Figures, ScriptStart, Identities  <-  Views  <-  MCViews, ViewsProofs

TokenForms and Figures extend Decimals; FlowStore, TokenSelector, FlowList and TokenCards extend Sublists;
DataProofs holds the lemmas on lists, sums and digits that their proof modules share.
```

**Treasury** is the abstract specification of the contract: funds reach the agent (`Credit`), leave
it on a stream manager's word (`Spend`), are wrapped and unwrapped one to one on a token manager's
(`Wrap`, `Unwrap`), are lent to the app or returned by it when a token manager names a contract that is no Super Token
(`Lend`, `Return`), streams are directed by a manager or ended by their receiver (`Direct`), the
agent is appointed (`Appoint`, `Install`). `World` says what everybody else can do to an agent:
give it funds, end its streams, and receive what its streams owe; and to the app: what lies with it only grows, or goes to
a contract that is neither an Agent nor a Super Token.

**SuperfluidApp** is the contract. A transaction is one action; a revert is a guard that is false;
the successive external calls inside a function are the successive ledgers of a `LET`, so that
each intermediate balance and approval is there to be checked. `super` and `under` are the balances
of a Super Token and of its underlying token, `allowance` and `underAllowance` what the app has
approved, `approved` what accounts approved for the app, `flow` the CFA's flows. `left` and
`leftUnder` are history variables: what was left with the app, by a transfer, a withdrawal to the app's address, a stream, or a
call that named a contract of which nothing is known, and has not been passed on since.

The contract checks of an agent only that it is a contract (`Superfluid.sol:240`), and of a Super Token only that a static
call of `getHost` succeeds (`:44-50`). The model does the same: `isValidSuperToken` is about the set `HostAnswering`, which
holds all Super Tokens and any of the `OtherContracts`, and each call may name any of them and run with any contract as
agent. Within a call such a contract moves nothing itself. What the call does around it is modelled: the Agent sends the
app an amount of what the contract calls its underlying (`Lends`), the app approves the contract (`Grants`) or sends
the agent that amount (`Returns`); a deposit for an agent that is no Agent leaves the tokens and the approval
(`AgentUnknown`). Everything the contract can do later with what it got, it does as a user (`Users`) or by `transferFrom`
(`Collect`). So `PassThrough` and `NoStandingAllowance` say what holds in spite of it: the app's holdings are what was left
with it, and no Agent and no Super Token is ever left with an approval. Other contracts can be left with one, in
the model as in the code; `Treasury` says what that can cost: what lies with the app, never an Agent's funds.

The actions after the contract's own are what others do without it: approvals, transfers, an
account converting its own tokens or managing its own flows (the front end does both directly, in
`useConvertTokens`, `useUpdateFlow`, `useDeleteFlow`), time (`Stream`), and liquidation.

**SyncRanges** holds the arithmetic of `subscribeToExternals`; **SyncSessions** runs it over
sessions, with a cache that covers the blocks it says it covers.

**FlowStore** is the background script. The chain part (`log`, `rate`, `balance`, `appAgent`) emits
one event per block at most. `initializeState` starts a session from the cache or afresh;
`pastEvents(sub)` is one of the three `pastEvents` calls of a stage answering; `events(sub)` is a live
event; `Reduce` runs the reducer on the next trigger; `AnnounceSyncing` is the Aragon client's
`SYNC_STATUS_SYNCING`; `Persist` and `Crash` are the client saving its state and the page closing, at
any moment; `Reject` is a handler whose call to the node or for the sender's balance fails, which nobody catches and which
ends the store, and `initializeRejects` a start that fails after `retryEvery` has returned. `updateFlows` and its helpers have the names they have in the code.

`appStateReducer` is the front end's reading of that state.

**Sublists** is `Array.filter` (and what a `pastEvents` call picks from the log): the entries of a list at a
set of positions, in order, said by the rank of a position and not by recursion, so that it can be proved about.

**SidePanel** is `usePanelState` as operators on a panel's record, **TokenSelector** the selection a
form holds and the lookups the selector starts (`Lookups`) and answers (`fetchTokenData`), **Decimals**
the conversions of `math.js` on numerals, which are sequences of digits before and after the point; `Value` is
what digits are worth and `PowerOfTen(n)` what a 1 before n zeros is, both by writing digits behind a number (`Behind`).

**TokenForms** composes them into the Transfer and the Convert panel. A behaviour is about one of the
two (`which`). The four forms differ in what they offer (`Deposit`, `Withdrawal`, `Upgrade`, `Downgrade`), in
their validation and in `TokenSent`; the handlers have the code's names. `Answer` is the end of a lookup,
`Settle` the end of a transaction, `NewToken` and `FundsChange` a state published by the script, with
Deposit's effect on it. What a form would send is a function of its state (`TokenSent`, `AmountSent`), so
the properties are about every form that may be sent (`Sendable`), and no log of transactions is kept.
`pick`, `outrun`, `moved`, `max` and `strayed` are history: they remember what the user picked and whether
something the code does not guard against was under way. Lookups in flight are a set, so two for the same selection are
one: no property that a second one could break is claimed of a form that may have one (`SentIsPicked` is about the
token, on which they agree; `max` is remembered only when no lookup was in flight).

**UpdateFlow** composes SidePanel and TokenSelector into the panel that creates and updates flows. `Shows` is
a render and the effects after it: it fails (`crashed`) where the code reads a position the list does not have.
`PresetEffect` and `DescriptionEffect` are the two effects of the form, run when what they depend on has changed. The first runs
twice when it changes the type, and the selection of its first run, a position in the list of the other type, starts a lookup
of its own (`FirstLookups`). The recipient of an update can be changed (line 301 takes it out of the pointer's reach
only); `retyped` remembers that it was.

**Views** puts the parts that only read the published state side by side, one per behaviour (they share no
state): **FlowList** (`useFilteredFlows`, the sort of `Flows`), **TokenCards** (`useConvertRates`, the
carousel), **Figures** (amounts, depletion dates, warnings, prices), **Identities** (the recipient field's
completion and `useIdentity`), and **ScriptStart** (`retryEvery` around `createSettings`).

In TokenCards an answer of the price service may be an error in JSON (`AnswersError`), which the code takes for rates: there
are none, and nothing is asked again (`mistaken`). A small layout may show any number of cards and allows a drag in a row
with fewer cards than fit (`shortDrag`). In Figures the depletion date and the warnings are computed when a state is
published (`publishedAt`) and the card's warning when the card is rendered (`renderedAt`), and stand while time passes.
In Identities the badge's lookups are numbered: the client reads a name (`NameRead`) and the answer arrives (`Resolved`)
at moments of their own.

The operators called *mutation* in the modules are plausible bugs of the definition after them; with
one of them in its place the property it is paired with in `PROJECT.json` is violated.

### Abstractions and assumptions

- SuperfluidApp: no reentrancy (Super Token hooks are not modelled); a Super Token wraps its underlying one to one (the
  scaling for other than 18 decimals happens in the Super Token and the tests use 18); a call's
  `host` and `cfa` are the protocol's or no contract; agents act only through this app; a contract that is none of the modelled ones keeps its own books and is
  granted no role; the
  vault's protected tokens are not modelled; balances never go below zero (`Stream` stops, then
  `Liquidate`), streams advance one at a time; amounts and rates are bounded by `MaxAmount`, `MaxRate`.
- FlowStore: a block is a second and holds at most one event; the agent's initial block holds none;
  there are no reorganisations; addresses are model values; the markers `EXTERNAL_SUBSCRIPTION_SYNCING` and
  `EXTERNAL_SUBSCRIPTION_CACHED`, which the reducer ignores, are left out, as are descriptions, a token's
  descriptive data, logos and a sender's balance. `ok` is whether the token's calls succeed. All agents share one initial block.
  The last session allowed by `MaxSessions` neither saves nor is closed, as no later one would see it; its handlers can be
  rejected all the same.

- Panels: SidePanel of @aragon/ui mounts its content when it opens and unmounts it at the end of the closing
  transition. An account is connected. A custom token's lookup is for a Super Token or is invalid.
- TokenForms, UpdateFlow: names and symbols are left out, tokens are sorted by symbol (`Catalogue`), a
  description is empty, the flow's or typed, a rate is a whole number of the smallest unit per second.
- FlowList: the filters are hidden in small layouts and kept; DataView cuts the pages. `handleClearFilters` is
  left out, since the status that shows its button needs `!filteredFlows`, which is never true of an array.
- TokenCards: how many cards fit is chosen, not computed from widths; a drag is by some number of items. Delays are in tenths of a second.
- Decimals: amounts and prices are plain decimal digits (`Numerals`). `AmountInput` lets anything pass that `Number` takes for a
  number that is not negative: `1e-3`, which `toDecimals` sends through a double and `toFixed` (`math.js:93`: wrong beyond 16
  digits, and with an exponent again from 1e21), `1E3`, `0x10` and `Infinity`, whose letters are then cut up as digits.
  None of these is modelled, and nothing is claimed of them.
- Figures: time is whole seconds since the balance was read; `DateRange` bounds the seconds to a depletion date that `BN.toNumber`
  (`superfluid.js:71`, which throws above 2^53) and `Date` can hold, and `DepletionWithin` is about those.
- Identities: a name is its address or empty; a badge asks at most `MaxLookups` times.

## 3. Runs

| run | instance | result |
|---|---|---|
| `contract` | two agents (symmetric, both granted), one account with every role, one Super Token, one other contract that answers `getHost` and is the user without a role, amounts and rates up to 1 | passes: `TypeOK`, `PassThrough`, `NoStandingAllowance`, `ReplacedAgentFrozen`, `ImplementsTreasury`; deadlock checked |
| `sync_sessions` | chains of up to 14 blocks, initial block 2, margin 3 | passes: `TypeOK`, `NoBlockSkipped`, `RereadsLastSettled` |
| `store_session` | one agent, one counterparty, one preset token, 4 blocks, rates up to 2, vault events, failing calls | passes: `TypeOK`, `MirrorsChain`, `HistoryExact`, `CardsMatchFlows`, `SyncEnds`, `EventuallyMirrors` |
| `store_restart` | two agents that stream to each other, 4 blocks, 2 sessions, `setAgent` | passes: `OpenEntriesUnique`, `ClosedIsFinal` |
| `token_forms` | two Super Tokens of which one is listed later, a third that is typed, a text that is none; decimals 1 to 3; two openings, lookups and transactions, one published state | passes: `TypeOK`, `SelectionConsistent`, `SentIsPicked`, `AmountExact`, `MaxSendsAll`, `WaitIsPending`, `WaitEnds` |
| `create_flow` | the same tokens, an outgoing and an incoming flow; two openings and lookups, one transaction, one published state | passes: `TypeOK`, `FundsCover`, `UpdateStaysUpdate`, `DescriptionFits`, `EditsNeverCrash` |
| `views` | two flows, pages of one, days of two moments; three cards, two of them priced, one or two visible; balances 0 to 12, net flows -3 to 1, three prices, eight seconds; two people; three retries | passes: `TypeOK`, `ListedExactly`, `PageExists`, `RatesFollow`, `RatesArrive`, `SelectionInRange`, `DepletionWithin`, `ConvertedFloor`, `StartEnds`, `SelectedIsValue`, `BadgeSettles` |
| `store_lost` | 5 blocks, 2 sessions | `EveryStreamListed` is violated |
| `store_agent` | two agents, 2 sessions | `StateOfContractAgent` is violated |
| `store_balance` | 4 blocks, one session | `DynamicBalanceCurrent` is violated |
| `store_zombie` | one agent, 5 blocks, 2 sessions, no failing calls | `OpenEntriesRun` is violated |
| `upgrade_position` | as `token_forms`, one opening | `UpgradeOfPicked` is violated |

Bounds. With two agents one is current and one replaced, and either may become the other; roles are checked against the contract that
has none; one token
is enough because no operation relates two tokens. The margin of 100 blocks is 3 in `sync_sessions`
and 2 in FlowStore: with it all three ranges are non-empty, and each clamp is taken and not taken, within the chain. With 4
blocks, of which the first is the initial one, a flow is opened, updated and closed, or opened in
both directions, on either side of a stage's boundary. FlowStore's chain stops at `MaxBlocks`, so the
model stops (`CHECK_DEADLOCK FALSE` there; the chain itself would not).

In the front end the first token to be listed later sorts before the one that is listed, so that one published state moves
every position; two openings let a timer, a lookup or a transaction of the first act on the second, and two
lookups or transactions can overtake each other. The bounds count openings, lookups, transactions and
published states, so these models stop too. In `views` each wait, page and card number reaches its limit and
the one before it; the thresholds of the warnings are 1 and 2 days of two seconds where the code
has 10 and 15, since only the comparison with whole days matters; the delay's bound is reached after
two failures instead of nineteen.

What the front end's properties exclude is what the code does not guard against, and each is a hazard listed at its
line: a token picked while a lookup for another is in flight (`outrun`), a position held over a published list (`moved`),
a panel opened within a second of a closing or over a lookup (it has no `origin`), a panel closed over its transaction (`strayed`), a page
under a state filter, a value changed over its search (`crossed`), a recipient of an update typed anew (`retyped`), a drag in
a row with fewer cards than fit (`shortDrag`), an error taken for rates (`mistaken`), a badge whose last answer is an
earlier lookup's (`answered`), a date out of range (`InDateRange`). The properties show that nothing else goes wrong.

Fairness (`FairSpec`, used by `SyncEnds` and `EventuallyMirrors`): the script starts, each
`pastEvents` call is answered, live events arrive, the reducer takes the next trigger. The first
three are the node's and the client's normal operation (a call that is never answered leaves the app loading,
which the code does not handle), the last is the store's loop. Nothing is assumed of the chain, of
saving, of closing, of rejected handlers, or of `SYNC_STATUS_SYNCING`: `EventuallyMirrors` says that the list comes to rest on the
chain's flows unless there comes to be no store for good.
`WaitEnds` assumes that the wallet or the node answers: a transaction is done or fails (weak fairness of `Settle`),
and nothing of the user. `StartEnds` and `RatesArrive` assume that calls and requests end, that timers fire,
and, for the rates, that the price service does not fail a request that is repeated for ever (strong fairness
of an answer with rates): with a service that always fails the code retries for ever, as it should.

`CardsMatchFlows` has two parts: that each listed flow has its token's card at any moment (`EachFlowHasCard`), and that
the rates on the cards are the chain's once all events are reduced. A restart keeps the first and may break the second;
TLC checks both over one session, and the first is proved for any number of them.

### What the violations show

- `store_lost`: `script.js:70` stores `cachedBlockNumber` when the client *starts* to sync. A state saved
  before the past events up to that block are reduced is restored as if they had been, and
  the next session reads from the block after. The streams in between are missing until the cache is
  cleared. `details.md` promises to list "all the app's streams".
- `store_agent`: `script.js:105` spreads the cached state over the address just read. After `setAgent`
  the script listens to the new agent and ignores its flows, because `handleFlowUpdated` compares
  with the old address.
- `store_balance`: `updaters.js:46` stamps the balance of now with the time of the event. After a
  session has read old events, the front end's extrapolation counts that time twice until the next live event.
- `store_zombie`: when no block has settled since the cache was saved, `helpers.js:113-115` reads the block
  `cachedBlockNumber` again (`RereadsLastSettled` says that this is the only one). If it closed a flow, the entry is closed already,
  `updateFlows` finds no open one, and `updaters.js:76` lists the deletion as a new flow of rate 0, which stays open. The
  property excludes lists that miss an opening, which `store_lost` is about.
- `upgrade_position`: `Upgrade.js:92` takes the Super Token at the position the underlying token was
  selected at, in the list of the moment of sending. A token that was listed in between and sorts before it
  makes the upgrade go to another Super Token, for an amount in the selected token's decimals.

Two places where the code differs from the comment beside it are in the model as the code has them and have no run of their own:
`updaters.js:135` compares a string with the number 0 (`NotIdenticalToZero`), so a sender's entry whose net flow has ended is kept, and
`helpers.js:94` multiplies before it sleeps for the first time (`nextRetryTime`), so the waits are 2, 4, 8 times the first delay for a factor
of 2 where the comment at `helpers.js:70` counts 1, 2, 4, 8 (and its example, `1000, 2`, would leave the defaults 1000 and 3 in place).

## 4. Proofs

All theorems hold for every value of the constants that satisfies the named assumptions, which TLC evaluates
for the instances of the runs:

- `NumberAssumption`, `AddressAssumption`, `RoleAssumption` (the contract), `ReorgAssumption`, `BlockAssumption`,
  `StoreAssumption` (the script): addresses of different kinds are different, roles are held by accounts, Super Tokens answer `getHost`, bounds are
  natural numbers, the margin is at least 2 blocks, the accounts of a chain are finitely many.
- `TokenAssumption`, `FormAssumption`, `FlowAssumption` (the panels): the catalogue is a list of Super Tokens, decimals, balances,
  and periods are natural numbers, typed amounts are numerals, a unit of time is not zero, a flow has a token, another end and a
  direction, and `None` and `NONE` (null) are none of the values they stand beside.
- `ListAssumption`, `CardAssumption`, `StartAssumption`, `PeopleAssumption`, `FigureAssumption` (the views): lists are lists, a page and a
  day have a length, prices are numerals, the first retry delay is no longer than the longest, a person has a name that is not
  empty, and nothing is found by a text but people.

| theorem | statement |
|---|---|
| `SuperfluidAppProofs!TypeCorrect` | `Spec => []TypeOK` |
| `SuperfluidAppProofs!NothingKept` | `Spec => []PassThrough` |
| `SuperfluidAppProofs!NothingApproved` | `Spec => []NoStandingAllowance` |
| `SuperfluidAppProofs!ReplacedFrozen` | `Spec => ReplacedAgentFrozen` |
| `SuperfluidAppRefinement!ContractIsTreasury` | `Spec => ImplementsTreasury` |
| `SyncSessionsProofs!TypeCorrect` | `Spec => []TypeOK` |
| `SyncSessionsProofs!NothingSkipped` | `Spec => []NoBlockSkipped` |
| `SyncSessionsProofs!LastSettledReread` | `Spec => RereadsLastSettled` |
| `FlowStoreProofs!NoDuplicates` | `Spec => []OpenEntriesUnique` |
| `FlowStoreProofs!ClosedStaysClosed` | `Spec => ClosedIsFinal` |
| `FlowStoreProofs!StoreTypeCorrect` | `Spec => []TypeOK` |
| `FlowStoreProofs!FirstSessionMirrors` | `Spec => [](sessions <= 1 => MirrorsChain)` |
| `FlowStoreProofs!FirstSessionHistory` | `Spec => [](sessions <= 1 => HistoryExact)` |
| `FlowStoreProofs!FlowsHaveCards` | `Spec => []EachFlowHasCard` |
| `FlowStoreProofs!FirstSessionCards` | `Spec => [](sessions <= 1 => CardsMatchFlows)` |
| `TokenFormsProofs!TypeCorrect` | `Spec => []TypeOK` |
| `TokenFormsProofs!DataIsTokens` | `Spec => []SelectionConsistent` |
| `TokenFormsProofs!PickIsSent` | `Spec => []SentIsPicked` |
| `TokenFormsProofs!AmountIsExact` | `Spec => []AmountExact` |
| `TokenFormsProofs!MaxIsAll` | `Spec => []MaxSendsAll` |
| `TokenFormsProofs!WaitAgrees` | `Spec => []WaitIsPending` |
| `UpdateFlowProofs!FormIsMounted` | `Spec => []TypeOK` |
| `UpdateFlowProofs!EditsAreSafe` | `Spec => EditsNeverCrash` |
| `UpdateFlowProofs!DepositIsCovered` | `Spec => []FundsCover` |
| `UpdateFlowProofs!UpdateIsKept` | `Spec => []UpdateStaysUpdate` |
| `UpdateFlowProofs!DescriptionIsRight` | `Spec => []DescriptionFits` |
| `ViewsProofs!ViewsTypeCorrect` | `Spec => []TypeOK` |
| `ViewsProofs!RatesAreListed` | `Spec => []RatesFollow` |
| `ViewsProofs!CarouselInRange` | `Spec => []SelectionInRange` |
| `ViewsProofs!PersonIsValue` | `Spec => []SelectedIsValue` |
| `ViewsProofs!BadgeIsName` | `Spec => []BadgeSettles` |
| `ViewsProofs!ListIsAsked` | `Spec => []ListedExactly` |
| `ViewsProofs!PageIsThere` | `Spec => []PageExists` |
| `ViewsProofs!DepletionIsDate` | `Spec => []DepletionWithin` |
| `ViewsProofs!ConversionIsExact` | `Spec => []ConvertedFloor` |

*The contract.* None of the three invariants is inductive alone. A deposit that is not external
lowers `left`, which stays a natural number only because the app holds exactly `left` (`PassThrough`);
`deposit` gives the allowance back to 0 only if it was 0 before (`NoStandingAllowance`); and time would drain
the app if it could be the sender of a flow, so `AppSendsNothing` is added. The lemmas `ThroughApp`,
`MintThroughApp` and `BurnThroughApp` say that funds that pass through the app end up as if they had been moved,
minted or burnt at their ends; with them upgrade, downgrade and deposit become single steps, both for the
invariant and for the refinement, whose mapping is the identity on `agent`, `super`, `under` and
`flow`. Calls that name another contract, and the contract's use of what it was left with, either move an amount between
the Agent and the app (`Lend`, `Return`) or out of the app to that contract (`HandedOver`). Each action of others
is shown `Harmless`, which implies Treasury's `World`.

*The ranges.* `CacheCovers`: the cache holds all blocks from the initial one to its `cachedBlockNumber`,
which is no later than the last settled block. Needed because `NoBlockSkipped` says nothing while no
session runs, and a session only reads what the previous ones left.

*The store.* The saved state must be as good as the running one, since a later session starts
from it: the invariant (`Inv`) is uniqueness of the open entries, of the state and of the cache.
It needs nothing of the events, so it holds for replayed, lost and reordered ones alike.
`FoundIndex` (the first open entry is found if there is one) rests on the well-ordering of the
natural numbers from the library. `Shapes` adds the shapes of the log, the queue, the state, the cache and the
session; that no entry has the agent as its other end, which `TypeOK` claims, comes from the CFA's flows
having two ends.

*The store and the chain.* `MirrorsChain` speaks only of the moment when everything has been reduced, so nothing about
it is inductive. `Followed` says where each event is at any moment. A subscription has emitted what is
before its `Frontier`, the end of the last range it has read or, once it is live, its next block. For each flow of
the agent, the events before the frontier that are not in the queue have been reduced; the ones in the queue are the
chain's, in the chain's order and later than all reduced ones (`InOrder`); and the open entries show the rate of the
last reduced one (`UpToDate`). Events of different flows may overtake each other, events of one flow come from one
subscription (`FlowMatches`) and cannot. The ranges of the stages fit together exactly (`StageReads`: here the
margin of 2 blocks and the clamp to the initial block are needed). A deletion finds the entry it closes because the
chain deletes only flows that run (`Account`, an invariant of the chain) and the event before it has
been reduced (`DeletedIsOpen`); were it not found, updateFlows would list a flow of rate 0. It closes all there is of
the flow because of `Inv`. The theorem is about the first session, of any length, and about any agent change during it: a
session that starts from a cache can miss events (`EveryStreamListed`).

*History and cards.* `UpToDate` also says `History`: as of the reduced events of a flow, its entries, closed ones
included, are one for each event that opened it, none twice, and each is `Exact`, its amount being the sum of the rates
from its creation to the last event it has seen. An update extends the sum by a stretch of constant rate (`Flowed` over
two adjoining stretches), a deletion closes it, and the next event opens a new entry with an empty sum. When everything has
been reduced this is `HistoryExact`, in the first session for the same reason as `MirrorsChain`. `Carded` is the invariant of
`EachFlowHasCard`, of the state and of the cache, in any session: `updateSuperTokens` never removes a card and
`loadInitialSuperTokens` loads those of the cached flows. The rates of `CardsMatchFlows` are sums over the list, where
the chain's are sums over accounts: each account with a running flow has exactly one open entry, closed entries
and accounts without one are worth nothing, so the terms are matched one to one (`SumImage`, `SumNonzero`).

*Sums and digits.* A sum is a fold over a set, in an order that `CHOOSE` picks; `SumIsTally` identifies it with a
function on the subsets that adds one element at a time and is unique, whence the sums of equal, extended or matched
sets. Digits are read by a recursive function on positions. Where induction is needed it is an argument by the smallest
counterexample (`SmallestOf`, from the well-ordering of the natural numbers). Everything rests on `BehindConcat` (digits are
written behind a number one part after the other) and `BehindSum` (digits t behind n make
`n * PowerOfTen(Len(t)) + Value(t)`). From them `FromDecimalsIs` and `ToDecimalsIs` say what the two conversions of `math.js` do to
the value, cut or padded, with leading and trailing zeros dropped;
`ThereAndBack` that the second undoes the first.

*The forms.* In TokenForms every lookup in flight carries the selection it was started for and the address asked
(`ReqOK`), so that whichever is answered last leaves a consistent selection; `PickOK` adds that, unless a
lookup was outrun, all lookups in flight are for the selection that stands. With the lemmas on digits
`AmountExact` follows from the selection being loaded; `MaxSendsAll` needs `MaxStands`, on top of `Inv`: as long as the
amount is Max's nothing is in flight and the selection keeps the decimals the amount was written with. In UpdateFlow a position selects
the token that is sent only while the list stays (`PlaceOK`); an update selects its token again whenever the list has
changed (`StillOK`), which is what keeps it the update it was opened for (`UpdateOf`); a description is right for the
state rendered (`DescriptionOK`). The proofs go through `Shows`, the render with its effects, once, and then
through the actions that end in it.

*The views.* `ViewsInv` is one invariant per view. `RatesInv`: the request in flight is for the tokens listed now,
or has been cancelled. `CarouselInv`: the selected card is one of the cards there are, through resizes and cards that
go, or lies before the first after a drag in a row with room to spare. `FieldInv`: a search that completes the field is for its present value, unless the value was changed
over it. `BadgeInv`: the lookup with the highest number is for the badge's address, and once its name has been read it is
the one the address has, unless a modification is still to be announced, which will start another.
`ListInv`: the position of the token filter is the one of the token asked for, and the page is reset by every filter
that shortens the list. `Figures` is arithmetic, division towards zero and day boundaries, with the times of publishing and rendering in the past (`FiguresInv`). The places of filtered
and sorted lists come from `DataProofs`: distinct entries have distinct ranks, so every kept entry has one place.

`ConvertedFloor` follows from the value of a price's digits, whose decimals are cut by a division towards zero.

Only model-checked:

- the liveness properties `SyncEnds`, `EventuallyMirrors`, `WaitEnds`, `RatesArrive` and `StartEnds`
  (fairness and `ENABLED` are out of the prover's reach);
- `MirrorsChain`, `HistoryExact` and `CardsMatchFlows` are proved for the first session, which is what `store_session` runs. They do
  not hold of a session started from a cache: it may lack events for good (`store_lost`).

## 5. Not modelled

Rendering, wording, layout and animation; the information boxes of the forms; the error dialog; the Aragon client, the
wallet and the node beyond how the code uses them; reorganisations of the chain; Super Token hooks and
reentrancy; amounts that are not plain digits, and dates that `Date` cannot hold; prices below 0.000001, which print with an exponent; build,
deployment and test code (the tests were read as the statement of what the contract should do).

## 6. Plan

Done: the contract, the ranges, the script, the panels with their forms, the views, and the theorems above. What is
left, in this order:

1. `UpdateFlow` on the state of FlowStore instead of a published state of its own.
2. The first-session theorems for every session whose cache was saved with all events up to its
   `cachedBlockNumber` reduced: what `store_lost` shows to be missing would then be the only way to lose a stream.
