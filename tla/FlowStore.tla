----------------------------- MODULE FlowStore -----------------------------
(***************************************************************************)
(* The app's background script (app/src/script.js and app/src/store): it   *)
(* reads the agent from the contract, restores its cached state, reads the *)
(* past events of the agent's vault and of the CFA, follows the new ones   *)
(* and reduces them all, in the order they arrive, to the state the        *)
(* front end shows.                                                        *)
(*                                                                         *)
(* A block holds at most one event and stands for one second, so that a    *)
(* block's number is its timestamp.  Addresses are model values; a flow    *)
(* rate arrives as a decimal string, modelled by its value.  The chain and *)
(* the Aragon client (its cache, its SYNC_STATUS_SYNCING event, reducing   *)
(* one event at a time) are external.                                      *)
(***************************************************************************)
EXTENDS SyncRanges, Sublists, FiniteSetsExt

CONSTANTS
  Agents,         \* agents the contract may be pointed at
  Entities,       \* the other ends of the agent's flows
  Tokens,         \* Super Tokens
  PresetTokens,   \* PRESET_SUPER_TOKENS of the network
  InitialBlock,   \* the agent's initialization block
  None,           \* null, undefined, or nothing there
  MaxRate,        \* bound: the largest flow rate
  MaxBlocks,      \* bound: the length of the chain
  MaxSessions,    \* bound: how often the script is started
  VaultAmounts,   \* bound: the amounts of the vault's deposits and transfers
  AgentChanges,   \* bound: may setAgent be called?
  Failures        \* bound: may a call to a token contract or to the node fail?

ASSUME StoreAssumption ==
  /\ InitialBlock \in Nat \ {0} /\ MaxRate \in Nat /\ MaxBlocks \in Nat /\ MaxSessions \in Nat
  /\ Agents \cap Entities = {} /\ IsFiniteSet(Agents \cup Entities)
  /\ PresetTokens \subseteq Tokens
  /\ VaultAmounts \subseteq Int
  /\ AgentChanges \in BOOLEAN /\ Failures \in BOOLEAN
  /\ None \notin [lastUpdateTimestamp : Nat, balance : Int, netFlow : Int]
  /\ None \notin [inflowRate : Int, outflowRate : Int]

VARIABLES
  \* the chain
  log,       \* log[b]: the event in block b, or NoEvent; Len(log) is the current block
  rate,      \* rate[t][s][r]: rate of the flow of t from s to r
  balance,   \* balance[t][a]: what balanceOf(a) answers now
  appAgent,  \* Superfluid.agent
  \* the script
  st,        \* the store's state
  sess,      \* the running session's subscriptions
  queue,     \* emitted triggers the reducer has not seen
  cache,     \* the state the Aragon client saved last, or None
  sessions   \* how many sessions have been started

chain == <<log, rate, balance, appAgent>>
script == <<st, sess, queue, cache, sessions>>
vars == <<chain, script>>

Parties == Agents \cup Entities

-----------------------------------------------------------------------------
(* External: the chain.                                                     *)

NoEvent == [kind |-> "none"]

Net(rates, t, x) ==
  SumFunction([y \in Parties |-> rates[t][y][x] - rates[t][x][y]])

\* FlowUpdated carries the new net flows of both parties.
FlowUpdated(t, s, r, n, rates) ==
  [kind |-> "FlowUpdated", token |-> t, sender |-> s, receiver |-> r, flowRate |-> n,
   totalSenderFlowRate |-> Net(rates, t, s), totalReceiverFlowRate |-> Net(rates, t, r),
   block |-> Len(log) + 1]

\* VaultDeposit and VaultTransfer of agent a.
VaultEvent(t, a) ==
  [kind |-> "Vault", token |-> t, sender |-> a, receiver |-> a, flowRate |-> 0,
   totalSenderFlowRate |-> 0, totalReceiverFlowRate |-> 0, block |-> Len(log) + 1]

\* A new block: a second of every flow, then the block's event.
Block(event) ==
  /\ Len(log) < MaxBlocks
  /\ log' = Append(log, event)
  /\ UNCHANGED <<appAgent, script>>

Streamed ==
  [t \in Tokens |-> [x \in Parties |-> balance[t][x] + Net(rate, t, x)]]

EmptyBlock ==
  Block(NoEvent) /\ balance' = Streamed /\ UNCHANGED rate

\* A flow with an agent at one end is created, updated or deleted (n = 0).
FlowChange(t, s, r, n) ==
  LET rates == [rate EXCEPT ![t][s][r] = n]
  IN  /\ s # r /\ {s, r} \cap Agents # {} /\ n # rate[t][s][r]
      /\ Block(FlowUpdated(t, s, r, n, rates))
      /\ rate' = rates
      /\ balance' = Streamed

VaultChange(t, a, n) ==
  /\ Block(VaultEvent(t, a))
  /\ balance' = [Streamed EXCEPT ![t][a] = @ + n]
  /\ UNCHANGED rate

\* setAgent; the script does not listen to NewAgentSet.
SetAgent(a) ==
  /\ AgentChanges /\ a # appAgent
  /\ appAgent' = a
  /\ UNCHANGED <<log, rate, balance, script>>

-----------------------------------------------------------------------------
(* store/helpers.js and store/updaters.js                                   *)

\* Mutation: the two ends of the flow are swapped.
EntitySwapped(event, isIncoming) == IF isIncoming THEN event.receiver ELSE event.sender

getFlowEventEntity(event, isIncoming) == IF isIncoming THEN event.sender ELSE event.receiver

\* Mutation: the entity is compared without the flow's direction.
EqualEitherWay(flow, event) ==
  /\ ~flow.isCancelled
  /\ flow.token = event.token
  /\ flow.entity \in {event.sender, event.receiver}

\* Mutation: a cancelled flow is found again.
EqualThoughCancelled(flow, event) ==
  /\ flow.token = event.token
  /\ flow.entity = getFlowEventEntity(event, flow.isIncoming)

\* Mutation: no flow is ever found.
NeverEqual(flow, event) == flow.isCancelled /\ ~flow.isCancelled

isFlowEqual(flow, event) ==
  /\ ~flow.isCancelled
  /\ flow.token = event.token
  /\ flow.entity = getFlowEventEntity(event, flow.isIncoming)

\* Mutation: the time since the flow's creation is taken, not since its last event.
AccumulateFromCreation(flow, timestamp) ==
  (timestamp - flow.creationTimestamp) * flow.flowRate + flow.accumulatedAmount

calculateNewAccumulatedAmount(flow, timestamp) ==
  (timestamp - flow.lastTimestamp) * flow.flowRate + flow.accumulatedAmount

\* findIndex; 0 stands for -1.
FlowIndex(flows, event) ==
  LET found == {i \in DOMAIN flows : isFlowEqual(flows[i], event)}
  IN  IF found = {} THEN 0 ELSE CHOOSE i \in found : \A j \in found : i <= j

NewFlow(agentAddress, event, timestamp) ==
  LET isIncoming == event.receiver = agentAddress
  IN  [isCancelled |-> FALSE, isIncoming |-> isIncoming,
       entity |-> getFlowEventEntity(event, isIncoming), token |-> event.token,
       accumulatedAmount |-> 0, creationTimestamp |-> timestamp,
       lastTimestamp |-> timestamp, flowRate |-> event.flowRate]

updateFlows(state, event, timestamp) ==
  LET flows == state.flows
      i == FlowIndex(flows, event)
  IN  IF i = 0
      THEN Append(flows, NewFlow(state.agentAddress, event, timestamp))
      ELSE LET amount == calculateNewAccumulatedAmount(flows[i], timestamp)
           IN  IF event.flowRate > 0
               THEN [flows EXCEPT ![i] = [@ EXCEPT !.accumulatedAmount = amount,
                                                   !.lastTimestamp = timestamp,
                                                   !.flowRate = event.flowRate]]
               ELSE [flows EXCEPT ![i] = [@ EXCEPT !.accumulatedAmount = amount,
                                                   !.lastTimestamp = timestamp,
                                                   !.isCancelled = TRUE]]

\* A Super Token's entry gets the balance of now and the event's timestamp; netFlow
\* is None for a vault event, which leaves it alone.  When a call fails (~ok), or the
\* list was lost before, the error is logged and the list is undefined.
updateSuperTokens(state, token, timestamp, netFlow, ok) ==
  IF ~ok \/ state.superTokens = None THEN None
  ELSE LET old == state.superTokens[token]
           kept == IF old = None THEN 0 ELSE old.netFlow
       IN  [state.superTokens EXCEPT ![token] =
              [lastUpdateTimestamp |-> timestamp,
               balance |-> balance[token][state.agentAddress],
               netFlow |-> IF netFlow = None THEN kept ELSE netFlow]]

\* totalSenderFlowRate !== 0 on a decimal string: never the number 0.
NotIdenticalToZero(amount) == TRUE

\* The sender's entry for the token: its net flow (its balance is left out).
updateSendersSuperTokens(state, event) ==
  LET senders == state.sendersSuperTokens
  IN  IF event.receiver # state.agentAddress THEN senders
      ELSE IF (\A t \in Tokens : senders[event.sender][t] = None)
              \/ NotIdenticalToZero(event.totalSenderFlowRate)
           THEN [senders EXCEPT ![event.sender][event.token] = event.totalSenderFlowRate]
           ELSE senders

\* The presets and the cached tokens, one after the other, as of the current block.
loadInitialSuperTokens(state, current, ok) ==
  LET loaded == PresetTokens \cup {t \in Tokens : state.superTokens[t] # None}
  IN  [state EXCEPT !.superTokens =
         IF ~ok /\ loaded # {} THEN None
         ELSE [t \in Tokens |->
                 IF t \in loaded THEN updateSuperTokens(state, t, current, None, TRUE)[t]
                 ELSE None]]

-----------------------------------------------------------------------------
(* store/event-handlers.js and the reducer of script.js                     *)

handleFlowUpdated(state, event, ok) ==
  IF state.agentAddress \notin {event.sender, event.receiver} THEN state
  ELSE [state EXCEPT
          !.superTokens = updateSuperTokens(state, event.token, event.block,
                            IF state.agentAddress = event.sender
                            THEN event.totalSenderFlowRate ELSE event.totalReceiverFlowRate, ok),
          !.flows = updateFlows(state, event, event.block),
          !.sendersSuperTokens = updateSendersSuperTokens(state, event)]

handleVaultEvent(state, event, ok) ==
  [state EXCEPT !.superTokens = updateSuperTokens(state, event.token, event.block, None, ok)]

\* Mutation: flows that have ended are counted too.
InOutRateOfAll(flows, t, isIncoming) ==
  LET counted == {i \in DOMAIN flows : flows[i].token = t /\ flows[i].isIncoming = isIncoming}
  IN  SumFunction([i \in counted |-> flows[i].flowRate])

calculateInOutRate(flows, t, isIncoming) ==
  LET counted == {i \in DOMAIN flows : /\ ~flows[i].isCancelled /\ flows[i].token = t
                                       /\ flows[i].isIncoming = isIncoming}
  IN  SumFunction([i \in counted |-> flows[i].flowRate])

\* app-state-reducer.js, in the front end: the cards of the Super Tokens, None where there is none.  (The
\* dates and the figures it adds are in Figures; without a list of tokens it throws.)
appStateReducer(state) ==
  [t \in Tokens |->
     IF state.superTokens[t] = None THEN None
     ELSE [inflowRate |-> calculateInOutRate(state.flows, t, TRUE),
           outflowRate |-> calculateInOutRate(state.flows, t, FALSE)]]

SYNCED == [kind |-> "EXTERNAL_SUBSCRIPTION_SYNCED"]
SYNCING(to) == [kind |-> "SYNC_STATUS_SYNCING", to |-> to]

\* Mutation: the end of the past events is not an event the reducer knows.
ReducerMissesSynced(state, event, ok) ==
  CASE event.kind = "FlowUpdated" -> handleFlowUpdated(state, event, ok)
    [] event.kind = "Vault" -> handleVaultEvent(state, event, ok)
    [] event.kind = "SYNC_STATUS_SYNCING" ->
         [state EXCEPT !.isSyncing = TRUE, !.cachedBlockNumber = event.to]
    [] OTHER -> state

reducer(state, event, ok) ==
  CASE event.kind = "FlowUpdated" -> handleFlowUpdated(state, event, ok)
    [] event.kind = "Vault" -> handleVaultEvent(state, event, ok)
    [] event.kind = "SYNC_STATUS_SYNCING" ->
         [state EXCEPT !.isSyncing = TRUE, !.cachedBlockNumber = event.to]
    [] event.kind = "EXTERNAL_SUBSCRIPTION_SYNCED" ->
         [state EXCEPT !.isSyncing = FALSE]
    [] OTHER -> state

-----------------------------------------------------------------------------
(* script.js: initializeState; store/helpers.js: subscribeToExternals       *)

Subscriptions == {"agent", "receiver", "sender"}   \* [agent, cfa, cfa] and their topics

Matches(sub, event, a) ==
  CASE sub = "agent" -> event.kind = "Vault" /\ event.sender = a
    [] sub = "receiver" -> event.kind = "FlowUpdated" /\ event.receiver = a
    [] sub = "sender" -> event.kind = "FlowUpdated" /\ event.sender = a

FreshState(a) ==
  [agentAddress |-> a,
   superTokens |-> [t \in Tokens |-> None],
   flows |-> <<>>,
   sendersSuperTokens |-> [p \in Parties |-> [t \in Tokens |-> None]],
   cachedBlockNumber |-> NoBlock,
   isSyncing |-> TRUE]

CallsSucceed == IF Failures THEN BOOLEAN ELSE {TRUE}

NoSession ==
  [up |-> FALSE, agent |-> None, current |-> 0, cachedBlock |-> NoBlock, stage |-> "none",
   pending |-> {}, next |-> [s \in Subscriptions |-> 0], announced |-> FALSE]

\* The fresh state is overridden by the cached one, agentAddress included; the
\* subscriptions use the agent just read from the contract.
initializeState ==
  /\ ~sess.up /\ sessions < MaxSessions
  /\ LET cached == IF cache = None THEN FreshState(appAgent) ELSE cache
     IN  /\ cached.superTokens # None   \* .map of undefined: the script does not start
         /\ \E ok \in CallsSucceed :
              st' = loadInitialSuperTokens([cached EXCEPT !.isSyncing = TRUE], Len(log), ok)
         /\ sess' = [up |-> TRUE, agent |-> appAgent, current |-> Len(log),
                     cachedBlock |-> cached.cachedBlockNumber, stage |-> "cached",
                     pending |-> Subscriptions,
                     next |-> [s \in Subscriptions |-> Len(log)], announced |-> FALSE]
  /\ sessions' = sessions + 1
  /\ UNCHANGED <<chain, queue, cache>>

\* The blocks the current stage reads.
StageRange ==
  IF sess.stage = "cached"
  THEN CachedRange(sess.cachedBlock, sess.current, InitialBlock)
  ELSE RecentRange(sess.current, InitialBlock)

PastEvents(sub) ==
  Sublist(log, {b \in DOMAIN log : Matches(sub, log[b], sess.agent) /\ log[b].block \in StageRange})

\* One of the stage's three pastEvents calls answers: its events are emitted as they
\* are, whichever of the three answers first.  With the last answer the stage ends.
pastEvents(sub) ==
  /\ sess.up /\ sess.stage \in {"cached", "recent"} /\ sub \in sess.pending
  /\ LET last == sess.pending = {sub}
         ends == last /\ sess.stage = "recent"
     IN  /\ queue' = queue \o PastEvents(sub) \o (IF ends THEN <<SYNCED>> ELSE <<>>)
         /\ sess' = [sess EXCEPT
              !.stage = IF last THEN (IF ends THEN "live" ELSE "recent") ELSE @,
              !.pending = IF last THEN (IF ends THEN {} ELSE Subscriptions) ELSE @ \ {sub}]
  /\ UNCHANGED <<chain, st, cache, sessions>>

\* The blocks from `current` on that a live subscription has yet to emit.
Unseen(sub) ==
  {b \in sess.next[sub]..Len(log) : Matches(sub, log[b], sess.agent)}

\* Mutation: the subscription resumes at the head and not after the event it emitted.
EventsSkip(sub) ==
  /\ sess.up /\ sess.stage = "live" /\ Unseen(sub) # {}
  /\ queue' = Append(queue, log[Min(Unseen(sub))])
  /\ sess' = [sess EXCEPT !.next[sub] = Len(log) + 1]
  /\ UNCHANGED <<chain, st, cache, sessions>>

\* A live subscription emits its next event; each is in order, the three are not.
events(sub) ==
  /\ sess.up /\ sess.stage = "live" /\ Unseen(sub) # {}
  /\ LET b == Min(Unseen(sub))
     IN  /\ queue' = Append(queue, log[b])
         /\ sess' = [sess EXCEPT !.next[sub] = b + 1]
  /\ UNCHANGED <<chain, st, cache, sessions>>

\* External: the Aragon client starts its own sync, once per session.
AnnounceSyncing ==
  /\ sess.up /\ ~sess.announced
  /\ queue' = Append(queue, SYNCING(CachedTo(sess.current, InitialBlock)))
  /\ sess' = [sess EXCEPT !.announced = TRUE]
  /\ UNCHANGED <<chain, st, cache, sessions>>

Reduce ==
  /\ sess.up /\ queue # <<>>
  /\ \E ok \in CallsSucceed : st' = reducer(st, Head(queue), ok)
  /\ queue' = Tail(queue)
  /\ UNCHANGED <<chain, sess, cache, sessions>>

\* External: the Aragon client saves the state the reducer has returned.
Persist ==
  /\ sess.up /\ sessions < MaxSessions
  /\ cache' = st
  /\ UNCHANGED <<chain, st, sess, queue, sessions>>

StoreEnds ==
  /\ sess' = NoSession
  /\ queue' = <<>>
  /\ st' = FreshState(appAgent)
  /\ UNCHANGED <<chain, cache, sessions>>

\* The page is closed.
Crash ==
  /\ sess.up /\ sessions < MaxSessions
  /\ StoreEnds

\* Does the handler of the event make a call whose failure nobody catches?  Both ask the node
\* for the block, and an incoming flow's handler asks for the sender's balance.
CanReject(state, event) ==
  \/ event.kind = "Vault"
  \/ event.kind = "FlowUpdated" /\ state.agentAddress \in {event.sender, event.receiver}

\* The handler's promise is rejected: the reducer returns it outside of its try, and the
\* store's stream of states ends for good.
Reject ==
  /\ Failures
  /\ sess.up /\ queue # <<>> /\ CanReject(st, Head(queue))
  /\ StoreEnds

\* A call of initializeState fails (the initialization block, the current block or its
\* timestamp): the store never starts, and retryEvery, whose callback has returned, does not
\* try again.
initializeRejects ==
  /\ Failures
  /\ ~sess.up /\ sessions < MaxSessions
  /\ sessions' = sessions + 1
  /\ UNCHANGED <<chain, st, sess, queue, cache>>
-----------------------------------------------------------------------------
Init ==
  /\ log = [b \in 1..InitialBlock |-> NoEvent]
  /\ rate = [t \in Tokens |-> [s \in Parties |-> [r \in Parties |-> 0]]]
  /\ balance = [t \in Tokens |-> [x \in Parties |-> 0]]
  /\ appAgent \in Agents
  /\ st = FreshState(appAgent)
  /\ sess = NoSession
  /\ queue = <<>>
  /\ cache = None
  /\ sessions = 0

ChainNext ==
  \/ EmptyBlock
  \/ \E t \in Tokens, s \in Parties, r \in Parties, n \in 0..MaxRate : FlowChange(t, s, r, n)
  \/ \E t \in Tokens, a \in Agents, n \in VaultAmounts : VaultChange(t, a, n)
  \/ \E a \in Agents : SetAgent(a)

ScriptNext ==
  \/ initializeState \/ initializeRejects
  \/ \E sub \in Subscriptions : pastEvents(sub) \/ events(sub)
  \/ AnnounceSyncing
  \/ Reduce
  \/ Persist
  \/ Crash \/ Reject

Next == ChainNext \/ ScriptNext

\* The node answers, live events arrive, and the store reduces what it is given.
Fairness ==
  /\ WF_vars(initializeState)
  /\ \A sub \in Subscriptions : WF_vars(pastEvents(sub)) /\ WF_vars(events(sub))
  /\ WF_vars(Reduce)

Spec == Init /\ [][Next]_vars
FairSpec == Spec /\ Fairness

-----------------------------------------------------------------------------
(* The chain's own account of a flow <<t, s, r>>, from the log.             *)

Key(flow, a) ==
  IF flow.isIncoming THEN <<flow.token, flow.entity, a>> ELSE <<flow.token, a, flow.entity>>

EventsOf(k) ==
  {b \in DOMAIN log : /\ log[b].kind = "FlowUpdated"
                      /\ <<log[b].token, log[b].sender, log[b].receiver>> = k}

RateAt(k, b) ==
  LET before == {e \in EventsOf(k) : e <= b}
  IN  IF before = {} THEN 0 ELSE log[Max(before)].flowRate

Births(k) == {b \in EventsOf(k) : RateAt(k, b - 1) = 0}

StreamedBetween(k, from, to) == SumFunction([b \in from..(to - 1) |-> RateAt(k, b)])

\* Every event the session will ever see so far has been reduced.
Drained ==
  /\ sess.up /\ sess.stage = "live" /\ queue = <<>>
  /\ \A sub \in Subscriptions : Unseen(sub) = {}

Keys == {k \in Tokens \X Parties \X Parties :
           k[2] # k[3] /\ st.agentAddress \in {k[2], k[3]}}

Entries(k) == {i \in DOMAIN st.flows : Key(st.flows[i], st.agentAddress) = k}
Open(k) == {i \in Entries(k) : ~st.flows[i].isCancelled}

-----------------------------------------------------------------------------
(* Properties.                                                              *)

\* The store's flow entries, its queue and its session have the shapes the code gives them.
TypeOK ==
  /\ st.agentAddress \in Agents
  /\ st.flows \in Seq([isCancelled : BOOLEAN, isIncoming : BOOLEAN, entity : Parties,
                       token : Tokens, accumulatedAmount : Int, creationTimestamp : Nat,
                       lastTimestamp : Nat, flowRate : Nat])
  /\ \A i \in DOMAIN st.flows : st.flows[i].entity # st.agentAddress
  /\ st.cachedBlockNumber \in Nat /\ st.isSyncing \in BOOLEAN
  /\ sess.pending \subseteq Subscriptions
  /\ sessions \in 0..MaxSessions

\* A flow is never listed twice: at most one open entry per token, counterparty and
\* direction, whatever the order of the events, and whatever is replayed or lost on the
\* way; so a later update or deletion in updateFlows finds the one entry it means.
OpenEntriesUnique ==
  \A i, j \in DOMAIN st.flows :
    /\ ~st.flows[i].isCancelled /\ ~st.flows[j].isCancelled
    /\ st.flows[i].token = st.flows[j].token /\ st.flows[i].entity = st.flows[j].entity
    /\ st.flows[i].isIncoming = st.flows[j].isIncoming
    => i = j

\* A closed entry is final: while the script runs no event, not even one replayed after a
\* restart, drops, reopens or alters the history of a flow that has ended.
ClosedIsFinal ==
  [][sess.up /\ sess'.up =>
       \A i \in DOMAIN st.flows : st.flows[i].isCancelled =>
         i \in DOMAIN st'.flows /\ st'.flows[i] = st.flows[i]]_vars

\* Once all events have been reduced the open entries are exactly the agent's flows on the
\* chain, at their rates, though vault, incoming and outgoing events arrive in any order.
MirrorsChain ==
  Drained => \A k \in Keys :
    LET now == RateAt(k, Len(log))
    IN  IF now = 0 THEN Open(k) = {}
        ELSE \E i \in Open(k) : st.flows[i].flowRate = now

\* The listed history is exact: one entry per time the flow was opened, and the amount
\* accumulated by each is what the chain streamed between its creation and its last event.
HistoryExact ==
  Drained => \A k \in Keys :
    /\ {st.flows[i].creationTimestamp : i \in Entries(k)} = Births(k)
    /\ \A i, j \in Entries(k) :
         st.flows[i].creationTimestamp = st.flows[j].creationTimestamp => i = j
    /\ \A i \in Entries(k) :
         LET f == st.flows[i]
         IN  f.accumulatedAmount = StreamedBetween(k, f.creationTimestamp, f.lastTimestamp)

\* While the list of tokens is not lost every listed flow, also a closed one and also after a restart, has
\* its token's card: components/Flows reads the card's symbol without a check.
EachFlowHasCard ==
  st.superTokens # None =>
    \A i \in DOMAIN st.flows : appStateReducer(st)[st.flows[i].token] # None

\* The cards agree with the flows: each listed flow has its token's card and, once all events have been
\* reduced, a card's in- and outflow are the sums of the chain's flows of its token.
CardsMatchFlows ==
  /\ EachFlowHasCard
  /\ Drained /\ st.superTokens # None =>
       LET cards == appStateReducer(st)
           a == st.agentAddress
       IN  \A t \in Tokens : cards[t] # None =>
             /\ cards[t].inflowRate = SumFunction([p \in Parties |-> RateAt(<<t, p, a>>, Len(log))])
             /\ cards[t].outflowRate = SumFunction([p \in Parties |-> RateAt(<<t, a, p>>, Len(log))])

\* A session that is reading past events gets past them: isSyncing, which the front end
\* shows as loading, is cleared unless the page is closed or the store ends first.
SyncEnds ==
  (sess.up /\ sess.stage # "live") ~> (~sess.up \/ ~st.isSyncing)

\* When the chain comes to rest the list of flows comes to rest on the chain's flows, however many
\* token calls fail, unless there is no store any more: the page stays closed or a handler was
\* rejected.
EventuallyMirrors == <>[](~sess.up) \/ <>[](Drained /\ MirrorsChain)
-----------------------------------------------------------------------------
(* What the documentation and the comments say, and the code does not do.   *)

\* details.md: "Browse through all the app's streams".  Every flow of the agent is listed
\* once the script has caught up, also after a restart from its cache.
EveryStreamListed ==
  Drained => \A k \in Keys : RateAt(k, Len(log)) > 0 => Open(k) # {}

\* details.md: "filter them by state".  Once the script has caught up, and no opening of the flow
\* is missing from the list, an entry that is listed as open is about a flow that runs.
OpenEntriesRun ==
  Drained => \A k \in Keys :
    /\ Births(k) \subseteq {st.flows[i].creationTimestamp : i \in Entries(k)}
    /\ Open(k) # {}
    => RateAt(k, Len(log)) > 0

\* script.js: "Get the agent address to initialize ourselves".  The state is about the agent
\* that the contract named when the session started, the one it subscribed to.
StateOfContractAgent == sess.up => st.agentAddress = sess.agent

\* details.md: "See the current dynamic balance of all Super Tokens".  Once the script has
\* caught up, the balance the front end extrapolates (balance + netFlow * time since
\* lastUpdateTimestamp) is the agent's balance.
DynamicBalanceCurrent ==
  Drained => \A t \in Tokens :
    LET shown == st.superTokens[t]
    IN  shown # None =>
          shown.balance + shown.netFlow * (Len(log) - shown.lastUpdateTimestamp)
            = balance[t][st.agentAddress]
=============================================================================
