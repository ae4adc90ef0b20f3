-------------------------- MODULE FlowStoreProofs --------------------------
(***************************************************************************)
(* For any chain, any events in any order, any number of sessions and any  *)
(* moment of saving and closing: updateFlows never lists a flow twice and  *)
(* never touches an entry that is closed, and the state keeps its shape.   *)
(* No flow is listed without its token's card.  In the first session the   *)
(* list of flows, its history and the rates on the cards are the chain's,  *)
(* once all events have been reduced.                                      *)
(***************************************************************************)
EXTENDS FlowStore, DataProofs, SequenceTheorems, TLAPS

\* What the proofs need of the shape of an entry, of the list and of the state: the values
\* of their other fields do not matter.
IsEntry(f) == {"isCancelled", "isIncoming", "entity", "token"} \subseteq DOMAIN f

IsList(flows) ==
  /\ Len(flows) \in Nat
  /\ flows = [i \in 1..Len(flows) |-> flows[i]]
  /\ \A i \in 1..Len(flows) : IsEntry(flows[i])

IsState(s) == "flows" \in DOMAIN s

SameFlow(f, g) == f.token = g.token /\ f.entity = g.entity /\ f.isIncoming = g.isIncoming

Unique(flows) ==
  \A i, j \in 1..Len(flows) :
    ~flows[i].isCancelled /\ ~flows[j].isCancelled /\ SameFlow(flows[i], flows[j]) => i = j

Good(s) == IsState(s) /\ IsList(s.flows) /\ Unique(s.flows)

\* The inductive invariant: also the saved state, which a later session starts from.
Inv == Good(st) /\ (cache # None => Good(cache))

\* findIndex finds the first open entry of the event's flow, if there is one.
LEMMA FoundIndex ==
  ASSUME NEW flows, IsList(flows), NEW event
  PROVE  \/ /\ FlowIndex(flows, event) = 0
            /\ \A i \in 1..Len(flows) : ~isFlowEqual(flows[i], event)
         \/ /\ FlowIndex(flows, event) \in 1..Len(flows)
            /\ isFlowEqual(flows[FlowIndex(flows, event)], event)
<1> DEFINE found == {i \in DOMAIN flows : isFlowEqual(flows[i], event)}
<1>1. DOMAIN flows = 1..Len(flows) /\ Len(flows) \in Nat
  BY DEF IsList
<1>2. CASE found = {}
  BY <1>1, <1>2 DEF FlowIndex
<1>3. CASE found # {}
  <2>1. found \subseteq Nat
    BY <1>1
  <2>5. \E x \in found : \A y \in found : x <= y
    <3> HIDE DEF found
    <3> QED BY <1>3, <2>1, LeastOf
  <2>6. FlowIndex(flows, event) = CHOOSE i \in found : \A j \in found : i <= j
    BY <1>3 DEF FlowIndex
  <2>7. FlowIndex(flows, event) \in found
    <3> HIDE DEF found
    <3> QED BY <2>5, <2>6
  <2> QED BY <1>1, <2>7
<1> QED BY <1>2, <1>3

LEMMA EntryChanged ==
  ASSUME NEW f, IsEntry(f), NEW amount, NEW timestamp, NEW n
  PROVE  LET set == [f EXCEPT !.accumulatedAmount = amount, !.lastTimestamp = timestamp,
                              !.flowRate = n]
             closed == [f EXCEPT !.accumulatedAmount = amount, !.lastTimestamp = timestamp,
                                 !.isCancelled = n]
         IN  IsEntry(set) /\ SameFlow(set, f) /\ IsEntry(closed) /\ SameFlow(closed, f)
  BY DEF IsEntry, SameFlow

\* updateFlows appends one open entry no open entry is the same flow as, or replaces the
\* open entry that is found by one of the same flow.
LEMMA UpdateFlowsIs ==
  ASSUME NEW s, NEW event, NEW timestamp, IsList(s.flows)
  PROVE  \/ /\ updateFlows(s, event, timestamp)
                 = Append(s.flows, NewFlow(s.agentAddress, event, timestamp))
            /\ \A i \in 1..Len(s.flows) : ~isFlowEqual(s.flows[i], event)
         \/ \E i \in 1..Len(s.flows) : \E f :
              /\ updateFlows(s, event, timestamp) = [s.flows EXCEPT ![i] = f]
              /\ ~s.flows[i].isCancelled /\ IsEntry(f) /\ SameFlow(f, s.flows[i])
<1> DEFINE k == FlowIndex(s.flows, event)
<1>1. CASE k = 0
  BY <1>1, FoundIndex DEF updateFlows
<1>2. CASE k # 0
  <2>1. k \in 1..Len(s.flows) /\ ~s.flows[k].isCancelled /\ IsEntry(s.flows[k])
    BY <1>2, FoundIndex DEF isFlowEqual, IsList
  <2> DEFINE amount == calculateNewAccumulatedAmount(s.flows[k], timestamp)
             set == [s.flows[k] EXCEPT !.accumulatedAmount = amount,
                                       !.lastTimestamp = timestamp,
                                       !.flowRate = event.flowRate]
             closed == [s.flows[k] EXCEPT !.accumulatedAmount = amount,
                                          !.lastTimestamp = timestamp,
                                          !.isCancelled = TRUE]
  <2>2. updateFlows(s, event, timestamp)
          = IF event.flowRate > 0 THEN [s.flows EXCEPT ![k] = set]
                                  ELSE [s.flows EXCEPT ![k] = closed]
    BY <1>2 DEF updateFlows
  <2> HIDE DEF k, amount
  <2>3. IsEntry(set) /\ SameFlow(set, s.flows[k])
    BY <2>1, EntryChanged
  <2>4. IsEntry(closed) /\ SameFlow(closed, s.flows[k])
    BY <2>1, EntryChanged
  <2> HIDE DEF set, closed
  <2> QED BY <2>1, <2>2, <2>3, <2>4
<1> QED BY <1>1, <1>2

\* Closed entries of a list are in the other one, at the same place.
KeepsClosed(old, new) ==
  \A i \in 1..Len(old) : old[i].isCancelled => i \in 1..Len(new) /\ new[i] = old[i]

LEMMA UpdateFlowsGood ==
  ASSUME NEW s, NEW event, NEW timestamp, IsList(s.flows), Unique(s.flows)
  PROVE  /\ IsList(updateFlows(s, event, timestamp))
         /\ Unique(updateFlows(s, event, timestamp))
         /\ KeepsClosed(s.flows, updateFlows(s, event, timestamp))
<1> DEFINE flows == s.flows
           new == updateFlows(s, event, timestamp)
           n == Len(flows)
<1>1. n \in Nat /\ flows = [i \in 1..n |-> flows[i]] /\ \A i \in 1..n : IsEntry(flows[i])
  BY DEF IsList
<1>2. CASE /\ new = Append(flows, NewFlow(s.agentAddress, event, timestamp))
           /\ \A i \in 1..n : ~isFlowEqual(flows[i], event)
  <2> DEFINE f == NewFlow(s.agentAddress, event, timestamp)
  <2>1. IsEntry(f) /\ f.token = event.token /\ f.entity = getFlowEventEntity(event, f.isIncoming)
    BY DEF NewFlow, IsEntry
  <2>2. \A i \in 1..n : flows[i].isCancelled \/ ~SameFlow(flows[i], f)
    <3> HIDE DEF f
    <3> QED BY <1>2, <2>1 DEF isFlowEqual, SameFlow
  <2> HIDE DEF f
  <2>3. new = [i \in 1..(n + 1) |-> IF i = n + 1 THEN f ELSE flows[i]] /\ Len(new) = n + 1
    <3>1. flows \in Seq({flows[i] : i \in 1..n})
      <4>1. flows \in [1..n -> {flows[i] : i \in 1..n}]
        BY <1>1
      <4> QED BY <1>1, <4>1
    <3> HIDE DEF flows, n
    <3> QED BY <1>1, <1>2, <3>1 DEF f, n
  <2> HIDE DEF flows, new, n
  <2>4. IsList(new)
    <3>1. n + 1 \in Nat /\ new = [i \in 1..(n + 1) |-> new[i]]
      BY <1>1, <2>3
    <3>2. ASSUME NEW i \in 1..(n + 1) PROVE IsEntry(new[i])
      <4>1. CASE i = n + 1
        BY <1>1, <2>1, <2>3, <4>1
      <4>2. CASE i # n + 1
        <5>1. i \in 1..n /\ new[i] = flows[i]
          BY <1>1, <2>3, <4>2
        <5> QED BY <1>1, <5>1
      <4> QED BY <4>1, <4>2
    <3> QED BY <2>3, <3>1, <3>2 DEF IsList
  <2>5. \A i, j \in 1..n :
          ~flows[i].isCancelled /\ ~flows[j].isCancelled /\ SameFlow(flows[i], flows[j]) => i = j
    BY DEF Unique, flows, n
  <2>6. Unique(new)
    <3> SUFFICES ASSUME NEW i \in 1..(n + 1), NEW j \in 1..(n + 1),
                        ~new[i].isCancelled, ~new[j].isCancelled, SameFlow(new[i], new[j])
                 PROVE  i = j
      BY <2>3 DEF Unique
    <3>1. SameFlow(new[j], new[i])
      BY DEF SameFlow
    <3>2. \A x \in 1..(n + 1) : IF x = n + 1 THEN new[x] = f
                                ELSE x \in 1..n /\ new[x] = flows[x]
      BY <1>1, <2>3
    <3>3. CASE i = n + 1 /\ j # n + 1
      BY <2>2, <3>1, <3>2, <3>3
    <3>4. CASE i # n + 1 /\ j = n + 1
      BY <2>2, <3>2, <3>4
    <3>5. CASE i # n + 1 /\ j # n + 1
      BY <2>5, <3>2, <3>5
    <3> QED BY <3>3, <3>4, <3>5
  <2>7. KeepsClosed(flows, new)
    BY <1>1, <2>3 DEF KeepsClosed, n
  <2> QED BY <2>4, <2>6, <2>7 DEF flows, new
<1>3. ASSUME NEW k \in 1..n, NEW f,
             new = [flows EXCEPT ![k] = f],
             ~flows[k].isCancelled, IsEntry(f), SameFlow(f, flows[k])
      PROVE  IsList(new) /\ Unique(new) /\ KeepsClosed(flows, new)
  <2>1. new = [i \in 1..n |-> IF i = k THEN f ELSE flows[i]]
    BY <1>1, <1>3
  <2>2. Len(new) = n
    <3> HIDE DEF flows, new, n
    <3> QED BY <1>1, <2>1
  <2>3. \A i, j \in 1..n :
          ~flows[i].isCancelled /\ ~flows[j].isCancelled /\ SameFlow(flows[i], flows[j]) => i = j
    BY DEF Unique
  <2> HIDE DEF flows, new, n
  <2>4. IsList(new)
    BY <1>1, <1>3, <2>1, <2>2 DEF IsList
  <2>5. Unique(new)
    BY <1>1, <1>3, <2>1, <2>2, <2>3 DEF Unique, SameFlow
  <2>6. KeepsClosed(flows, new)
    BY <1>1, <1>3, <2>1, <2>2 DEF KeepsClosed, n
  <2> QED BY <2>4, <2>5, <2>6
<1> QED BY <1>2, <1>3, UpdateFlowsIs

\* Whatever the event, and whether or not the token's contract answers, the reducer leaves
\* the flows alone or updates them.
LEMMA ReducerFlows ==
  ASSUME NEW s, IsState(s), NEW event, NEW ok
  PROVE  /\ IsState(reducer(s, event, ok))
         /\ \/ reducer(s, event, ok).flows = s.flows
            \/ reducer(s, event, ok).flows = updateFlows(s, event, event.block)
<1>1. /\ IsState(handleFlowUpdated(s, event, ok))
      /\ \/ handleFlowUpdated(s, event, ok).flows = s.flows
         \/ handleFlowUpdated(s, event, ok).flows = updateFlows(s, event, event.block)
  <2>1. CASE s.agentAddress \notin {event.sender, event.receiver}
    BY <2>1 DEF handleFlowUpdated
  <2>2. CASE s.agentAddress \in {event.sender, event.receiver}
    <3>1. PICK u, w : handleFlowUpdated(s, event, ok)
            = [s EXCEPT !.superTokens = u, !.flows = updateFlows(s, event, event.block),
                        !.sendersSuperTokens = w]
      BY <2>2 DEF handleFlowUpdated
    <3> QED BY <3>1 DEF IsState
  <2> QED BY <2>1, <2>2
<1>2. IsState(handleVaultEvent(s, event, ok)) /\ handleVaultEvent(s, event, ok).flows = s.flows
  BY DEF handleVaultEvent, IsState
<1>3. ASSUME NEW to
      PROVE  LET r == [s EXCEPT !.isSyncing = TRUE, !.cachedBlockNumber = to]
             IN  IsState(r) /\ r.flows = s.flows
  BY DEF IsState
<1>4. LET r == [s EXCEPT !.isSyncing = FALSE] IN IsState(r) /\ r.flows = s.flows
  BY DEF IsState
<1> QED BY <1>1, <1>2, <1>3, <1>4 DEF reducer

LEMMA ReducerGood ==
  ASSUME NEW s, Good(s), NEW event, NEW ok
  PROVE  Good(reducer(s, event, ok)) /\ KeepsClosed(s.flows, reducer(s, event, ok).flows)
<1>1. KeepsClosed(s.flows, s.flows)
  BY DEF KeepsClosed
<1> QED BY <1>1, ReducerFlows, UpdateFlowsGood DEF Good

LEMMA FreshGood == ASSUME NEW a PROVE Good(FreshState(a))
<1>1. IsState(FreshState(a)) /\ FreshState(a).flows = <<>>
  BY DEF IsState, FreshState
<1>2. Len(<<>>) = 0 /\ 1..0 = {}
  OBVIOUS
<1>3. IsList(<<>>) /\ Unique(<<>>)
  BY <1>2 DEF IsList, Unique
<1> QED BY <1>1, <1>3 DEF Good

\* initializeState keeps the flows of the cached state, or starts with none.
LEMMA InitializeGood == ASSUME Inv, initializeState PROVE Good(st')
<1> DEFINE cached == IF cache = None THEN FreshState(appAgent) ELSE cache
<1>1. Good(cached)
  BY FreshGood DEF Inv
<1>2. PICK ok \in CallsSucceed :
        st' = loadInitialSuperTokens([cached EXCEPT !.isSyncing = TRUE], Len(log), ok)
  BY DEF initializeState
<1> HIDE DEF cached
<1>3. IsState(st') /\ st'.flows = cached.flows
  <2> DEFINE syncing == [cached EXCEPT !.isSyncing = TRUE]
  <2>1. IsState(syncing) /\ syncing.flows = cached.flows
    BY <1>1 DEF Good, IsState
  <2> HIDE DEF syncing
  <2>2. PICK u : st' = [syncing EXCEPT !.superTokens = u]
    BY <1>2 DEF loadInitialSuperTokens, syncing
  <2> QED BY <2>1, <2>2 DEF IsState
<1> QED BY <1>1, <1>3 DEF Good

LEMMA InitInv == Init => Inv
  BY FreshGood DEF Init, Inv

LEMMA InvStep == Inv /\ [Next]_vars => Inv'
<1> SUFFICES ASSUME Inv, [Next]_vars PROVE Inv'
  OBVIOUS
<1>1. CASE UNCHANGED <<st, cache>>
  BY <1>1 DEF Inv
<1>2. CASE initializeState
  BY <1>2, InitializeGood DEF Inv, initializeState
<1>3. CASE Reduce
  BY <1>3, ReducerGood DEF Inv, Reduce
<1>4. CASE Persist
  BY <1>4 DEF Inv, Persist
<1>5. CASE Crash \/ Reject
  BY <1>5, FreshGood DEF Inv, Crash, Reject, StoreEnds
<1>6. CASE ChainNext
  BY <1>1, <1>6 DEF ChainNext, EmptyBlock, FlowChange, VaultChange, SetAgent, Block, script
<1>7. CASE AnnounceSyncing
  BY <1>1, <1>7 DEF AnnounceSyncing
<1>8. CASE \E sub \in Subscriptions : pastEvents(sub) \/ events(sub)
  BY <1>1, <1>8 DEF pastEvents, events
<1>9. CASE initializeRejects
  BY <1>1, <1>9 DEF initializeRejects
<1> QED
  BY <1>1, <1>2, <1>3, <1>4, <1>5, <1>6, <1>7, <1>8, <1>9 DEF Next, ScriptNext, vars, script

LEMMA InvAlways == Spec => []Inv
  BY InitInv, InvStep, PTL DEF Spec

\* No order of events, no replay and no restart makes updateFlows list a flow twice.
THEOREM NoDuplicates == Spec => []OpenEntriesUnique
<1>1. Inv => OpenEntriesUnique
  <2> SUFFICES ASSUME Inv PROVE OpenEntriesUnique
    OBVIOUS
  <2>1. DOMAIN st.flows = 1..Len(st.flows)
    BY DEF Inv, Good, IsList
  <2> QED BY <2>1 DEF Inv, Good, Unique, SameFlow, OpenEntriesUnique
<1> QED BY <1>1, InvAlways, PTL

\* The history of a flow that has ended is never changed by a later event.
THEOREM ClosedStaysClosed == Spec => ClosedIsFinal
<1>1. Inv /\ [Next]_vars =>
        [sess.up /\ sess'.up =>
           \A i \in DOMAIN st.flows : st.flows[i].isCancelled =>
             i \in DOMAIN st'.flows /\ st'.flows[i] = st.flows[i]]_vars
  <2> SUFFICES ASSUME Inv, Next, sess.up, sess'.up,
                      NEW i \in DOMAIN st.flows, st.flows[i].isCancelled
               PROVE  i \in DOMAIN st'.flows /\ st'.flows[i] = st.flows[i]
    OBVIOUS
  <2>1. CASE UNCHANGED st
    BY <2>1
  <2>2. CASE Reduce
    <3>1. PICK ok \in CallsSucceed : st' = reducer(st, Head(queue), ok)
      BY <2>2 DEF Reduce
    <3>2. Good(st) /\ Good(st') /\ KeepsClosed(st.flows, st'.flows)
      BY <3>1, ReducerGood DEF Inv
    <3>3. DOMAIN st.flows = 1..Len(st.flows) /\ DOMAIN st'.flows = 1..Len(st'.flows)
      BY <3>2 DEF Good, IsList
    <3> QED BY <3>2, <3>3 DEF KeepsClosed
  <2>3. CASE initializeState \/ initializeRejects
    BY <2>3 DEF initializeState, initializeRejects
  <2>4. CASE Crash \/ Reject
    BY <2>4 DEF Crash, Reject, StoreEnds, NoSession
  <2>5. CASE ChainNext
    BY <2>1, <2>5 DEF ChainNext, EmptyBlock, FlowChange, VaultChange, SetAgent, Block, script
  <2>6. CASE Persist \/ AnnounceSyncing
    BY <2>1, <2>6 DEF Persist, AnnounceSyncing
  <2>7. CASE \E sub \in Subscriptions : pastEvents(sub) \/ events(sub)
    BY <2>1, <2>7 DEF pastEvents, events
  <2> QED BY <2>2, <2>3, <2>4, <2>5, <2>6, <2>7 DEF Next, ScriptNext
<1> QED BY <1>1, InvAlways, PTL DEF Spec, ClosedIsFinal

-----------------------------------------------------------------------------
(* The shapes of the chain's log, the queue, the state and the session.     *)

Listed(s) == Len(s) \in Nat /\ s = [i \in 1..Len(s) |-> s[i]]

\* What a FlowUpdated of the CFA and an event of the vault carry.
FlowOK(e) ==
  /\ e.kind = "FlowUpdated" =>
       /\ e.token \in Tokens /\ e.sender \in Parties /\ e.receiver \in Parties
       /\ e.sender # e.receiver /\ e.flowRate \in Nat /\ e.block \in Nat
       /\ e.totalSenderFlowRate \in Int /\ e.totalReceiverFlowRate \in Int
  /\ e.kind = "Vault" => e.token \in Tokens /\ e.block \in Nat

\* An event carries the number of its block, and none is older than the agent.
LogOK(lg) ==
  /\ Listed(lg) /\ InitialBlock <= Len(lg)
  /\ \A b \in 1..Len(lg) :
       FlowOK(lg[b]) /\ (lg[b].kind # "none" => lg[b].block = b /\ InitialBlock < b)

QueueOK(q) ==
  /\ Listed(q)
  /\ \A i \in 1..Len(q) :
       FlowOK(q[i]) /\ (q[i].kind = "SYNC_STATUS_SYNCING" => q[i].to \in Nat)

Entry == [isCancelled : BOOLEAN, isIncoming : BOOLEAN, entity : Parties, token : Tokens,
          accumulatedAmount : Int, creationTimestamp : Nat, lastTimestamp : Nat, flowRate : Nat]

StateOK(s) ==
  /\ {"agentAddress", "flows", "cachedBlockNumber", "isSyncing"} \subseteq DOMAIN s
  /\ s.agentAddress \in Agents
  /\ s.flows \in Seq(Entry)
  /\ \A i \in DOMAIN s.flows : s.flows[i].entity # s.agentAddress
  /\ s.cachedBlockNumber \in Nat
  /\ s.isSyncing \in BOOLEAN

\* A session reads from the block it started at; a live subscription is never ahead of
\* the chain.
SessionOK(s, height) ==
  /\ DOMAIN s = {"up", "agent", "current", "cachedBlock", "stage", "pending", "next", "announced"}
  /\ s.pending \subseteq Subscriptions
  /\ s.up => /\ s.current \in InitialBlock..height
             /\ s.stage \in {"cached", "recent", "live"}
             /\ s.next \in [Subscriptions -> Nat \ {0}]
             /\ \A sub \in Subscriptions : IF s.stage = "live" THEN s.next[sub] <= height + 1
                                           ELSE s.next[sub] = s.current

Rates == [Tokens -> [Parties -> [Parties -> Nat]]]
Balances == [Tokens -> [Parties -> Int]]

\* The inductive invariant behind TypeOK; nothing is saved before the first session.
Shapes ==
  /\ rate \in Rates /\ balance \in Balances
  /\ LogOK(log) /\ QueueOK(queue) /\ appAgent \in Agents
  /\ StateOK(st) /\ (cache # None => StateOK(cache))
  /\ SessionOK(sess, Len(log))
  /\ sessions \in 0..MaxSessions
  /\ sess.up => 0 < sessions
  /\ ~sess.up => queue = <<>>
  /\ sessions = 0 => cache = None

-----------------------------------------------------------------------------
(* One flow of the agent: the chain's events of it, and where they are.     *)

IsOf(e, t, s, r) ==
  e.kind = "FlowUpdated" /\ e.token = t /\ e.sender = s /\ e.receiver = r

\* The blocks with an event of the flow, and the places of its events in the queue.
Blocks(lg, t, s, r) == {b \in 1..Len(lg) : IsOf(lg[b], t, s, r)}
Places(q, t, s, r) == {i \in 1..Len(q) : IsOf(q[i], t, s, r)}

IsLast(b, B) == b \in B /\ \A c \in B : c <= b

\* The flow's rate is the one its last event carries.
RateIs(lg, n, t, s, r) ==
  \/ Blocks(lg, t, s, r) = {} /\ n = 0
  \/ \E b : IsLast(b, Blocks(lg, t, s, r)) /\ lg[b].flowRate = n

\* Only a flow that runs is deleted.
EndsRunning(lg, t, s, r) ==
  \A b \in Blocks(lg, t, s, r) : lg[b].flowRate = 0 =>
    \E c : IsLast(c, {d \in Blocks(lg, t, s, r) : d < b}) /\ lg[c].flowRate > 0

Account ==
  /\ rate \in Rates
  /\ \A t \in Tokens, s \in Parties, r \in Parties :
       RateIs(log, rate[t][s][r], t, s, r) /\ EndsRunning(log, t, s, r)

\* A subscription has emitted its events of the blocks before this one.
Frontier(s, sub) ==
  CASE s.stage = "live" -> s.next[sub]
    [] s.stage = "recent" -> IF sub \in s.pending THEN CachedTo(s.current, InitialBlock) + 1
                             ELSE s.current
    [] OTHER -> IF sub \in s.pending THEN InitialBlock + 1
                ELSE CachedTo(s.current, InitialBlock) + 1

Side(r, a) == IF r = a THEN "receiver" ELSE "sender"

\* The blocks whose event of the flow has been reduced: emitted, and not in the queue.
Reduced(lg, q, front, t, s, r) ==
  {b \in Blocks(lg, t, s, r) : b < front /\ \A i \in Places(q, t, s, r) : q[i].block # b}

\* The open entries of the flow in agent a's list.
InFlow(f, a, t, s, r) ==
  f.token = t /\ (IF f.isIncoming THEN f.entity = s /\ r = a ELSE f.entity = r /\ s = a)
IsOpen(f, a, t, s, r) == ~f.isCancelled /\ InFlow(f, a, t, s, r)
OpenAt(flows, a, t, s, r) == {i \in 1..Len(flows) : IsOpen(flows[i], a, t, s, r)}

\* The queue holds the chain's events of the flow, in the chain's order, after the reduced ones.
InOrder(lg, q, front, t, s, r) ==
  /\ \A i \in Places(q, t, s, r) :
       /\ q[i].block \in Blocks(lg, t, s, r) /\ q[i].block < front /\ q[i] = lg[q[i].block]
       /\ \A b \in Reduced(lg, q, front, t, s, r) : b < q[i].block
       /\ \A j \in Places(q, t, s, r) : i < j => q[i].block < q[j].block

\* The open entries of the flow show a rate n.
Shows(flows, n, a, t, s, r) ==
  IF n = 0 THEN OpenAt(flows, a, t, s, r) = {}
  ELSE \E i \in OpenAt(flows, a, t, s, r) : flows[i].flowRate = n

\* The chain's account of the flow: its rate in block b, what it streamed, and where it was opened.
RateOf(lg, b, t, s, r) ==
  LET B == {d \in Blocks(lg, t, s, r) : d <= b}
  IN  IF B = {} THEN 0 ELSE lg[Max(B)].flowRate
Flowed(lg, from, to, t, s, r) == SumFunction([b \in from..(to - 1) |-> RateOf(lg, b, t, s, r)])
Opened(lg, B, t, s, r) == {b \in B : RateOf(lg, b - 1, t, s, r) = 0}

\* All entries of the flow, the closed ones too.
EntriesAt(flows, a, t, s, r) == {i \in 1..Len(flows) : InFlow(flows[i], a, t, s, r)}

\* An entry is exact up to its last event; an open one has seen all that have been reduced.
Exact(lg, f, B, t, s, r) ==
  /\ f.lastTimestamp \in B /\ f.creationTimestamp <= f.lastTimestamp
  /\ f.accumulatedAmount = Flowed(lg, f.creationTimestamp, f.lastTimestamp, t, s, r)
  /\ ~f.isCancelled => IsLast(f.lastTimestamp, B) /\ f.flowRate = lg[f.lastTimestamp].flowRate

\* The flow's entries are its history as of the reduced events B.
History(lg, flows, B, a, t, s, r) ==
  /\ {flows[i].creationTimestamp : i \in EntriesAt(flows, a, t, s, r)} = Opened(lg, B, t, s, r)
  /\ \A i, j \in EntriesAt(flows, a, t, s, r) :
       flows[i].creationTimestamp = flows[j].creationTimestamp => i = j
  /\ \A i \in EntriesAt(flows, a, t, s, r) : Exact(lg, flows[i], B, t, s, r)

\* The list of flows shows the flow as of the last event that has been reduced.
UpToDate(lg, flows, B, a, t, s, r) ==
  /\ B = {} => OpenAt(flows, a, t, s, r) = {}
  /\ \A b : IsLast(b, B) => Shows(flows, lg[b].flowRate, a, t, s, r)
  /\ History(lg, flows, B, a, t, s, r)

FlowFollowed(lg, q, flows, front, a, t, s, r) ==
  /\ InOrder(lg, q, front, t, s, r)
  /\ UpToDate(lg, flows, Reduced(lg, q, front, t, s, r), a, t, s, r)

AllFollowed(lg, q, flows, ss, a) ==
  \A t \in Tokens, s \in Parties, r \in Parties :
    s # r /\ a \in {s, r} => FlowFollowed(lg, q, flows, Frontier(ss, Side(r, a)), a, t, s, r)

\* The inductive invariant behind MirrorsChain, in the first session.
Followed ==
  sess.up /\ sessions = 1 =>
    /\ st.agentAddress = sess.agent /\ sess.cachedBlock = NoBlock
    /\ AllFollowed(log, queue, st.flows, sess, sess.agent)

LEMMA SeqListed == ASSUME NEW S, NEW s \in Seq(S) PROVE Listed(s)
<1>1. Len(s) \in Nat /\ s \in [1..Len(s) -> S]
  BY LenProperties
<1> QED BY <1>1 DEF Listed

LEMMA ListedSeq ==
  ASSUME NEW s, Listed(s), NEW S, \A i \in 1..Len(s) : s[i] \in S
  PROVE  s \in Seq(S)
<1>1. s \in [1..Len(s) -> S] /\ Len(s) \in Nat
  BY DEF Listed
<1> QED BY <1>1

LEMMA AppendIs ==
  ASSUME NEW s, Listed(s), NEW e
  PROVE  /\ Listed(Append(s, e)) /\ Len(Append(s, e)) = Len(s) + 1
         /\ Append(s, e)[Len(s) + 1] = e
         /\ \A i \in 1..Len(s) : Append(s, e)[i] = s[i]
<1> DEFINE S == {s[i] : i \in 1..Len(s)} \cup {e}
<1>1. s \in Seq(S)
  BY ListedSeq
<1>2. e \in S
  OBVIOUS
<1> HIDE DEF S
<1>3. /\ Append(s, e) \in Seq(S) /\ Len(Append(s, e)) = Len(s) + 1
      /\ Append(s, e)[Len(s) + 1] = e
      /\ \A i \in 1..Len(s) : Append(s, e)[i] = s[i]
  BY <1>1, <1>2, AppendProperties
<1>4. Listed(Append(s, e))
  BY <1>3, SeqListed
<1> QED BY <1>3, <1>4

LEMMA ConcatIs ==
  ASSUME NEW s, Listed(s), NEW u, Listed(u)
  PROVE  /\ Listed(s \o u) /\ Len(s \o u) = Len(s) + Len(u)
         /\ \A i \in 1..Len(s) : (s \o u)[i] = s[i]
         /\ \A i \in 1..Len(u) : (s \o u)[Len(s) + i] = u[i]
         /\ \A i \in 1..Len(s \o u) :
              i \in 1..Len(s) \/ (i - Len(s) \in 1..Len(u) /\ (s \o u)[i] = u[i - Len(s)])
<1> DEFINE S == {s[i] : i \in 1..Len(s)} \cup {u[i] : i \in 1..Len(u)}
           n == Len(s)
           m == Len(u)
           new == s \o u
<1>1. s \in Seq(S) /\ u \in Seq(S) /\ n \in Nat /\ m \in Nat
  BY ListedSeq DEF Listed
<1> HIDE DEF S
<1>2. /\ Listed(new) /\ Len(new) = n + m
      /\ \A i \in 1..(n + m) : new[i] = IF i <= n THEN s[i] ELSE u[i - n]
  BY <1>1, ConcatProperties, SeqListed
<1> HIDE DEF n, m, new
<1>3. /\ \A i \in 1..n : new[i] = s[i]
      /\ \A i \in 1..m : new[n + i] = u[i]
      /\ \A i \in 1..(n + m) : i \in 1..n \/ (i - n \in 1..m /\ new[i] = u[i - n])
  BY <1>1, <1>2
<1> QED BY <1>2, <1>3 DEF n, m, new

LEMMA TailIs ==
  ASSUME NEW s, Listed(s), s # <<>>
  PROVE  /\ Listed(Tail(s)) /\ Len(Tail(s)) = Len(s) - 1 /\ 1 \in 1..Len(s) /\ Head(s) = s[1]
         /\ \A i \in 1..Len(Tail(s)) : i + 1 \in 1..Len(s) /\ Tail(s)[i] = s[i + 1]
         /\ \A i \in 1..Len(s) : i # 1 => i - 1 \in 1..Len(Tail(s)) /\ Tail(s)[i - 1] = s[i]
<1> DEFINE S == {s[i] : i \in 1..Len(s)}
           n == Len(s)
           new == Tail(s)
<1>1. s \in Seq(S) /\ n \in Nat
  BY ListedSeq DEF Listed
<1> HIDE DEF S
<1>2. Listed(new) /\ Len(new) = n - 1 /\ \A i \in 1..(n - 1) : new[i] = s[i + 1]
  BY <1>1, HeadTailProperties, SeqListed
<1>3. n # 0 /\ Head(s) = s[1]
  BY <1>1
<1> HIDE DEF n, new
<1>4. /\ 1 \in 1..n
      /\ \A i \in 1..(n - 1) : i + 1 \in 1..n /\ new[i] = s[i + 1]
      /\ \A i \in 1..n : i # 1 => i - 1 \in 1..(n - 1) /\ new[i - 1] = s[i]
  BY <1>1, <1>2, <1>3
<1> QED BY <1>2, <1>3, <1>4 DEF n, new

\* What is read of the log is in the order of the log.
LEMMA SublistListed ==
  ASSUME NEW s, NEW P \in SUBSET Nat, IsFiniteSet(P)
  PROVE  /\ Listed(Sublist(s, P))
         /\ \A k \in 1..Len(Sublist(s, P)) : Kth(P, k) \in P /\ Sublist(s, P)[k] = s[Kth(P, k)]
         /\ \A b \in P : \E k \in 1..Len(Sublist(s, P)) : Kth(P, k) = b
         /\ \A k, l \in 1..Len(Sublist(s, P)) : k < l => Kth(P, k) < Kth(P, l)
<1> DEFINE n == Cardinality(P)
           new == Sublist(s, P)
<1>1. n \in Nat /\ Len(new) = n /\ new = [k \in 1..n |-> s[Kth(P, k)]]
  BY SublistIs DEF Sublist
<1>2. /\ \A k \in 1..n : Kth(P, k) \in P
      /\ \A b \in P : \E k \in 1..n : Kth(P, k) = b
      /\ \A k, l \in 1..n : k < l => Kth(P, k) < Kth(P, l)
  BY KthIs
<1> HIDE DEF n, new
<1>3. Listed(new)
  BY <1>1 DEF Listed
<1> QED BY <1>1, <1>2, <1>3 DEF new

\* The first and the last of a set of blocks.
LEMMA FirstOf ==
  ASSUME NEW B, B \subseteq Nat, B # {}
  PROVE  Min(B) \in B /\ \A c \in B : Min(B) <= c
  BY LeastOf DEF Min

LEMMA LastOf ==
  ASSUME NEW n \in Nat, NEW B, B \subseteq 1..n, B # {}
  PROVE  IsLast(Max(B), B)
<1> DEFINE C == {n - b : b \in B}
<1>1. C \subseteq Nat /\ C # {}
  <2>1. \A b \in B : n - b \in Nat
    OBVIOUS
  <2> QED BY <2>1
<1>2. Min(C) \in C /\ \A c \in C : Min(C) <= c
  BY <1>1, FirstOf
<1> DEFINE m == Min(C)
<1>3. PICK x \in B : m = n - x
  BY <1>2
<1> HIDE DEF m
<1>4. \A y \in B : m <= n - y
  BY <1>2 DEF m
<1>5. \A y \in B : x >= y
  BY <1>3, <1>4
<1>6. Max(B) \in B /\ \A y \in B : Max(B) >= y
  BY <1>3, <1>5 DEF Max
<1>7. B \subseteq Int
  OBVIOUS
<1> QED BY <1>6, <1>7 DEF IsLast

-----------------------------------------------------------------------------
(* updateFlows and the reducer, on states and events of these shapes.       *)

LEMMA NewEntry ==
  ASSUME NEW a \in Agents, NEW e, e.kind = "FlowUpdated", FlowOK(e), a \in {e.sender, e.receiver}
  PROVE  LET f == NewFlow(a, e, e.block)
         IN  /\ f \in Entry /\ f.entity # a /\ ~f.isCancelled
             /\ f.token = e.token /\ f.flowRate = e.flowRate
             /\ f.isIncoming = (e.receiver = a)
             /\ f.entity = getFlowEventEntity(e, f.isIncoming)
             /\ f.accumulatedAmount = 0
             /\ f.creationTimestamp = e.block /\ f.lastTimestamp = e.block
<1> DEFINE f == NewFlow(a, e, e.block)
<1>1. /\ e.token \in Tokens /\ e.sender \in Parties /\ e.receiver \in Parties
      /\ e.sender # e.receiver /\ e.flowRate \in Nat /\ e.block \in Nat
  BY DEF FlowOK
<1>2. f.token = e.token /\ f.flowRate = e.flowRate /\ f.isIncoming = (e.receiver = a)
      /\ ~f.isCancelled /\ f.entity = getFlowEventEntity(e, f.isIncoming)
      /\ f.accumulatedAmount = 0 /\ f.creationTimestamp = e.block /\ f.lastTimestamp = e.block
  BY DEF NewFlow
<1>3. f.entity \in Parties /\ f.entity # a
  <2> HIDE DEF f
  <2>1. CASE e.receiver = a
    BY <1>1, <1>2, <2>1 DEF getFlowEventEntity
  <2>2. CASE e.receiver # a
    BY <1>1, <1>2, <2>2 DEF getFlowEventEntity
  <2> QED BY <2>1, <2>2
<1>4. f \in Entry
  BY <1>1, <1>3 DEF NewFlow, Entry
<1> QED BY <1>2, <1>3, <1>4

\* updateFlows appends an open entry of the event's flow, for want of one, or sets the rate of
\* the one it finds, or closes it.
Appended(old, new, a, e) ==
  /\ new = Append(old, NewFlow(a, e, e.block))
  /\ \A i \in 1..Len(old) : ~isFlowEqual(old[i], e)

Replaced(old, new, i, f, e) ==
  /\ new = [old EXCEPT ![i] = f] /\ isFlowEqual(old[i], e) /\ SameFlow(f, old[i])
  /\ e.flowRate > 0 => ~f.isCancelled /\ f.flowRate = e.flowRate
  /\ ~(e.flowRate > 0) => f.isCancelled
  /\ f.creationTimestamp = old[i].creationTimestamp /\ f.lastTimestamp = e.block
  /\ f.accumulatedAmount = calculateNewAccumulatedAmount(old[i], e.block)

LEMMA FlowsUpdated ==
  ASSUME NEW s, StateOK(s), NEW e, e.kind = "FlowUpdated", FlowOK(e)
  PROVE  \/ Appended(s.flows, updateFlows(s, e, e.block), s.agentAddress, e)
         \/ \E i \in 1..Len(s.flows), f \in Entry :
              Replaced(s.flows, updateFlows(s, e, e.block), i, f, e)
<1> DEFINE flows == s.flows
           k == FlowIndex(flows, e)
<1>1. flows \in Seq(Entry)
  BY DEF StateOK
<1> HIDE DEF flows
<1>2. Len(flows) \in Nat /\ flows = [i \in 1..Len(flows) |-> flows[i]]
      /\ \A i \in 1..Len(flows) : flows[i] \in Entry
  BY <1>1
<1>3. IsList(flows)
  BY <1>2 DEF IsList, IsEntry, Entry
<1>4. CASE k = 0
  BY <1>3, <1>4, FoundIndex DEF updateFlows, Appended, flows
<1>5. CASE k # 0
  <2>1. k \in 1..Len(flows) /\ isFlowEqual(flows[k], e)
    BY <1>3, <1>5, FoundIndex
  <2>2. flows[k] \in Entry /\ ~flows[k].isCancelled
    BY <1>2, <2>1 DEF isFlowEqual
  <2> DEFINE g == flows[k]
             amount == calculateNewAccumulatedAmount(g, e.block)
             set == [g EXCEPT !.accumulatedAmount = amount, !.lastTimestamp = e.block,
                              !.flowRate = e.flowRate]
             closed == [g EXCEPT !.accumulatedAmount = amount, !.lastTimestamp = e.block,
                                 !.isCancelled = TRUE]
  <2>3. updateFlows(s, e, e.block)
          = IF e.flowRate > 0 THEN [flows EXCEPT ![k] = set] ELSE [flows EXCEPT ![k] = closed]
    BY <1>5 DEF updateFlows, flows
  <2> HIDE DEF k
  <2>4. amount \in Int /\ e.block \in Nat /\ e.flowRate \in Nat
    <3>1. g.lastTimestamp \in Nat /\ g.flowRate \in Nat /\ g.accumulatedAmount \in Int
      BY <2>2 DEF Entry
    <3> HIDE DEF g
    <3> QED BY <3>1 DEF FlowOK, calculateNewAccumulatedAmount
  <2> HIDE DEF amount
  <2>5. /\ set \in Entry /\ SameFlow(set, g) /\ set.flowRate = e.flowRate
        /\ set.isCancelled = g.isCancelled
        /\ closed \in Entry /\ SameFlow(closed, g) /\ closed.isCancelled
        /\ set.creationTimestamp = g.creationTimestamp
        /\ set.lastTimestamp = e.block /\ set.accumulatedAmount = amount
        /\ closed.creationTimestamp = g.creationTimestamp
        /\ closed.lastTimestamp = e.block /\ closed.accumulatedAmount = amount
    <3>1. g \in Entry
      BY <2>2
    <3> HIDE DEF g
    <3> QED BY <2>4, <3>1 DEF Entry, SameFlow
  <2> HIDE DEF set, closed
  <2>6. CASE e.flowRate > 0
    <3>1. updateFlows(s, e, e.block) = [flows EXCEPT ![k] = set] /\ ~set.isCancelled
      BY <2>2, <2>3, <2>5, <2>6
    <3>2. Replaced(flows, updateFlows(s, e, e.block), k, set, e)
      BY <2>1, <2>5, <2>6, <3>1 DEF Replaced, amount
    <3> QED BY <2>1, <2>5, <3>2 DEF flows
  <2>7. CASE ~(e.flowRate > 0)
    <3>1. updateFlows(s, e, e.block) = [flows EXCEPT ![k] = closed]
      BY <2>3, <2>7
    <3>2. Replaced(flows, updateFlows(s, e, e.block), k, closed, e)
      BY <2>1, <2>5, <2>7, <3>1 DEF Replaced, amount
    <3> QED BY <2>1, <2>5, <3>2 DEF flows
  <2> QED BY <2>6, <2>7
<1> QED BY <1>4, <1>5

FlowsOK(flows, a) ==
  flows \in Seq(Entry) /\ \A i \in DOMAIN flows : flows[i].entity # a

LEMMA FlowsStayOK ==
  ASSUME NEW s, StateOK(s), NEW e, e.kind = "FlowUpdated", FlowOK(e),
         s.agentAddress \in {e.sender, e.receiver}
  PROVE  FlowsOK(updateFlows(s, e, e.block), s.agentAddress)
<1> DEFINE flows == s.flows
           new == updateFlows(s, e, e.block)
           a == s.agentAddress
           n == Len(flows)
<1>1. flows \in Seq(Entry) /\ a \in Agents /\ \A i \in DOMAIN flows : flows[i].entity # a
  BY DEF StateOK
<1>2. Appended(flows, new, a, e) \/ \E i \in 1..n, f \in Entry : Replaced(flows, new, i, f, e)
  BY FlowsUpdated
<1>3. a \in {e.sender, e.receiver}
  OBVIOUS
<1> HIDE DEF flows, new, a, n
<1>4. Listed(flows) /\ n \in Nat /\ DOMAIN flows = 1..n /\ \A i \in 1..n : flows[i] \in Entry
  BY <1>1, SeqListed DEF n
<1>5. CASE Appended(flows, new, a, e)
  <2> DEFINE f == NewFlow(a, e, e.block)
  <2>1. f \in Entry /\ f.entity # a
    BY <1>1, <1>3, NewEntry
  <2>2. new = Append(flows, f)
    BY <1>5 DEF Appended
  <2> HIDE DEF f
  <2>3. new \in Seq(Entry) /\ Len(new) = n + 1 /\ new[n + 1] = f /\ \A i \in 1..n : new[i] = flows[i]
    BY <1>1, <2>1, <2>2, AppendProperties DEF n
  <2>4. DOMAIN new = 1..(n + 1)
    BY <2>3
  <2>5. \A i \in 1..(n + 1) : i = n + 1 \/ i \in 1..n
    BY <1>4
  <2>6. \A i \in DOMAIN new : new[i].entity # a
    BY <1>1, <1>4, <2>1, <2>3, <2>4, <2>5
  <2> QED BY <2>3, <2>6 DEF FlowsOK, new, a
<1>6. ASSUME NEW k \in 1..n, NEW f \in Entry, Replaced(flows, new, k, f, e) PROVE FlowsOK(new, a)
  <2>1. new = [flows EXCEPT ![k] = f] /\ f.entity = flows[k].entity
    BY <1>6 DEF Replaced, SameFlow
  <2>2. new \in Seq(Entry) /\ Len(new) = n /\ DOMAIN new = 1..n
    BY <1>1, <1>4, <2>1, ExceptSeq DEF n
  <2>3. \A i \in 1..n : new[i] = flows[i] \/ (i = k /\ new[i] = f)
    BY <1>4, <2>1
  <2>4. \A i \in 1..n : new[i].entity = flows[i].entity
    BY <2>1, <2>3
  <2> QED BY <1>1, <1>4, <2>2, <2>4 DEF FlowsOK
<1> QED BY <1>2, <1>5, <1>6 DEF new, a

\* An event is reduced to a state of the same agent, of the same shape, with the flows
\* updated if the event is a flow of that agent.
Concerns(e, a) == e.kind = "FlowUpdated" /\ a \in {e.sender, e.receiver}

LEMMA ReducedState ==
  ASSUME NEW s, StateOK(s), NEW e, FlowOK(e), NEW ok,
         e.kind = "SYNC_STATUS_SYNCING" => e.to \in Nat
  PROVE  /\ StateOK(reducer(s, e, ok))
         /\ reducer(s, e, ok).agentAddress = s.agentAddress
         /\ Concerns(e, s.agentAddress) => reducer(s, e, ok).flows = updateFlows(s, e, e.block)
         /\ ~Concerns(e, s.agentAddress) => reducer(s, e, ok).flows = s.flows
<1>1. CASE Concerns(e, s.agentAddress)
  <2> DEFINE new == updateFlows(s, e, e.block)
  <2>1. PICK u, w : reducer(s, e, ok)
          = [s EXCEPT !.superTokens = u, !.flows = new, !.sendersSuperTokens = w]
    BY <1>1 DEF reducer, handleFlowUpdated, Concerns
  <2>2. FlowsOK(new, s.agentAddress)
    BY <1>1, FlowsStayOK DEF Concerns
  <2> HIDE DEF new
  <2> DEFINE t == [s EXCEPT !.superTokens = u, !.flows = new, !.sendersSuperTokens = w]
  <2>3. /\ DOMAIN t = DOMAIN s /\ t.flows = new /\ t.agentAddress = s.agentAddress
        /\ t.cachedBlockNumber = s.cachedBlockNumber /\ t.isSyncing = s.isSyncing
    BY DEF StateOK
  <2> HIDE DEF t
  <2>4. StateOK(t)
    BY <2>2, <2>3 DEF StateOK, FlowsOK
  <2> QED BY <1>1, <2>1, <2>3, <2>4 DEF t, new
<1>2. CASE ~Concerns(e, s.agentAddress) /\ e.kind = "FlowUpdated"
  <2>1. reducer(s, e, ok) = s
    BY <1>2 DEF reducer, handleFlowUpdated, Concerns
  <2> QED BY <1>2, <2>1
<1>3. CASE e.kind = "Vault"
  <2>1. PICK u : reducer(s, e, ok) = [s EXCEPT !.superTokens = u]
    BY <1>3 DEF reducer, handleVaultEvent
  <2> DEFINE t == [s EXCEPT !.superTokens = u]
  <2>2. /\ DOMAIN t = DOMAIN s /\ t.flows = s.flows /\ t.agentAddress = s.agentAddress
        /\ t.cachedBlockNumber = s.cachedBlockNumber /\ t.isSyncing = s.isSyncing
    BY DEF StateOK
  <2> HIDE DEF t
  <2>3. StateOK(t)
    BY <2>2 DEF StateOK
  <2> QED BY <1>3, <2>1, <2>2, <2>3 DEF t, Concerns
<1>4. CASE e.kind = "SYNC_STATUS_SYNCING"
  <2> DEFINE t == [s EXCEPT !.isSyncing = TRUE, !.cachedBlockNumber = e.to]
  <2>1. reducer(s, e, ok) = t
    BY <1>4 DEF reducer
  <2>2. /\ DOMAIN t = DOMAIN s /\ t.flows = s.flows /\ t.agentAddress = s.agentAddress
        /\ t.cachedBlockNumber = e.to /\ t.isSyncing = TRUE
    BY DEF StateOK
  <2> HIDE DEF t
  <2>3. StateOK(t)
    BY <1>4, <2>2 DEF StateOK
  <2> QED BY <1>4, <2>1, <2>2, <2>3 DEF Concerns
<1>5. CASE e.kind = "EXTERNAL_SUBSCRIPTION_SYNCED"
  <2> DEFINE t == [s EXCEPT !.isSyncing = FALSE]
  <2>1. reducer(s, e, ok) = t
    BY <1>5 DEF reducer
  <2>2. /\ DOMAIN t = DOMAIN s /\ t.flows = s.flows /\ t.agentAddress = s.agentAddress
        /\ t.cachedBlockNumber = s.cachedBlockNumber /\ t.isSyncing = FALSE
    BY DEF StateOK
  <2> HIDE DEF t
  <2>3. StateOK(t)
    BY <2>2 DEF StateOK
  <2> QED BY <1>5, <2>1, <2>2, <2>3 DEF Concerns
<1>6. CASE e.kind \notin {"FlowUpdated", "Vault", "SYNC_STATUS_SYNCING", "EXTERNAL_SUBSCRIPTION_SYNCED"}
  <2>1. reducer(s, e, ok) = s
    BY <1>6 DEF reducer
  <2> QED BY <1>6, <2>1 DEF Concerns
<1> QED BY <1>1, <1>2, <1>3, <1>4, <1>5, <1>6 DEF Concerns

-----------------------------------------------------------------------------
(* The shapes are kept.                                                     *)

LEMMA LogGrows ==
  ASSUME NEW lg, LogOK(lg), NEW e, FlowOK(e), e.kind # "none" => e.block = Len(lg) + 1
  PROVE  LogOK(Append(lg, e))
<1> DEFINE n == Len(lg)
           new == Append(lg, e)
<1>1. /\ Listed(lg) /\ n \in Nat /\ InitialBlock <= n
      /\ \A b \in 1..n : FlowOK(lg[b]) /\ (lg[b].kind # "none" => lg[b].block = b /\ InitialBlock < b)
  BY DEF LogOK, Listed
<1>2. Listed(new) /\ Len(new) = n + 1 /\ new[n + 1] = e /\ \A b \in 1..n : new[b] = lg[b]
  BY <1>1, AppendIs
<1>3. e.kind # "none" => e.block = n + 1
  OBVIOUS
<1> HIDE DEF n, new
<1>4. InitialBlock \in Nat /\ InitialBlock < n + 1 /\ InitialBlock <= n + 1
  BY <1>1, StoreAssumption
<1>5. ASSUME NEW b \in 1..(n + 1)
      PROVE  FlowOK(new[b]) /\ (new[b].kind # "none" => new[b].block = b /\ InitialBlock < b)
  <2>1. CASE b = n + 1
    BY <1>2, <1>3, <1>4, <2>1
  <2>2. CASE b # n + 1
    <3>1. b \in 1..n
      BY <1>1, <2>2
    <3> QED BY <1>1, <1>2, <3>1
  <2> QED BY <2>1, <2>2
<1> QED BY <1>2, <1>4, <1>5 DEF LogOK, new

LEMMA QueueGrows ==
  ASSUME NEW q, QueueOK(q), NEW u, QueueOK(u)
  PROVE  QueueOK(q \o u)
<1> DEFINE new == q \o u
<1>1. Listed(q) /\ Listed(u)
  BY DEF QueueOK
<1>2. /\ Listed(new)
      /\ \A i \in 1..Len(q) : new[i] = q[i]
      /\ \A i \in 1..Len(new) :
              i \in 1..Len(q) \/ (i - Len(q) \in 1..Len(u) /\ new[i] = u[i - Len(q)])
  BY <1>1, ConcatIs
<1> HIDE DEF new
<1>3. ASSUME NEW i \in 1..Len(new)
      PROVE  FlowOK(new[i]) /\ (new[i].kind = "SYNC_STATUS_SYNCING" => new[i].to \in Nat)
  <2>1. \/ i \in 1..Len(q) /\ new[i] = q[i]
        \/ i - Len(q) \in 1..Len(u) /\ new[i] = u[i - Len(q)]
    BY <1>2
  <2>2. CASE i \in 1..Len(q) /\ new[i] = q[i]
    BY <2>2 DEF QueueOK
  <2>3. CASE i - Len(q) \in 1..Len(u) /\ new[i] = u[i - Len(q)]
    BY <2>3 DEF QueueOK
  <2> QED BY <2>1, <2>2, <2>3
<1> QED BY <1>2, <1>3 DEF QueueOK, new

EventOK(e) == FlowOK(e) /\ (e.kind = "SYNC_STATUS_SYNCING" => e.to \in Nat)

LEMMA QueueAppends ==
  ASSUME NEW q, QueueOK(q), NEW e, EventOK(e)
  PROVE  QueueOK(Append(q, e))
<1> DEFINE n == Len(q)
           new == Append(q, e)
<1>1. Listed(q) /\ n \in Nat /\ \A i \in 1..n : EventOK(q[i])
  BY DEF QueueOK, Listed, EventOK
<1>2. Listed(new) /\ Len(new) = n + 1 /\ new[n + 1] = e /\ \A i \in 1..n : new[i] = q[i]
  BY <1>1, AppendIs
<1> HIDE DEF n, new
<1>3. \A i \in 1..(n + 1) : i = n + 1 \/ i \in 1..n
  BY <1>1
<1>4. \A i \in 1..(n + 1) : EventOK(new[i])
  BY <1>1, <1>2, <1>3
<1> QED BY <1>2, <1>4 DEF QueueOK, EventOK, new

LEMMA OneListed == ASSUME NEW e PROVE Listed(<<e>>) /\ Len(<<e>>) = 1 /\ <<e>>[1] = e
<1>1. <<e>> \in Seq({e}) /\ Len(<<e>>) = 1 /\ <<e>>[1] = e
  OBVIOUS
<1> QED BY <1>1, SeqListed

LEMMA NoneListed == Listed(<<>>) /\ Len(<<>>) = 0
<1>1. <<>> \in Seq({}) /\ Len(<<>>) = 0
  OBVIOUS
<1> QED BY <1>1, SeqListed

LEMMA NoneQueued == QueueOK(<<>>)
<1>1. 1..0 = {}
  OBVIOUS
<1> QED BY <1>1, NoneListed DEF QueueOK

LEMMA QueueShrinks ==
  ASSUME NEW q, QueueOK(q), q # <<>>
  PROVE  QueueOK(Tail(q)) /\ EventOK(Head(q))
<1>1. Listed(q) /\ \A i \in 1..Len(q) : EventOK(q[i])
  BY DEF QueueOK, EventOK
<1>2. /\ Listed(Tail(q)) /\ 1 \in 1..Len(q) /\ Head(q) = q[1]
      /\ \A i \in 1..Len(Tail(q)) : i + 1 \in 1..Len(q) /\ Tail(q)[i] = q[i + 1]
  BY <1>1, TailIs
<1>3. \A i \in 1..Len(Tail(q)) : EventOK(Tail(q)[i])
  BY <1>1, <1>2
<1>4. EventOK(Head(q))
  BY <1>1, <1>2
<1> QED BY <1>2, <1>3, <1>4 DEF QueueOK, EventOK

\* The blocks a call to pastEvents finds.
Found(sub) == {b \in DOMAIN log : Matches(sub, log[b], sess.agent) /\ log[b].block \in StageRange}

LEMMA FoundBlocks ==
  ASSUME LogOK(log), NEW sub
  PROVE  /\ PastEvents(sub) = Sublist(log, Found(sub))
         /\ Found(sub) \in SUBSET Nat /\ IsFiniteSet(Found(sub)) /\ Found(sub) \subseteq 1..Len(log)
<1>1. PastEvents(sub) = Sublist(log, Found(sub))
  BY DEF PastEvents, Found
<1>2. Len(log) \in Nat /\ DOMAIN log = 1..Len(log)
  BY DEF LogOK, Listed
<1>3. Found(sub) \subseteq 1..Len(log)
  BY <1>2 DEF Found
<1>4. IsFiniteSet(1..Len(log)) /\ 1..Len(log) \subseteq Nat
  BY <1>2, FS_Interval
<1> QED BY <1>1, <1>3, <1>4, FS_Subset

LEMMA MatchKind ==
  ASSUME NEW sub \in Subscriptions, NEW e, NEW a, Matches(sub, e, a)
  PROVE  e.kind # "none" /\ e.kind # "SYNC_STATUS_SYNCING"
  BY DEF Matches, Subscriptions

LEMMA PastQueued ==
  ASSUME LogOK(log), NEW sub \in Subscriptions
  PROVE  QueueOK(PastEvents(sub))
<1> DEFINE P == Found(sub)
           u == Sublist(log, P)
<1>1. P \in SUBSET Nat /\ IsFiniteSet(P) /\ P \subseteq 1..Len(log) /\ PastEvents(sub) = u
  BY FoundBlocks
<1>2. \A b \in P : EventOK(log[b])
  <2>1. \A b \in P : FlowOK(log[b])
    BY <1>1 DEF LogOK
  <2>2. \A b \in P : Matches(sub, log[b], sess.agent)
    BY DEF Found
  <2> QED BY <2>1, <2>2, MatchKind DEF EventOK
<1> HIDE DEF P
<1>3. Listed(u) /\ \A k \in 1..Len(u) : Kth(P, k) \in P /\ u[k] = log[Kth(P, k)]
  BY <1>1, SublistListed
<1> HIDE DEF u
<1>4. \A k \in 1..Len(u) : EventOK(u[k])
  BY <1>2, <1>3
<1> QED BY <1>1, <1>3, <1>4 DEF QueueOK, EventOK

LEMMA FreshOK == ASSUME NEW a \in Agents PROVE StateOK(FreshState(a)) /\ FreshState(a).flows = <<>>
<1> DEFINE s == FreshState(a)
<1>1. s.agentAddress = a /\ s.flows = <<>> /\ s.cachedBlockNumber = 0
  BY DEF FreshState, NoBlock
<1>2. s.isSyncing \in BOOLEAN
  <2>1. s.isSyncing = TRUE
    BY DEF FreshState
  <2> HIDE DEF s
  <2> QED BY <2>1
<1>3. {"agentAddress", "flows", "cachedBlockNumber", "isSyncing"} \subseteq DOMAIN s
  BY DEF FreshState
<1> HIDE DEF s
<1>4. s.flows \in Seq(Entry)
  BY <1>1
<1>5. Len(s.flows) = 0 /\ DOMAIN s.flows = 1..0 /\ 1..0 = {}
  BY <1>1, <1>4
<1>6. StateOK(s)
  BY <1>1, <1>2, <1>3, <1>4, <1>5 DEF StateOK
<1> QED BY <1>1, <1>6 DEF s

LEMMA SyncBlocks ==
  ASSUME NEW current, current \in Nat
  PROVE  CachedTo(current, InitialBlock) \in Nat
  BY StoreAssumption, ReorgAssumption DEF CachedTo, Larger

\* A party's net flow is a number, and so is what it streams to a balance.
LEMMA NetIs ==
  ASSUME NEW rates \in Rates, NEW t \in Tokens, NEW x \in Parties
  PROVE  Net(rates, t, x) \in Int
<1> DEFINE f == [y \in Parties |-> rates[t][y][x] - rates[t][x][y]]
<1>1. \A y \in Parties : rates[t][y][x] \in Nat /\ rates[t][x][y] \in Nat
  BY DEF Rates
<1>2. \A y \in Parties : f[y] \in Int
  BY <1>1
<1>3. DOMAIN f = Parties /\ IsFiniteSet(Parties)
  BY StoreAssumption DEF Parties
<1>4. Net(rates, t, x) = SumFunctionOnSet(f, Parties)
  BY <1>3 DEF Net, SumFunction
<1> HIDE DEF f
<1> QED BY <1>2, <1>3, <1>4, SumType

LEMMA StreamedIs == ASSUME rate \in Rates, balance \in Balances PROVE Streamed \in Balances
<1>1. \A t \in Tokens, x \in Parties : balance[t][x] \in Int /\ Net(rate, t, x) \in Int
  BY NetIs DEF Balances
<1> QED BY <1>1 DEF Streamed, Balances

LEMMA ChainShapes == ASSUME Shapes, ChainNext PROVE Shapes'
<1>1. CASE \E a \in Agents : SetAgent(a)
  <2>1. PICK a \in Agents : SetAgent(a)
    BY <1>1
  <2>2. UNCHANGED <<log, rate, balance, st, sess, queue, cache, sessions>> /\ appAgent' \in Agents
    BY <2>1 DEF SetAgent, script
  <2> QED BY <2>2 DEF Shapes
<1>2. ASSUME NEW e, Block(e), FlowOK(e), e.kind # "none" => e.block = Len(log) + 1,
             rate' \in Rates, balance' \in Balances
      PROVE  Shapes'
  <2>1. log' = Append(log, e) /\ UNCHANGED <<appAgent, st, sess, queue, cache, sessions>>
    BY <1>2 DEF Block, script
  <2>2. LogOK(log) /\ Listed(log) /\ Len(log) \in Nat /\ SessionOK(sess, Len(log))
    BY DEF Shapes, LogOK, Listed
  <2>3. LogOK(log')
    BY <1>2, <2>1, <2>2, LogGrows
  <2>4. Len(log') = Len(log) + 1
    BY <2>1, <2>2, AppendIs
  <2>5. SessionOK(sess, Len(log) + 1)
    <3> DEFINE n == Len(log)
    <3>1. n \in Nat /\ SessionOK(sess, n)
      BY <2>2
    <3> HIDE DEF n
    <3>2. sess.up => /\ sess.current \in InitialBlock..(n + 1)
                     /\ \A sub \in Subscriptions :
                          IF sess.stage = "live" THEN sess.next[sub] <= (n + 1) + 1
                          ELSE sess.next[sub] = sess.current
      BY <3>1, StoreAssumption DEF SessionOK
    <3>3. SessionOK(sess, n + 1)
      BY <3>1, <3>2 DEF SessionOK
    <3> QED BY <3>3 DEF n
  <2>6. SessionOK(sess, Len(log))'
    BY <2>1, <2>4, <2>5
  <2> QED BY <1>2, <2>1, <2>3, <2>6 DEF Shapes
<1>0. rate \in Rates /\ balance \in Balances /\ Streamed \in Balances
  BY StreamedIs DEF Shapes
<1>3. CASE EmptyBlock
  <2>1. Block(NoEvent) /\ NoEvent.kind = "none"
    BY <1>3 DEF EmptyBlock, NoEvent
  <2>2. FlowOK(NoEvent)
    BY <2>1 DEF FlowOK
  <2>3. rate' \in Rates /\ balance' \in Balances
    BY <1>0, <1>3 DEF EmptyBlock
  <2> HIDE DEF NoEvent
  <2> QED BY <1>2, <2>1, <2>2, <2>3
<1>4. CASE \E t \in Tokens, s \in Parties, r \in Parties, n \in 0..MaxRate : FlowChange(t, s, r, n)
  <2>1. PICK t \in Tokens, s \in Parties, r \in Parties, n \in 0..MaxRate : FlowChange(t, s, r, n)
    BY <1>4
  <2> DEFINE rates == [rate EXCEPT ![t][s][r] = n]
             e == FlowUpdated(t, s, r, n, rates)
  <2>2. Block(e) /\ s # r /\ rate' = rates /\ balance' = Streamed
    BY <2>1 DEF FlowChange
  <2>3. n \in Nat /\ Len(log) + 1 \in Nat
    BY StoreAssumption DEF Shapes, LogOK, Listed
  <2>4. rates \in Rates
    BY <1>0, <2>3 DEF Rates
  <2> HIDE DEF rates
  <2>5. Net(rates, t, s) \in Int /\ Net(rates, t, r) \in Int
    BY <2>4, NetIs
  <2>6. /\ e.kind = "FlowUpdated" /\ e.token = t /\ e.sender = s /\ e.receiver = r
        /\ e.flowRate = n /\ e.block = Len(log) + 1
        /\ e.totalSenderFlowRate = Net(rates, t, s) /\ e.totalReceiverFlowRate = Net(rates, t, r)
    BY DEF FlowUpdated
  <2> HIDE DEF e
  <2>7. FlowOK(e)
    BY <2>2, <2>3, <2>5, <2>6 DEF FlowOK
  <2> QED BY <1>0, <1>2, <2>2, <2>4, <2>6, <2>7
<1>5. CASE \E t \in Tokens, a \in Agents, n \in VaultAmounts : VaultChange(t, a, n)
  <2>1. PICK t \in Tokens, a \in Agents, n \in VaultAmounts : VaultChange(t, a, n)
    BY <1>5
  <2> DEFINE e == VaultEvent(t, a)
  <2>2. Block(e)
    BY <2>1 DEF VaultChange
  <2>3. e.kind = "Vault" /\ e.token = t /\ e.block = Len(log) + 1 /\ Len(log) + 1 \in Nat
    BY DEF VaultEvent, Shapes, LogOK, Listed
  <2> HIDE DEF e
  <2>4. FlowOK(e)
    BY <2>3 DEF FlowOK
  <2>5. rate' \in Rates /\ balance' \in Balances
    <3>1. n \in Int /\ a \in Parties
      BY StoreAssumption DEF Parties
    <3>2. balance' = [Streamed EXCEPT ![t][a] = @ + n] /\ rate' = rate
      BY <2>1 DEF VaultChange
    <3> HIDE DEF Streamed
    <3> QED BY <1>0, <3>1, <3>2 DEF Balances
  <2> QED BY <1>2, <2>2, <2>3, <2>4, <2>5
<1> QED BY <1>1, <1>3, <1>4, <1>5 DEF ChainNext

LEMMA StartShapes == ASSUME Shapes, initializeState PROVE Shapes'
<1> DEFINE cached == IF cache = None THEN FreshState(appAgent) ELSE cache
           n == Len(log)
<1>1. StateOK(cached)
  BY FreshOK DEF Shapes
<1>2. PICK ok \in CallsSucceed :
        st' = loadInitialSuperTokens([cached EXCEPT !.isSyncing = TRUE], Len(log), ok)
  BY DEF initializeState
<1>3. /\ UNCHANGED <<log, rate, balance, appAgent, queue, cache>> /\ sessions' = sessions + 1
      /\ ~sess.up /\ sessions < MaxSessions
      /\ sess' = [up |-> TRUE, agent |-> appAgent, current |-> n,
                  cachedBlock |-> cached.cachedBlockNumber, stage |-> "cached",
                  pending |-> Subscriptions,
                  next |-> [s \in Subscriptions |-> n], announced |-> FALSE]
  BY DEF initializeState, chain
<1> HIDE DEF cached
<1>4. StateOK(st')
  <2> DEFINE syncing == [cached EXCEPT !.isSyncing = TRUE]
  <2>1. /\ DOMAIN syncing = DOMAIN cached /\ syncing.agentAddress = cached.agentAddress
        /\ syncing.flows = cached.flows /\ syncing.isSyncing = TRUE
        /\ syncing.cachedBlockNumber = cached.cachedBlockNumber
    BY <1>1 DEF StateOK
  <2>2. PICK u : st' = [syncing EXCEPT !.superTokens = u]
    BY <1>2 DEF loadInitialSuperTokens
  <2> HIDE DEF syncing
  <2>3. StateOK(syncing)
    BY <1>1, <2>1 DEF StateOK
  <2>4. /\ DOMAIN st' = DOMAIN syncing /\ st'.agentAddress = syncing.agentAddress
        /\ st'.flows = syncing.flows /\ st'.isSyncing = syncing.isSyncing
        /\ st'.cachedBlockNumber = syncing.cachedBlockNumber
    BY <2>2, <2>3 DEF StateOK
  <2> QED BY <2>3, <2>4 DEF StateOK
<1>5. n \in Nat /\ InitialBlock <= n /\ InitialBlock \in Nat
  BY StoreAssumption DEF Shapes, LogOK, Listed
<1> HIDE DEF n
<1>6. SessionOK(sess', n) /\ sess'.up
  BY <1>3, <1>5, StoreAssumption DEF SessionOK
<1>7. SessionOK(sess, Len(log))'
  BY <1>3, <1>6 DEF n
<1>8. sessions' \in 0..MaxSessions /\ 0 < sessions'
  BY <1>3, StoreAssumption DEF Shapes
<1> QED BY <1>3, <1>4, <1>6, <1>7, <1>8 DEF Shapes

\* What a subscription or the client adds to the queue, and where the session is after it.
LEMMA EmitShapes ==
  ASSUME Shapes, sess.up, sess'.up, QueueOK(queue'), SessionOK(sess', Len(log)),
         UNCHANGED <<log, rate, balance, appAgent, st, cache, sessions>>
  PROVE  Shapes'
  BY DEF Shapes

LEMMA PastShapes ==
  ASSUME Shapes, NEW sub \in Subscriptions, pastEvents(sub)
  PROVE  Shapes'
<1> DEFINE last == sess.pending = {sub}
           ends == last /\ sess.stage = "recent"
           u == IF ends THEN <<SYNCED>> ELSE <<>>
           stage == IF last THEN (IF ends THEN "live" ELSE "recent") ELSE sess.stage
           pending == IF last THEN (IF ends THEN {} ELSE Subscriptions) ELSE sess.pending \ {sub}
<1>1. /\ sess.up /\ sess.stage \in {"cached", "recent"}
      /\ queue' = queue \o PastEvents(sub) \o u
      /\ sess' = [sess EXCEPT !.stage = stage, !.pending = pending]
      /\ UNCHANGED <<log, rate, balance, appAgent, st, cache, sessions>>
  BY DEF pastEvents, chain
<1>2. QueueOK(u)
  <2>1. EventOK(SYNCED) /\ \A i \in 1..1 : i = 1
    BY DEF EventOK, FlowOK, SYNCED
  <2>2. QueueOK(<<SYNCED>>)
    BY <2>1, OneListed DEF QueueOK, EventOK
  <2> QED BY <2>2, NoneQueued
<1> HIDE DEF u
<1>3. QueueOK(queue')
  <2>1. QueueOK(queue) /\ QueueOK(PastEvents(sub))
    BY PastQueued DEF Shapes
  <2>2. QueueOK(queue \o PastEvents(sub))
    BY <2>1, QueueGrows
  <2> QED BY <1>1, <1>2, <2>2, QueueGrows
<1>4. stage \in {"cached", "recent", "live"} /\ pending \subseteq Subscriptions
  BY <1>1 DEF Shapes, SessionOK
<1>5. SessionOK(sess, Len(log)) /\ Len(log) \in Nat
  BY DEF Shapes, LogOK, Listed
<1> HIDE DEF stage, pending
<1>6. /\ DOMAIN sess' = DOMAIN sess /\ sess'.up = sess.up /\ sess'.stage = stage
      /\ sess'.pending = pending /\ sess'.current = sess.current /\ sess'.next = sess.next
  BY <1>1, <1>5 DEF SessionOK
<1>7. SessionOK(sess', Len(log))
  <2> DEFINE n == Len(log)
  <2>1. n \in Nat /\ SessionOK(sess, n) /\ sess.up
    BY <1>1, <1>5
  <2> HIDE DEF n
  <2>2. \A s \in Subscriptions : sess.next[s] = sess.current /\ sess.current <= n + 1
    BY <1>1, <2>1, StoreAssumption DEF SessionOK
  <2>3. SessionOK(sess', n)
    BY <1>4, <1>6, <2>1, <2>2 DEF SessionOK
  <2> QED BY <2>3 DEF n
<1> QED BY <1>1, <1>3, <1>6, <1>7, EmitShapes

\* A live subscription goes on after the event it emits.
LEMMA EventIs ==
  ASSUME Shapes, NEW sub \in Subscriptions, events(sub)
  PROVE  /\ Min(Unseen(sub)) \in Unseen(sub) /\ \A c \in Unseen(sub) : Min(Unseen(sub)) <= c
         /\ Min(Unseen(sub)) \in 1..Len(log) /\ sess.next[sub] <= Min(Unseen(sub))
         /\ DOMAIN sess' = DOMAIN sess /\ sess'.up = sess.up /\ sess'.stage = "live"
         /\ sess'.pending = sess.pending /\ sess'.current = sess.current /\ sess'.agent = sess.agent
         /\ sess'.cachedBlock = sess.cachedBlock
         /\ sess'.next = [sess.next EXCEPT ![sub] = Min(Unseen(sub)) + 1]
<1>1. /\ sess.up /\ sess.stage = "live" /\ Unseen(sub) # {}
      /\ sess' = [sess EXCEPT !.next[sub] = Min(Unseen(sub)) + 1]
  BY DEF events
<1> DEFINE b == Min(Unseen(sub))
           n == Len(log)
<1>2. SessionOK(sess, n) /\ n \in Nat
  BY DEF Shapes, LogOK, Listed
<1>3. sess.next[sub] \in Nat /\ 1 <= sess.next[sub]
  BY <1>1, <1>2 DEF SessionOK
<1>4. Unseen(sub) \subseteq sess.next[sub]..n /\ Unseen(sub) \subseteq Nat
  BY <1>2, <1>3 DEF Unseen
<1>5. b \in Unseen(sub) /\ \A c \in Unseen(sub) : b <= c
  BY <1>1, <1>4, FirstOf
<1>6. /\ DOMAIN sess' = DOMAIN sess /\ sess'.up = sess.up /\ sess'.stage = sess.stage
      /\ sess'.pending = sess.pending /\ sess'.current = sess.current /\ sess'.agent = sess.agent
      /\ sess'.cachedBlock = sess.cachedBlock
      /\ sess'.next = [sess.next EXCEPT ![sub] = b + 1]
  <2> HIDE DEF b
  <2> QED BY <1>1, <1>2 DEF SessionOK, b
<1>7. b \in 1..n /\ sess.next[sub] <= b
  <2>1. b \in sess.next[sub]..n /\ b \in Nat
    BY <1>4, <1>5
  <2> HIDE DEF b, n
  <2> QED BY <1>2, <1>3, <2>1
<1> QED BY <1>1, <1>5, <1>6, <1>7

LEMMA LiveShapes ==
  ASSUME Shapes, NEW sub \in Subscriptions, events(sub)
  PROVE  Shapes'
<1> DEFINE b == Min(Unseen(sub))
           n == Len(log)
<1>1. /\ sess.up /\ sess.stage = "live" /\ queue' = Append(queue, log[b])
      /\ UNCHANGED <<log, rate, balance, appAgent, st, cache, sessions>>
  BY DEF events, chain
<1>2. /\ b \in Unseen(sub) /\ b \in 1..n /\ DOMAIN sess' = DOMAIN sess
      /\ sess'.up = sess.up /\ sess'.stage = "live" /\ sess'.pending = sess.pending
      /\ sess'.current = sess.current /\ sess'.next = [sess.next EXCEPT ![sub] = b + 1]
  BY EventIs
<1>3. SessionOK(sess, n) /\ n \in Nat /\ LogOK(log) /\ QueueOK(queue)
  BY DEF Shapes, LogOK, Listed
<1>4. EventOK(log[b])
  <2>1. FlowOK(log[b])
    BY <1>2, <1>3 DEF LogOK
  <2>2. Matches(sub, log[b], sess.agent)
    BY <1>2 DEF Unseen
  <2> QED BY <2>1, <2>2, MatchKind DEF EventOK
<1> HIDE DEF b, n
<1>5. QueueOK(queue')
  BY <1>1, <1>3, <1>4, QueueAppends
<1>6. SessionOK(sess', n)
  BY <1>1, <1>2, <1>3 DEF SessionOK
<1> QED BY <1>1, <1>2, <1>5, <1>6, EmitShapes DEF n

LEMMA AnnounceShapes == ASSUME Shapes, AnnounceSyncing PROVE Shapes'
<1> DEFINE e == SYNCING(CachedTo(sess.current, InitialBlock))
<1>1. /\ sess.up /\ queue' = Append(queue, e) /\ sess' = [sess EXCEPT !.announced = TRUE]
      /\ UNCHANGED <<log, rate, balance, appAgent, st, cache, sessions>>
  BY DEF AnnounceSyncing, chain
<1>2. SessionOK(sess, Len(log)) /\ Len(log) \in Nat /\ QueueOK(queue)
  BY DEF Shapes, LogOK, Listed
<1>3. e.kind = "SYNC_STATUS_SYNCING" /\ e.to \in Nat
  <2>1. sess.current \in Nat
    BY <1>1, <1>2, StoreAssumption DEF SessionOK
  <2> QED BY <2>1, SyncBlocks DEF SYNCING
<1> HIDE DEF e
<1>4. QueueOK(queue')
  <2>1. EventOK(e)
    BY <1>3 DEF EventOK, FlowOK
  <2> QED BY <1>1, <1>2, <2>1, QueueAppends
<1>5. /\ DOMAIN sess' = DOMAIN sess /\ sess'.up = sess.up /\ sess'.stage = sess.stage
      /\ sess'.pending = sess.pending /\ sess'.current = sess.current /\ sess'.next = sess.next
  BY <1>1, <1>2 DEF SessionOK
<1>6. SessionOK(sess', Len(log))
  BY <1>2, <1>5 DEF SessionOK
<1> QED BY <1>1, <1>4, <1>5, <1>6, EmitShapes

LEMMA ReduceShapes ==
  ASSUME Shapes, Reduce
  PROVE  /\ Shapes'
         /\ st'.agentAddress = st.agentAddress
         /\ EventOK(Head(queue))
         /\ Concerns(Head(queue), st.agentAddress) =>
              st'.flows = updateFlows(st, Head(queue), Head(queue).block)
         /\ ~Concerns(Head(queue), st.agentAddress) => st'.flows = st.flows
<1> DEFINE e == Head(queue)
<1>1. PICK ok \in CallsSucceed : st' = reducer(st, e, ok)
  BY DEF Reduce
<1>2. /\ sess.up /\ queue # <<>> /\ queue' = Tail(queue)
      /\ UNCHANGED <<log, rate, balance, appAgent, sess, cache, sessions>>
  BY DEF Reduce, chain
<1>3. QueueOK(queue) /\ StateOK(st)
  BY DEF Shapes
<1>4. QueueOK(queue') /\ EventOK(e)
  BY <1>2, <1>3, QueueShrinks
<1> HIDE DEF e
<1>5. /\ StateOK(st') /\ st'.agentAddress = st.agentAddress
      /\ Concerns(e, st.agentAddress) => st'.flows = updateFlows(st, e, e.block)
      /\ ~Concerns(e, st.agentAddress) => st'.flows = st.flows
  BY <1>1, <1>3, <1>4, ReducedState DEF EventOK
<1>6. Shapes'
  BY <1>2, <1>4, <1>5 DEF Shapes
<1> QED BY <1>4, <1>5, <1>6 DEF e

LEMMA EndShapes == ASSUME Shapes, sess.up, StoreEnds PROVE Shapes'
<1>1. /\ sess.up /\ sess' = NoSession /\ queue' = <<>> /\ st' = FreshState(appAgent)
      /\ UNCHANGED <<log, rate, balance, appAgent, cache, sessions>>
  BY DEF StoreEnds, chain
<1>2. StateOK(st') /\ QueueOK(queue')
  BY <1>1, FreshOK, NoneQueued DEF Shapes
<1>3. SessionOK(sess', Len(log)) /\ ~sess'.up
  BY <1>1 DEF SessionOK, NoSession
<1> QED BY <1>1, <1>2, <1>3 DEF Shapes

LEMMA InitShapes == Init => Shapes
<1> SUFFICES ASSUME Init PROVE Shapes
  OBVIOUS
<1>1. Len(log) = InitialBlock /\ \A b \in 1..InitialBlock : log[b] = NoEvent
  BY StoreAssumption DEF Init
<1>2. Listed(log) /\ InitialBlock \in Nat
  BY <1>1, StoreAssumption DEF Init, Listed
<1>3. NoEvent.kind = "none" /\ FlowOK(NoEvent)
  BY DEF NoEvent, FlowOK
<1>4. LogOK(log)
  BY <1>1, <1>2, <1>3 DEF LogOK
<1>5. appAgent \in Agents /\ StateOK(st) /\ QueueOK(queue) /\ cache = None
  BY FreshOK, NoneQueued DEF Init
<1>6. SessionOK(sess, Len(log)) /\ ~sess.up
  BY DEF Init, SessionOK, NoSession
<1>7. queue = <<>> /\ sessions = 0 /\ sessions \in 0..MaxSessions
  BY StoreAssumption DEF Init
<1>8. rate \in Rates /\ balance \in Balances
  BY DEF Init, Rates, Balances
<1> QED BY <1>4, <1>5, <1>6, <1>7, <1>8 DEF Shapes

LEMMA ShapesStep == Shapes /\ [Next]_vars => Shapes'
<1> SUFFICES ASSUME Shapes, [Next]_vars PROVE Shapes'
  OBVIOUS
<1>1. CASE UNCHANGED vars
  BY <1>1 DEF vars, chain, script, Shapes
<1>2. CASE ChainNext
  BY <1>2, ChainShapes
<1>3. CASE initializeState
  BY <1>3, StartShapes
<1>4. CASE \E sub \in Subscriptions : pastEvents(sub) \/ events(sub)
  BY <1>4, PastShapes, LiveShapes
<1>5. CASE AnnounceSyncing
  BY <1>5, AnnounceShapes
<1>6. CASE Reduce
  BY <1>6, ReduceShapes
<1>7. CASE Persist
  <2>1. cache' = st /\ sess.up /\ UNCHANGED <<log, rate, balance, appAgent, st, sess, queue, sessions>>
    BY <1>7 DEF Persist, chain
  <2>2. sessions # 0
    BY <2>1, StoreAssumption DEF Shapes
  <2> QED BY <2>1, <2>2 DEF Shapes
<1>8. CASE Crash \/ Reject
  BY <1>8, EndShapes DEF Crash, Reject
<1>9. CASE initializeRejects
  <2>1. /\ sessions' = sessions + 1 /\ sessions < MaxSessions /\ ~sess.up
        /\ UNCHANGED <<log, rate, balance, appAgent, st, sess, queue, cache>>
    BY <1>9 DEF initializeRejects, chain
  <2>2. sessions' \in 0..MaxSessions /\ sessions' # 0
    BY <2>1, StoreAssumption DEF Shapes
  <2> QED BY <2>1, <2>2 DEF Shapes
<1> QED BY <1>1, <1>2, <1>3, <1>4, <1>5, <1>6, <1>7, <1>8, <1>9 DEF Next, ScriptNext

\* The state, the queue and the session keep the shapes the code gives them, whatever happens
\* on the chain and however often the script is closed and started from its cache.
THEOREM StoreTypeCorrect == Spec => []TypeOK
<1>1. Shapes => TypeOK
  BY DEF Shapes, StateOK, SessionOK, TypeOK, Entry
<1> QED BY <1>1, InitShapes, ShapesStep, PTL DEF Spec

-----------------------------------------------------------------------------
(* The cards: every listed flow has the one of its token.                   *)

Card == [lastUpdateTimestamp : Nat, balance : Int, netFlow : Int]
Cards == [Tokens -> Card \cup {None}]

IsNet(n) == n \in Int \/ n = None

CardsOK(s) ==
  /\ "superTokens" \in DOMAIN s
  /\ s.superTokens # None =>
       /\ s.superTokens \in Cards
       /\ \A i \in 1..Len(s.flows) : s.superTokens[s.flows[i].token] # None

\* The inductive invariant behind EachFlowHasCard: also of the saved state.
Carded == CardsOK(st) /\ (cache # None => CardsOK(cache))

LEMMA StateEntries ==
  ASSUME NEW s, StateOK(s)
  PROVE  /\ s.agentAddress \in Agents /\ "flows" \in DOMAIN s
         /\ DOMAIN s.flows = 1..Len(s.flows)
         /\ \A i \in 1..Len(s.flows) : s.flows[i].token \in Tokens
<1> DEFINE flows == s.flows
<1>1. flows \in Seq(Entry) /\ s.agentAddress \in Agents /\ "flows" \in DOMAIN s
  BY DEF StateOK
<1> HIDE DEF flows
<1>2. DOMAIN flows = 1..Len(flows) /\ \A i \in 1..Len(flows) : flows[i] \in Entry
  BY <1>1
<1>3. \A i \in 1..Len(flows) : flows[i].token \in Tokens
  BY <1>2 DEF Entry
<1> QED BY <1>1, <1>2, <1>3 DEF flows

LEMMA CardIsSome == ASSUME NEW c \in Card PROVE c # None
  BY StoreAssumption DEF Card

NewCard(s, t, time, n) ==
  [lastUpdateTimestamp |-> time, balance |-> balance[t][s.agentAddress],
   netFlow |-> IF n # None THEN n
               ELSE IF s.superTokens[t] = None THEN 0 ELSE s.superTokens[t].netFlow]

LEMMA CardUpdated ==
  ASSUME balance \in Balances, NEW s, s.agentAddress \in Agents, s.superTokens \in Cards,
         NEW t \in Tokens, NEW time \in Nat, NEW n, IsNet(n)
  PROVE  NewCard(s, t, time, n) \in Card
<1> DEFINE old == s.superTokens[t]
           kept == IF old = None THEN 0 ELSE old.netFlow
<1>1. old = None \/ old \in Card
  BY DEF Cards
<1>2. kept \in Int
  BY <1>1 DEF Card
<1>3. balance[t][s.agentAddress] \in Int
  BY DEF Balances, Parties
<1>4. NewCard(s, t, time, n) = [lastUpdateTimestamp |-> time, balance |-> balance[t][s.agentAddress],
                                netFlow |-> IF n # None THEN n ELSE kept]
  BY DEF NewCard
<1> HIDE DEF kept
<1> QED BY <1>2, <1>3, <1>4 DEF Card, IsNet

\* updateFlows lists no token but those of the list and the event's.
LEMMA TokensListed ==
  ASSUME NEW s, StateOK(s), NEW e, FlowOK(e), Concerns(e, s.agentAddress),
         NEW i \in 1..Len(updateFlows(s, e, e.block))
  PROVE  \/ updateFlows(s, e, e.block)[i].token = e.token
         \/ \E j \in 1..Len(s.flows) : updateFlows(s, e, e.block)[i].token = s.flows[j].token
<1> DEFINE old == s.flows
           new == updateFlows(s, e, e.block)
           a == s.agentAddress
           n == Len(old)
<1>1. old \in Seq(Entry) /\ a \in Agents /\ e.kind = "FlowUpdated" /\ a \in {e.sender, e.receiver}
  BY DEF StateOK, Concerns
<1>2. Appended(old, new, a, e) \/ \E k \in 1..n, g \in Entry : Replaced(old, new, k, g, e)
  BY <1>1, FlowsUpdated
<1>3. i \in 1..Len(new)
  OBVIOUS
<1> HIDE DEF old, new, a
<1>4. Listed(old) /\ n \in Nat
  BY <1>1, SeqListed
<1>5. CASE Appended(old, new, a, e)
  <2> DEFINE f == NewFlow(a, e, e.block)
  <2>1. f.token = e.token /\ new = Append(old, f)
    BY <1>5 DEF NewFlow, Appended
  <2> HIDE DEF f
  <2>2. Len(new) = n + 1 /\ new[n + 1] = f /\ \A j \in 1..n : new[j] = old[j]
    BY <1>4, <2>1, AppendIs
  <2>3. i = n + 1 \/ i \in 1..n
    BY <1>3, <1>4, <2>2
  <2> QED BY <2>1, <2>2, <2>3 DEF old, new
<1>6. ASSUME NEW k \in 1..n, NEW g \in Entry, Replaced(old, new, k, g, e)
      PROVE  \E j \in 1..n : new[i].token = old[j].token
  <2>1. new = [old EXCEPT ![k] = g] /\ g.token = old[k].token
    BY <1>6 DEF Replaced, SameFlow
  <2>2. Len(new) = n
    BY <1>1, <2>1, ExceptSeq
  <2>3. i \in 1..n /\ DOMAIN old = 1..n
    BY <1>3, <1>4, <2>2 DEF Listed
  <2>4. new[i] = old[i] \/ (i = k /\ new[i] = g)
    BY <2>1, <2>3
  <2> QED BY <2>1, <2>3, <2>4
<1> QED BY <1>2, <1>5, <1>6 DEF old, new, n

LEMMA CardsReduced ==
  ASSUME balance \in Balances, NEW s, StateOK(s), CardsOK(s), NEW e, EventOK(e), NEW ok \in BOOLEAN
  PROVE  CardsOK(reducer(s, e, ok))
<1>0. /\ FlowOK(e) /\ s.agentAddress \in Agents /\ "superTokens" \in DOMAIN s
      /\ "flows" \in DOMAIN s
      /\ \A i \in 1..Len(s.flows) : s.flows[i].token \in Tokens
  BY StateEntries DEF EventOK, CardsOK
<1>1. ASSUME NEW t \in Tokens, e.block \in Nat, NEW n, IsNet(n), NEW flows,
             \A i \in 1..Len(flows) :
               flows[i].token = t \/ \E j \in 1..Len(s.flows) : flows[i].token = s.flows[j].token
      PROVE  LET u == updateSuperTokens(s, t, e.block, n, ok)
             IN  u = None \/ (u \in Cards /\ \A i \in 1..Len(flows) : u[flows[i].token] # None)
  <2> DEFINE u == updateSuperTokens(s, t, e.block, n, ok)
  <2>1. CASE ~ok \/ s.superTokens = None
    BY <2>1 DEF updateSuperTokens
  <2>2. CASE ok /\ s.superTokens # None
    <3>1. s.superTokens \in Cards /\ \A j \in 1..Len(s.flows) : s.superTokens[s.flows[j].token] # None
      BY <2>2 DEF CardsOK
    <3>2. u \in Cards /\ u[t] \in Card /\ \A x \in Tokens : x # t => u[x] = s.superTokens[x]
      <4> DEFINE card == NewCard(s, t, e.block, n)
      <4>1. card \in Card
        BY <1>0, <1>1, <3>1, CardUpdated
      <4>2. u = [s.superTokens EXCEPT ![t] = card]
        BY <2>2 DEF updateSuperTokens, NewCard
      <4> HIDE DEF u, card
      <4> QED BY <3>1, <4>1, <4>2 DEF Cards
    <3> HIDE DEF u
    <3>3. u[t] # None
      BY <3>2, CardIsSome
    <3>4. \A x \in Tokens : s.superTokens[x] # None => u[x] # None
      BY <3>2, <3>3
    <3>5. \A i \in 1..Len(flows) : u[flows[i].token] # None
      BY <1>0, <1>1, <3>1, <3>3, <3>4
    <3> QED BY <3>2, <3>5 DEF u
  <2> QED BY <2>1, <2>2
<1>2. CASE Concerns(e, s.agentAddress)
  <2> DEFINE n == IF s.agentAddress = e.sender THEN e.totalSenderFlowRate ELSE e.totalReceiverFlowRate
             u == updateSuperTokens(s, e.token, e.block, n, ok)
             new == updateFlows(s, e, e.block)
  <2>1. PICK w : reducer(s, e, ok)
          = [s EXCEPT !.superTokens = u, !.flows = new, !.sendersSuperTokens = w]
    BY <1>2 DEF reducer, handleFlowUpdated, Concerns
  <2>2. e.token \in Tokens /\ e.block \in Nat /\ IsNet(n)
    BY <1>0, <1>2 DEF Concerns, FlowOK, IsNet
  <2>3. \A i \in 1..Len(new) :
          new[i].token = e.token \/ \E j \in 1..Len(s.flows) : new[i].token = s.flows[j].token
    BY <1>0, <1>2, TokensListed
  <2> HIDE DEF n, new
  <2>4. u = None \/ (u \in Cards /\ \A i \in 1..Len(new) : u[new[i].token] # None)
    BY <1>1, <2>2, <2>3
  <2> HIDE DEF u
  <2> DEFINE z == [s EXCEPT !.superTokens = u, !.flows = new, !.sendersSuperTokens = w]
  <2>5. DOMAIN z = DOMAIN s /\ z.superTokens = u /\ z.flows = new
    BY <1>0
  <2> HIDE DEF z
  <2>6. CardsOK(z)
    BY <1>0, <2>4, <2>5 DEF CardsOK
  <2> QED BY <2>1, <2>6 DEF z
<1>3. CASE ~Concerns(e, s.agentAddress) /\ e.kind = "FlowUpdated"
  <2>1. reducer(s, e, ok) = s
    BY <1>3 DEF reducer, handleFlowUpdated, Concerns
  <2> QED BY <2>1
<1>4. CASE e.kind = "Vault"
  <2> DEFINE u == updateSuperTokens(s, e.token, e.block, None, ok)
             z == [s EXCEPT !.superTokens = u]
  <2>1. reducer(s, e, ok) = z
    BY <1>4 DEF reducer, handleVaultEvent
  <2>2. e.token \in Tokens /\ e.block \in Nat /\ IsNet(None)
    BY <1>0, <1>4 DEF FlowOK, IsNet
  <2>3. u = None \/ (u \in Cards /\ \A i \in 1..Len(s.flows) : u[s.flows[i].token] # None)
    BY <1>1, <2>2
  <2> HIDE DEF u
  <2>4. DOMAIN z = DOMAIN s /\ z.superTokens = u /\ z.flows = s.flows
    BY <1>0
  <2> HIDE DEF z
  <2> QED BY <1>0, <2>1, <2>3, <2>4 DEF CardsOK
<1>5. CASE e.kind = "SYNC_STATUS_SYNCING"
  <2> DEFINE z == [s EXCEPT !.isSyncing = TRUE, !.cachedBlockNumber = e.to]
  <2>1. reducer(s, e, ok) = z
    BY <1>5 DEF reducer
  <2>2. DOMAIN z = DOMAIN s /\ z.superTokens = s.superTokens /\ z.flows = s.flows
    BY <1>0
  <2> HIDE DEF z
  <2> QED BY <2>1, <2>2 DEF CardsOK
<1>6. CASE e.kind = "EXTERNAL_SUBSCRIPTION_SYNCED"
  <2> DEFINE z == [s EXCEPT !.isSyncing = FALSE]
  <2>1. reducer(s, e, ok) = z
    BY <1>6 DEF reducer
  <2>2. DOMAIN z = DOMAIN s /\ z.superTokens = s.superTokens /\ z.flows = s.flows
    BY <1>0
  <2> HIDE DEF z
  <2> QED BY <2>1, <2>2 DEF CardsOK
<1>7. CASE e.kind \notin {"FlowUpdated", "Vault", "SYNC_STATUS_SYNCING", "EXTERNAL_SUBSCRIPTION_SYNCED"}
  <2>1. reducer(s, e, ok) = s
    BY <1>7 DEF reducer
  <2> QED BY <2>1
<1> QED BY <1>2, <1>3, <1>4, <1>5, <1>6, <1>7

LEMMA FreshCards == ASSUME NEW a \in Agents PROVE CardsOK(FreshState(a))
<1> DEFINE s == FreshState(a)
<1>1. s.superTokens = [t \in Tokens |-> None] /\ s.flows = <<>> /\ "superTokens" \in DOMAIN s
  BY DEF FreshState
<1> HIDE DEF s
<1>2. 1..Len(s.flows) = {}
  BY <1>1, NoneListed
<1>3. s.superTokens \in Cards
  BY <1>1 DEF Cards
<1>4. CardsOK(s)
  BY <1>1, <1>2, <1>3 DEF CardsOK
<1> QED BY <1>4 DEF s

\* The cards of a cached state are loaded again, all of them.
LEMMA CardsLoaded ==
  ASSUME balance \in Balances, NEW s, StateOK(s), CardsOK(s), s.superTokens # None,
         NEW current \in Nat, NEW ok
  PROVE  CardsOK(loadInitialSuperTokens(s, current, ok))
<1> DEFINE loaded == PresetTokens \cup {t \in Tokens : s.superTokens[t] # None}
           v == [t \in Tokens |-> IF t \in loaded
                                  THEN updateSuperTokens(s, t, current, None, TRUE)[t] ELSE None]
           u == IF ~ok /\ loaded # {} THEN None ELSE v
           z == [s EXCEPT !.superTokens = u]
<1>1. loadInitialSuperTokens(s, current, ok) = z
  BY DEF loadInitialSuperTokens
<1>2. /\ s.agentAddress \in Agents /\ s.superTokens \in Cards /\ "superTokens" \in DOMAIN s
      /\ "flows" \in DOMAIN s
      /\ \A i \in 1..Len(s.flows) :
           s.flows[i].token \in Tokens /\ s.superTokens[s.flows[i].token] # None
  BY StateEntries DEF CardsOK
<1>3. \A t \in Tokens : updateSuperTokens(s, t, current, None, TRUE)[t] \in Card
  <2> SUFFICES ASSUME NEW t \in Tokens
               PROVE  updateSuperTokens(s, t, current, None, TRUE)[t] \in Card
    OBVIOUS
  <2> DEFINE card == NewCard(s, t, current, None)
  <2>1. card \in Card
    BY <1>2, CardUpdated DEF IsNet
  <2>2. updateSuperTokens(s, t, current, None, TRUE) = [s.superTokens EXCEPT ![t] = card]
    BY DEF updateSuperTokens, NewCard
  <2> HIDE DEF card
  <2> QED BY <1>2, <2>1, <2>2 DEF Cards
<1>4. v \in Cards /\ \A t \in Tokens : s.superTokens[t] # None => v[t] \in Card
  BY <1>3 DEF Cards
<1> HIDE DEF v, loaded
<1>5. \A i \in 1..Len(s.flows) : v[s.flows[i].token] # None
  BY <1>2, <1>4, CardIsSome
<1>6. u = None \/ u = v
  OBVIOUS
<1> HIDE DEF u
<1>7. DOMAIN z = DOMAIN s /\ z.superTokens = u /\ z.flows = s.flows
  BY <1>2
<1> HIDE DEF z
<1> QED BY <1>1, <1>2, <1>4, <1>5, <1>6, <1>7 DEF CardsOK

LEMMA CardedStep == Shapes /\ Carded /\ [Next]_vars => Carded'
<1> SUFFICES ASSUME Shapes, Carded, [Next]_vars PROVE Carded'
  OBVIOUS
<1>1. CASE UNCHANGED <<st, cache>>
  BY <1>1 DEF Carded
<1>2. CASE initializeState
  <2> DEFINE cached == IF cache = None THEN FreshState(appAgent) ELSE cache
             syncing == [cached EXCEPT !.isSyncing = TRUE]
  <2>1. StateOK(cached) /\ CardsOK(cached)
    BY FreshOK, FreshCards DEF Shapes, Carded
  <2>2. PICK ok \in CallsSucceed : st' = loadInitialSuperTokens(syncing, Len(log), ok)
    BY <1>2 DEF initializeState
  <2>3. cached.superTokens # None /\ cache' = cache
    BY <1>2 DEF initializeState
  <2>4. balance \in Balances /\ Len(log) \in Nat
    BY DEF Shapes, LogOK, Listed
  <2> HIDE DEF cached
  <2>5. /\ DOMAIN syncing = DOMAIN cached /\ syncing.agentAddress = cached.agentAddress
        /\ syncing.flows = cached.flows /\ syncing.isSyncing = TRUE
        /\ syncing.cachedBlockNumber = cached.cachedBlockNumber
        /\ syncing.superTokens = cached.superTokens
    BY <2>1 DEF StateOK, CardsOK
  <2> HIDE DEF syncing
  <2>6. StateOK(syncing)
    BY <2>1, <2>5 DEF StateOK
  <2>7. CardsOK(syncing) /\ syncing.superTokens # None
    BY <2>1, <2>3, <2>5 DEF CardsOK
  <2>8. CardsOK(st')
    BY <2>2, <2>4, <2>6, <2>7, CardsLoaded
  <2> QED BY <2>3, <2>8 DEF Carded
<1>3. CASE Reduce
  <2> DEFINE e == Head(queue)
  <2>1. PICK ok \in CallsSucceed : st' = reducer(st, e, ok)
    BY <1>3 DEF Reduce
  <2>2. EventOK(e) /\ StateOK(st) /\ CardsOK(st) /\ balance \in Balances /\ cache' = cache
    BY <1>3, ReduceShapes DEF Shapes, Carded, Reduce
  <2> HIDE DEF e
  <2>3. ok \in BOOLEAN
    BY DEF CallsSucceed
  <2>4. CardsOK(st')
    BY <2>1, <2>2, <2>3, CardsReduced
  <2> QED BY <2>2, <2>4 DEF Carded
<1>4. CASE Persist
  BY <1>4 DEF Persist, Carded
<1>5. CASE Crash \/ Reject
  <2>1. st' = FreshState(appAgent) /\ cache' = cache /\ appAgent \in Agents
    BY <1>5 DEF Crash, Reject, StoreEnds, Shapes
  <2> QED BY <2>1, FreshCards DEF Carded
<1>6. CASE ChainNext
  BY <1>1, <1>6 DEF ChainNext, EmptyBlock, FlowChange, VaultChange, SetAgent, Block, script
<1>7. CASE \E sub \in Subscriptions : pastEvents(sub) \/ events(sub)
  BY <1>1, <1>7 DEF pastEvents, events
<1>8. CASE AnnounceSyncing
  BY <1>1, <1>8 DEF AnnounceSyncing
<1>9. CASE UNCHANGED vars
  BY <1>1, <1>9 DEF vars, script
<1>10. CASE initializeRejects
  BY <1>1, <1>10 DEF initializeRejects
<1> QED BY <1>2, <1>3, <1>4, <1>5, <1>6, <1>7, <1>8, <1>9, <1>10 DEF Next, ScriptNext

LEMMA CardedAlways == Spec => [](Shapes /\ Carded)
<1>1. Init => Carded
  BY FreshCards DEF Init, Carded
<1> QED BY <1>1, InitShapes, ShapesStep, CardedStep, PTL DEF Spec

\* The flows a card sums up, and the card.
Counted(flows, t, isIncoming) ==
  {i \in DOMAIN flows : /\ ~flows[i].isCancelled /\ flows[i].token = t
                        /\ flows[i].isIncoming = isIncoming}

LEMMA InOutRateIs ==
  ASSUME NEW flows \in Seq(Entry), NEW t, NEW isIncoming
  PROVE  LET S == Counted(flows, t, isIncoming)
             f == [i \in S |-> flows[i].flowRate]
         IN  /\ IsFiniteSet(S) /\ S \subseteq 1..Len(flows) /\ (\A i \in S : f[i] \in Nat)
             /\ calculateInOutRate(flows, t, isIncoming) = SumFunctionOnSet(f, S)
             /\ calculateInOutRate(flows, t, isIncoming) \in Int
<1> DEFINE S == Counted(flows, t, isIncoming)
           f == [i \in S |-> flows[i].flowRate]
           n == Len(flows)
<1>1. n \in Nat /\ DOMAIN flows = 1..n /\ \A i \in 1..n : flows[i] \in Entry
  OBVIOUS
<1>2. S \subseteq 1..n
  BY <1>1 DEF Counted
<1>3. IsFiniteSet(S)
  <2>1. IsFiniteSet(1..n)
    BY <1>1, FS_Interval
  <2> QED BY <1>2, <2>1, FS_Subset
<1>4. \A i \in S : flows[i].flowRate \in Nat
  BY <1>1, <1>2 DEF Entry
<1>5. DOMAIN f = S /\ \A i \in S : f[i] \in Nat
  BY <1>4
<1>6. calculateInOutRate(flows, t, isIncoming) = SumFunctionOnSet(f, S)
  BY <1>5 DEF calculateInOutRate, SumFunction, Counted
<1> HIDE DEF f, S, n
<1>7. SumFunctionOnSet(f, S) \in Int
  BY <1>3, <1>5, SumType
<1> QED BY <1>2, <1>3, <1>5, <1>6, <1>7 DEF f, S, n

LEMMA CardIs ==
  ASSUME StateOK(st), NEW t \in Tokens, st.superTokens[t] # None
  PROVE  /\ appStateReducer(st)[t] # None
         /\ appStateReducer(st)[t].inflowRate = calculateInOutRate(st.flows, t, TRUE)
         /\ appStateReducer(st)[t].outflowRate = calculateInOutRate(st.flows, t, FALSE)
<1> DEFINE in == calculateInOutRate(st.flows, t, TRUE)
           out == calculateInOutRate(st.flows, t, FALSE)
<1>1. in \in Int /\ out \in Int
  BY InOutRateIs DEF StateOK
<1>2. appStateReducer(st)[t] = [inflowRate |-> in, outflowRate |-> out]
  BY DEF appStateReducer
<1> HIDE DEF in, out
<1> DEFINE card == [inflowRate |-> in, outflowRate |-> out]
<1>3. card \in [inflowRate : Int, outflowRate : Int]
  BY <1>1
<1>4. card.inflowRate = in /\ card.outflowRate = out
  OBVIOUS
<1> HIDE DEF card
<1>5. card # None
  BY <1>3, StoreAssumption
<1>6. appStateReducer(st)[t] = card
  BY <1>2 DEF card
<1> QED BY <1>4, <1>5, <1>6 DEF in, out

LEMMA CardedHasCard == Shapes /\ Carded => EachFlowHasCard
<1> SUFFICES ASSUME Shapes, Carded, st.superTokens # None, NEW i \in DOMAIN st.flows
             PROVE  appStateReducer(st)[st.flows[i].token] # None
  BY DEF EachFlowHasCard
<1>1. StateOK(st) /\ CardsOK(st)
  BY DEF Shapes, Carded
<1>2. i \in 1..Len(st.flows) /\ st.flows[i].token \in Tokens
  BY <1>1, StateEntries
<1>3. st.superTokens[st.flows[i].token] # None
  BY <1>1, <1>2 DEF CardsOK
<1> QED BY <1>1, <1>2, <1>3, CardIs

\* No flow is listed without its token's card, in any session: what loadInitialSuperTokens loads again
\* and updateSuperTokens adds covers every entry the cache and the events bring, closed ones included.
THEOREM FlowsHaveCards == Spec => []EachFlowHasCard
  BY CardedHasCard, CardedAlways, PTL

-----------------------------------------------------------------------------
(* The chain: a flow's events tell its rate.                                *)

LEMMA BlocksGrow ==
  ASSUME NEW lg, LogOK(lg), NEW e, NEW t, NEW s, NEW r
  PROVE  /\ Blocks(lg, t, s, r) \subseteq 1..Len(lg)
         /\ IsOf(e, t, s, r) =>
              Blocks(Append(lg, e), t, s, r) = Blocks(lg, t, s, r) \cup {Len(lg) + 1}
         /\ ~IsOf(e, t, s, r) => Blocks(Append(lg, e), t, s, r) = Blocks(lg, t, s, r)
<1> DEFINE n == Len(lg)
           new == Append(lg, e)
<1>1. Listed(lg) /\ n \in Nat
  BY DEF LogOK, Listed
<1>2. Len(new) = n + 1 /\ new[n + 1] = e /\ \A b \in 1..n : new[b] = lg[b]
  BY <1>1, AppendIs
<1>3. Blocks(lg, t, s, r) \subseteq 1..n
  BY DEF Blocks
<1>4. Blocks(lg, t, s, r) = {b \in 1..n : IsOf(lg[b], t, s, r)}
  BY DEF Blocks
<1>5. Blocks(new, t, s, r) = {b \in 1..(n + 1) : IsOf(new[b], t, s, r)}
  BY <1>2 DEF Blocks
<1> HIDE DEF n, new
<1>6. 1..(n + 1) = 1..n \cup {n + 1} /\ n + 1 \notin 1..n
  BY <1>1
<1>7. \A b \in 1..n : IsOf(new[b], t, s, r) <=> IsOf(lg[b], t, s, r)
  BY <1>2
<1>8. IsOf(new[n + 1], t, s, r) <=> IsOf(e, t, s, r)
  BY <1>2
<1>9. IsOf(e, t, s, r) => Blocks(new, t, s, r) = Blocks(lg, t, s, r) \cup {n + 1}
  BY <1>4, <1>5, <1>6, <1>7, <1>8
<1>10. ~IsOf(e, t, s, r) => Blocks(new, t, s, r) = Blocks(lg, t, s, r)
  BY <1>4, <1>5, <1>6, <1>7, <1>8
<1> QED BY <1>3, <1>9, <1>10 DEF n, new

Told(lg, n, t, s, r) == RateIs(lg, n, t, s, r) /\ EndsRunning(lg, t, s, r)

\* An event of something else leaves the account of the flow alone.
LEMMA ToldStill ==
  ASSUME NEW lg, LogOK(lg), NEW e, NEW n, NEW t, NEW s, NEW r,
         ~IsOf(e, t, s, r), Told(lg, n, t, s, r)
  PROVE  Told(Append(lg, e), n, t, s, r)
<1> DEFINE new == Append(lg, e)
           B == Blocks(lg, t, s, r)
<1>1. B \subseteq 1..Len(lg) /\ Blocks(new, t, s, r) = B
  BY BlocksGrow
<1>2. \A b \in 1..Len(lg) : new[b] = lg[b]
  BY AppendIs DEF LogOK
<1>3. \A b \in B : new[b] = lg[b]
  BY <1>1, <1>2
<1>4. RateIs(lg, n, t, s, r) /\ EndsRunning(lg, t, s, r)
  BY DEF Told
<1> HIDE DEF new
<1>5. RateIs(new, n, t, s, r)
  BY <1>1, <1>3, <1>4 DEF RateIs, IsLast
<1>6. EndsRunning(new, t, s, r)
  <2> SUFFICES ASSUME NEW b \in B, new[b].flowRate = 0
               PROVE  \E c : IsLast(c, {d \in B : d < b}) /\ new[c].flowRate > 0
    BY <1>1 DEF EndsRunning
  <2>1. PICK c : IsLast(c, {d \in B : d < b}) /\ lg[c].flowRate > 0
    BY <1>3, <1>4 DEF EndsRunning
  <2>2. c \in B
    BY <2>1 DEF IsLast
  <2> QED BY <1>3, <2>1, <2>2
<1> QED BY <1>5, <1>6 DEF Told, new

\* The flow's rate changes.
LEMMA ToldAnew ==
  ASSUME NEW lg, LogOK(lg), NEW e, NEW n \in Nat, NEW t, NEW s, NEW r,
         IsOf(e, t, s, r), e.flowRate # n, e.flowRate \in Nat, Told(lg, n, t, s, r)
  PROVE  Told(Append(lg, e), e.flowRate, t, s, r)
<1> DEFINE new == Append(lg, e)
           B == Blocks(lg, t, s, r)
           h == Len(lg)
<1>1. B \subseteq 1..h /\ Blocks(new, t, s, r) = B \cup {h + 1}
  BY BlocksGrow
<1>2. h \in Nat /\ new[h + 1] = e /\ \A b \in 1..h : new[b] = lg[b]
  BY AppendIs DEF LogOK, Listed
<1>3. RateIs(lg, n, t, s, r) /\ EndsRunning(lg, t, s, r)
  BY DEF Told
<1> DEFINE C == B \cup {h + 1}
<1> HIDE DEF new, h
<1>4. B = {} \/ \E b : IsLast(b, B) /\ lg[b].flowRate = n
  BY <1>3 DEF RateIs
<1>5. B = {} => n = 0
  BY <1>3 DEF RateIs, IsLast
<1> HIDE DEF B
<1>6. IsLast(h + 1, C)
  BY <1>1, <1>2 DEF IsLast
<1>7. RateIs(new, e.flowRate, t, s, r)
  BY <1>1, <1>2, <1>6 DEF RateIs
<1>8. ASSUME NEW b \in C, new[b].flowRate = 0
      PROVE  \E c : IsLast(c, {d \in C : d < b}) /\ new[c].flowRate > 0
  <2>1. CASE b = h + 1
    <3>1. e.flowRate = 0 /\ n > 0
      BY <1>2, <1>8, <2>1
    <3>2. PICK c : IsLast(c, B) /\ lg[c].flowRate = n
      BY <1>4, <1>5, <3>1
    <3>3. c \in B /\ new[c] = lg[c]
      BY <1>1, <1>2, <3>2 DEF IsLast
    <3>4. {d \in C : d < b} = B
      <4>1. \A d \in B : d < b
        BY <1>1, <1>2, <2>1
      <4>2. ~(h + 1 < b)
        BY <1>2, <2>1
      <4> QED BY <4>1, <4>2
    <3> QED BY <3>1, <3>2, <3>3, <3>4
  <2>2. CASE b # h + 1
    <3>1. b \in B /\ b \in 1..h /\ new[b] = lg[b]
      BY <1>1, <1>2, <2>2
    <3>2. lg[b].flowRate = 0
      BY <1>8, <3>1
    <3>3. PICK c : IsLast(c, {d \in B : d < b}) /\ lg[c].flowRate > 0
      BY <1>3, <3>1, <3>2 DEF EndsRunning, B
    <3>4. {d \in C : d < b} = {d \in B : d < b}
      BY <1>1, <1>2, <3>1
    <3>5. c \in B
      BY <3>3 DEF IsLast
    <3>6. new[c] = lg[c]
      BY <1>1, <1>2, <3>5
    <3> QED BY <3>3, <3>4, <3>6
  <2> QED BY <2>1, <2>2
<1>9. EndsRunning(new, t, s, r)
  BY <1>1, <1>8 DEF EndsRunning
<1> QED BY <1>7, <1>9 DEF Told, new

LEMMA AccountAgain ==
  ASSUME NEW lg, NEW rates, rates \in Rates,
         \A t \in Tokens, s \in Parties, r \in Parties : Told(lg, rates[t][s][r], t, s, r),
         log' = lg, rate' = rates
  PROVE  Account'
  BY DEF Account, Told

LEMMA AccountStep == Shapes /\ Account /\ [Next]_vars => Account'
<1> SUFFICES ASSUME Shapes, Account, [Next]_vars PROVE Account'
  OBVIOUS
<1>1. LogOK(log)
  BY DEF Shapes
<1>2. /\ rate \in Rates
      /\ \A t \in Tokens, s \in Parties, r \in Parties : Told(log, rate[t][s][r], t, s, r)
  BY DEF Account, Told
<1>3. CASE UNCHANGED <<log, rate>>
  BY <1>2, <1>3, AccountAgain
<1>4. ASSUME NEW e, log' = Append(log, e), rate' = rate, e.kind # "FlowUpdated"
      PROVE  Account'
  <2>1. \A t, s, r : ~IsOf(e, t, s, r)
    BY <1>4 DEF IsOf
  <2>2. \A t \in Tokens, s \in Parties, r \in Parties :
          Told(Append(log, e), rate[t][s][r], t, s, r)
    BY <1>1, <1>2, <2>1, ToldStill
  <2> QED BY <1>2, <1>4, <2>2, AccountAgain
<1>5. CASE EmptyBlock
  <2>1. log' = Append(log, NoEvent) /\ rate' = rate
    BY <1>5 DEF EmptyBlock, Block
  <2>2. NoEvent.kind # "FlowUpdated"
    BY DEF NoEvent
  <2> QED BY <1>4, <2>1, <2>2
<1>6. CASE \E t \in Tokens, a \in Agents, n \in VaultAmounts : VaultChange(t, a, n)
  <2>1. PICK t \in Tokens, a \in Agents, n \in VaultAmounts : VaultChange(t, a, n)
    BY <1>6
  <2>2. log' = Append(log, VaultEvent(t, a)) /\ rate' = rate
    BY <2>1 DEF VaultChange, Block
  <2>3. VaultEvent(t, a).kind # "FlowUpdated"
    BY DEF VaultEvent
  <2> QED BY <1>4, <2>2, <2>3
<1>7. CASE \E t \in Tokens, s \in Parties, r \in Parties, n \in 0..MaxRate : FlowChange(t, s, r, n)
  <2>1. PICK t \in Tokens, s \in Parties, r \in Parties, n \in 0..MaxRate : FlowChange(t, s, r, n)
    BY <1>7
  <2> DEFINE rates == [rate EXCEPT ![t][s][r] = n]
             e == FlowUpdated(t, s, r, n, rates)
  <2>2. log' = Append(log, e) /\ rate' = rates /\ n # rate[t][s][r]
    BY <2>1 DEF FlowChange, Block
  <2>3. IsOf(e, t, s, r) /\ e.flowRate = n
    BY DEF FlowUpdated, IsOf
  <2>4. \A u, x, y : IsOf(e, u, x, y) => u = t /\ x = s /\ y = r
    BY DEF FlowUpdated, IsOf
  <2> HIDE DEF e
  <2>5. n \in Nat
    BY StoreAssumption
  <2>6. rates \in Rates /\ rates[t][s][r] = n
    BY <1>2, <2>5 DEF Rates
  <2>7. \A u \in Tokens, x \in Parties, y \in Parties :
          u # t \/ x # s \/ y # r => rates[u][x][y] = rate[u][x][y]
    BY <1>2 DEF Rates
  <2> HIDE DEF rates
  <2>8. ASSUME NEW u \in Tokens, NEW x \in Parties, NEW y \in Parties
        PROVE  Told(Append(log, e), rates[u][x][y], u, x, y)
    <3>1. Told(log, rate[u][x][y], u, x, y) /\ rate[u][x][y] \in Nat
      BY <1>2 DEF Rates
    <3>2. CASE IsOf(e, u, x, y)
      <4>1. u = t /\ x = s /\ y = r
        BY <2>4, <3>2
      <4>2. Told(Append(log, e), e.flowRate, u, x, y)
        BY <1>1, <2>2, <2>3, <2>5, <3>1, <3>2, <4>1, ToldAnew
      <4> QED BY <2>3, <2>6, <4>1, <4>2
    <3>3. CASE ~IsOf(e, u, x, y)
      <4>1. rates[u][x][y] = rate[u][x][y]
        BY <2>3, <2>7, <3>3
      <4> QED BY <1>1, <3>1, <3>3, <4>1, ToldStill
    <3> QED BY <3>2, <3>3
  <2> QED BY <2>2, <2>6, <2>8, AccountAgain
<1>8. CASE \E a \in Agents : SetAgent(a)
  BY <1>3, <1>8 DEF SetAgent
<1>9. CASE ScriptNext
  BY <1>3, <1>9 DEF ScriptNext, initializeState, pastEvents, events, AnnounceSyncing, Reduce, Persist,
                    Crash, Reject, StoreEnds, initializeRejects, chain
<1>10. CASE UNCHANGED vars
  BY <1>3, <1>10 DEF vars, chain
<1> QED BY <1>5, <1>6, <1>7, <1>8, <1>9, <1>10 DEF Next, ChainNext

LEMMA InitAccount == Init => Account
<1> SUFFICES ASSUME Init PROVE Account
  OBVIOUS
<1>1. rate \in Rates
  BY DEF Init, Rates
<1>2. \A t \in Tokens, s \in Parties, r \in Parties : rate[t][s][r] = 0
  BY DEF Init
<1>3. Len(log) = InitialBlock /\ \A b \in 1..InitialBlock : log[b] = NoEvent
  BY StoreAssumption DEF Init
<1>4. NoEvent.kind # "FlowUpdated"
  BY DEF NoEvent
<1>5. ASSUME NEW t, NEW s, NEW r PROVE Blocks(log, t, s, r) = {}
  BY <1>3, <1>4 DEF Blocks, IsOf
<1> QED BY <1>1, <1>2, <1>5 DEF Account, RateIs, EndsRunning

-----------------------------------------------------------------------------
(* One event and the open entries of one flow.                              *)

LEMMA EqualIsOpen ==
  ASSUME NEW a, NEW f, f.entity # a, NEW e, Concerns(e, a), NEW t, NEW s, NEW r, IsOf(e, t, s, r)
  PROVE  isFlowEqual(f, e) <=> IsOpen(f, a, t, s, r)
<1>1. e.token = t /\ e.sender = s /\ e.receiver = r /\ (a = s \/ a = r)
  BY DEF Concerns, IsOf
<1>2. CASE f.isIncoming
  BY <1>1, <1>2 DEF isFlowEqual, IsOpen, InFlow, getFlowEventEntity
<1>3. CASE ~f.isIncoming
  BY <1>1, <1>3 DEF isFlowEqual, IsOpen, InFlow, getFlowEventEntity
<1> QED BY <1>2, <1>3

LEMMA EqualIsOther ==
  ASSUME NEW a, NEW f, f.entity # a, NEW e, Concerns(e, a), isFlowEqual(f, e),
         NEW t, NEW s, NEW r, ~IsOf(e, t, s, r)
  PROVE  ~InFlow(f, a, t, s, r)
<1>1. e.kind = "FlowUpdated" /\ (a = e.sender \/ a = e.receiver)
  BY DEF Concerns
<1>2. CASE f.isIncoming
  BY <1>1, <1>2 DEF isFlowEqual, InFlow, getFlowEventEntity, IsOf
<1>3. CASE ~f.isIncoming
  BY <1>1, <1>3 DEF isFlowEqual, InFlow, getFlowEventEntity, IsOf
<1> QED BY <1>2, <1>3

LEMMA SameInFlow ==
  ASSUME NEW f, NEW g, SameFlow(f, g), NEW a, NEW t, NEW s, NEW r
  PROVE  InFlow(f, a, t, s, r) <=> InFlow(g, a, t, s, r)
  BY DEF SameFlow, InFlow

LEMMA OpenSameFlow ==
  ASSUME NEW f \in Entry, NEW g \in Entry, NEW a, NEW t, NEW s, NEW r, s # r,
         IsOpen(f, a, t, s, r), IsOpen(g, a, t, s, r)
  PROVE  SameFlow(f, g)
<1>1. f.isIncoming \in BOOLEAN /\ g.isIncoming \in BOOLEAN
  BY DEF Entry
<1>2. f.isIncoming = g.isIncoming
  BY <1>1 DEF IsOpen, InFlow
<1>3. f.token = g.token
  BY DEF IsOpen, InFlow
<1>4. f.entity = g.entity
  BY <1>2 DEF IsOpen, InFlow
<1> QED BY <1>2, <1>3, <1>4 DEF SameFlow

\* NewFlow is an open entry of the event's flow, and of no other.
LEMMA NewIsOpen ==
  ASSUME NEW a \in Agents, NEW e, FlowOK(e), Concerns(e, a), NEW t, NEW s, NEW r
  PROVE  IsOpen(NewFlow(a, e, e.block), a, t, s, r) <=> IsOf(e, t, s, r)
<1> DEFINE f == NewFlow(a, e, e.block)
<1>1. e.kind = "FlowUpdated" /\ a \in {e.sender, e.receiver} /\ e.sender # e.receiver
  BY DEF Concerns, FlowOK
<1>2. /\ f \in Entry /\ ~f.isCancelled /\ f.token = e.token
      /\ f.isIncoming = (e.receiver = a) /\ f.entity = getFlowEventEntity(e, f.isIncoming)
  BY <1>1, NewEntry
<1> HIDE DEF f
<1>3. CASE e.receiver = a
  <2>1. f.isIncoming /\ f.entity = e.sender
    BY <1>2, <1>3 DEF getFlowEventEntity
  <2> QED BY <1>1, <1>2, <1>3, <2>1 DEF IsOpen, InFlow, IsOf, f
<1>4. CASE e.receiver # a
  <2>1. ~f.isIncoming /\ f.entity = e.receiver /\ e.sender = a
    BY <1>1, <1>2, <1>4 DEF getFlowEventEntity
  <2> QED BY <1>1, <1>2, <1>4, <2>1 DEF IsOpen, InFlow, IsOf, f
<1> QED BY <1>3, <1>4

SameEntries(old, new, a, t, s, r) ==
  /\ EntriesAt(new, a, t, s, r) = EntriesAt(old, a, t, s, r)
  /\ \A i \in EntriesAt(old, a, t, s, r) : new[i] = old[i]

LEMMA SameEntriesOpen ==
  ASSUME NEW old, NEW new, NEW a, NEW t, NEW s, NEW r, SameEntries(old, new, a, t, s, r)
  PROVE  /\ OpenAt(new, a, t, s, r) = OpenAt(old, a, t, s, r)
         /\ \A i \in OpenAt(old, a, t, s, r) : new[i] = old[i]
<1>1. \A flows : OpenAt(flows, a, t, s, r) = {i \in EntriesAt(flows, a, t, s, r) : ~flows[i].isCancelled}
  BY DEF OpenAt, EntriesAt, IsOpen
<1> QED BY <1>1 DEF SameEntries

LEMMA OtherFlowKept ==
  ASSUME NEW state, StateOK(state), NEW e, FlowOK(e), Concerns(e, state.agentAddress),
         NEW t, NEW s, NEW r, ~IsOf(e, t, s, r)
  PROVE  SameEntries(state.flows, updateFlows(state, e, e.block), state.agentAddress, t, s, r)
<1> DEFINE old == state.flows
           new == updateFlows(state, e, e.block)
           a == state.agentAddress
           n == Len(old)
           f == NewFlow(a, e, e.block)
<1>1. old \in Seq(Entry) /\ a \in Agents /\ \A i \in DOMAIN old : old[i].entity # a
  BY DEF StateOK
<1>2. Appended(old, new, a, e) \/ \E i \in 1..n, g \in Entry : Replaced(old, new, i, g, e)
  BY FlowsUpdated DEF Concerns
<1>3. Concerns(e, a)
  OBVIOUS
<1> HIDE DEF old, new, a
<1>4. Listed(old) /\ n \in Nat /\ DOMAIN old = 1..n
  BY <1>1, SeqListed
<1>5. CASE Appended(old, new, a, e)
  <2>1. ~InFlow(f, a, t, s, r)
    <3>1. ~IsOpen(f, a, t, s, r) /\ ~f.isCancelled
      BY <1>1, <1>3, NewIsOpen, NewEntry DEF Concerns
    <3> QED BY <3>1 DEF IsOpen
  <2>2. new = Append(old, f)
    BY <1>5 DEF Appended
  <2> HIDE DEF f
  <2>3. Len(new) = n + 1 /\ new[n + 1] = f /\ \A i \in 1..n : new[i] = old[i]
    BY <1>4, <2>2, AppendIs
  <2> HIDE DEF n
  <2>4. \A i \in 1..(n + 1) : i \in 1..n \/ i = n + 1
    BY <1>4
  <2>5. 1..n \subseteq 1..(n + 1)
    BY <1>4
  <2>6. EntriesAt(new, a, t, s, r) = EntriesAt(old, a, t, s, r)
    BY <2>1, <2>3, <2>4, <2>5 DEF EntriesAt, n
  <2>7. \A i \in EntriesAt(old, a, t, s, r) : new[i] = old[i]
    BY <2>3 DEF EntriesAt, n
  <2> QED BY <2>6, <2>7 DEF SameEntries, old, new, a
<1>6. ASSUME NEW k \in 1..n, NEW g \in Entry, Replaced(old, new, k, g, e)
      PROVE  SameEntries(old, new, a, t, s, r)
  <2>1. new = [old EXCEPT ![k] = g] /\ isFlowEqual(old[k], e) /\ SameFlow(g, old[k])
    BY <1>6 DEF Replaced
  <2>2. Len(new) = n /\ new[k] = g /\ \A i \in 1..n : i # k => new[i] = old[i]
    <3>1. Len(new) = n
      BY <1>1, <2>1, ExceptSeq
    <3> QED BY <1>4, <2>1, <3>1
  <2>3. ~InFlow(old[k], a, t, s, r)
    BY <1>1, <1>3, <1>4, <2>1, EqualIsOther
  <2>4. ~InFlow(g, a, t, s, r)
    BY <2>1, <2>3, SameInFlow
  <2>5. \A i \in 1..n : InFlow(new[i], a, t, s, r) <=> InFlow(old[i], a, t, s, r)
    BY <2>2, <2>3, <2>4
  <2>6. EntriesAt(new, a, t, s, r) = EntriesAt(old, a, t, s, r)
    BY <2>2, <2>5 DEF EntriesAt
  <2>7. \A i \in EntriesAt(old, a, t, s, r) : i # k /\ i \in 1..n
    BY <2>3 DEF EntriesAt
  <2> QED BY <2>2, <2>6, <2>7 DEF SameEntries
<1> QED BY <1>2, <1>5, <1>6 DEF old, new, a

LEMMA FlowSet ==
  ASSUME NEW state, StateOK(state), Unique(state.flows), NEW e, FlowOK(e),
         Concerns(e, state.agentAddress), NEW t, NEW s, NEW r, IsOf(e, t, s, r),
         e.flowRate = 0 => OpenAt(state.flows, state.agentAddress, t, s, r) # {}
  PROVE  Shows(updateFlows(state, e, e.block), e.flowRate, state.agentAddress, t, s, r)
<1> DEFINE old == state.flows
           new == updateFlows(state, e, e.block)
           a == state.agentAddress
           n == Len(old)
           f == NewFlow(a, e, e.block)
<1>1. old \in Seq(Entry) /\ a \in Agents /\ \A i \in DOMAIN old : old[i].entity # a
  BY DEF StateOK
<1>2. Appended(old, new, a, e) \/ \E i \in 1..n, g \in Entry : Replaced(old, new, i, g, e)
  BY FlowsUpdated DEF Concerns
<1>3. Concerns(e, a) /\ Unique(old) /\ (e.flowRate = 0 => OpenAt(old, a, t, s, r) # {})
  OBVIOUS
<1> HIDE DEF old, new, a
<1>4. Listed(old) /\ n \in Nat /\ DOMAIN old = 1..n /\ \A i \in 1..n : old[i] \in Entry
  BY <1>1, SeqListed
<1>5. e.flowRate \in Nat /\ s # r /\ e.kind = "FlowUpdated"
  BY DEF FlowOK, IsOf
<1>6. \A i \in 1..n : isFlowEqual(old[i], e) <=> IsOpen(old[i], a, t, s, r)
  BY <1>1, <1>3, <1>4, EqualIsOpen
<1>7. CASE Appended(old, new, a, e)
  <2>1. OpenAt(old, a, t, s, r) = {}
    BY <1>6, <1>7 DEF Appended, OpenAt
  <2>2. e.flowRate # 0
    BY <1>3, <2>1
  <2>3. IsOpen(f, a, t, s, r) /\ f.flowRate = e.flowRate
    BY <1>1, <1>3, NewIsOpen, NewEntry DEF Concerns
  <2>4. new = Append(old, f)
    BY <1>7 DEF Appended
  <2> HIDE DEF f
  <2>5. Len(new) = n + 1 /\ new[n + 1] = f
    BY <1>4, <2>4, AppendIs
  <2>6. n + 1 \in 1..Len(new)
    BY <1>4, <2>5
  <2>7. n + 1 \in OpenAt(new, a, t, s, r) /\ new[n + 1].flowRate = e.flowRate
    BY <2>3, <2>5, <2>6 DEF OpenAt
  <2> QED BY <2>2, <2>7 DEF Shows, new, a
<1>8. ASSUME NEW k \in 1..n, NEW g \in Entry, Replaced(old, new, k, g, e)
      PROVE  Shows(new, e.flowRate, a, t, s, r)
  <2>1. /\ new = [old EXCEPT ![k] = g] /\ isFlowEqual(old[k], e) /\ SameFlow(g, old[k])
        /\ e.flowRate > 0 => ~g.isCancelled /\ g.flowRate = e.flowRate
        /\ ~(e.flowRate > 0) => g.isCancelled
    BY <1>8 DEF Replaced
  <2>2. Len(new) = n /\ new[k] = g /\ \A i \in 1..n : i # k => new[i] = old[i]
    <3>1. Len(new) = n
      BY <1>1, <2>1, ExceptSeq
    <3> QED BY <1>4, <2>1, <3>1
  <2>3. IsOpen(old[k], a, t, s, r) /\ InFlow(old[k], a, t, s, r)
    BY <1>6, <2>1 DEF IsOpen
  <2>4. InFlow(g, a, t, s, r)
    BY <2>1, <2>3, SameInFlow
  <2>5. CASE e.flowRate > 0
    <3>1. IsOpen(g, a, t, s, r) /\ g.flowRate = e.flowRate /\ e.flowRate # 0
      BY <1>5, <2>1, <2>4, <2>5 DEF IsOpen
    <3>2. k \in OpenAt(new, a, t, s, r) /\ new[k].flowRate = e.flowRate
      BY <2>2, <3>1 DEF OpenAt
    <3> QED BY <3>1, <3>2 DEF Shows
  <2>6. CASE ~(e.flowRate > 0)
    <3>1. e.flowRate = 0
      BY <1>5, <2>6
    <3>2. ~IsOpen(g, a, t, s, r)
      BY <2>1, <2>6 DEF IsOpen
    <3>3. ASSUME NEW i \in 1..n, i # k, IsOpen(old[i], a, t, s, r) PROVE FALSE
      <4>1. SameFlow(old[i], old[k])
        BY <1>4, <1>5, <2>3, <3>3, OpenSameFlow
      <4> QED BY <1>3, <2>3, <3>3, <4>1 DEF Unique, IsOpen
    <3>4. OpenAt(new, a, t, s, r) = {}
      BY <2>2, <3>2, <3>3 DEF OpenAt
    <3> QED BY <3>1, <3>4 DEF Shows
  <2> QED BY <2>5, <2>6
<1> QED BY <1>2, <1>7, <1>8 DEF new, a

-----------------------------------------------------------------------------
(* The rate of one flow over time, what it has streamed, and its history.   *)

LEMMA LastIsOne ==
  ASSUME NEW B, B \subseteq Int, NEW c, IsLast(c, B), NEW d, IsLast(d, B)
  PROVE  c = d
<1>1. c \in Int /\ d \in Int /\ c <= d /\ d <= c
  BY DEF IsLast
<1> QED BY <1>1

LEMMA FlowEvents ==
  ASSUME NEW lg, LogOK(lg), NEW t, NEW s, NEW r
  PROVE  /\ Len(lg) \in Nat /\ Blocks(lg, t, s, r) \subseteq 1..Len(lg)
         /\ \A b \in Blocks(lg, t, s, r) :
              /\ lg[b].kind = "FlowUpdated" /\ FlowOK(lg[b]) /\ lg[b].block = b
              /\ lg[b].flowRate \in Nat
<1>1. Len(lg) \in Nat /\ Blocks(lg, t, s, r) \subseteq 1..Len(lg)
  BY DEF LogOK, Listed, Blocks
<1>2. \A b \in Blocks(lg, t, s, r) : lg[b].kind = "FlowUpdated"
  BY DEF Blocks, IsOf
<1>3. \A b \in Blocks(lg, t, s, r) : FlowOK(lg[b]) /\ lg[b].block = b
  BY <1>1, <1>2 DEF LogOK
<1> QED BY <1>1, <1>2, <1>3 DEF FlowOK

\* The rate in block b is what the last event up to b says.
LEMMA RateOfIs ==
  ASSUME NEW lg, LogOK(lg), NEW t, NEW s, NEW r, NEW b,
         NEW B, B = {d \in Blocks(lg, t, s, r) : d <= b}
  PROVE  /\ RateOf(lg, b, t, s, r) \in Nat
         /\ B = {} => RateOf(lg, b, t, s, r) = 0
         /\ \A c : IsLast(c, B) => RateOf(lg, b, t, s, r) = lg[c].flowRate
<1>1. RateOf(lg, b, t, s, r) = IF B = {} THEN 0 ELSE lg[Max(B)].flowRate
  BY DEF RateOf
<1>2. Len(lg) \in Nat /\ B \subseteq 1..Len(lg) /\ \A d \in B : lg[d].flowRate \in Nat
  BY FlowEvents
<1>3. CASE B = {}
  BY <1>1, <1>3 DEF IsLast
<1>4. CASE B # {}
  <2>1. IsLast(Max(B), B)
    BY <1>2, <1>4, LastOf
  <2>2. \A c : IsLast(c, B) => c = Max(B)
    BY <1>2, <2>1, LastIsOne
  <2>3. Max(B) \in B
    BY <2>1 DEF IsLast
  <2> QED BY <1>1, <1>2, <1>4, <2>2, <2>3
<1> QED BY <1>3, <1>4

\* The past stays as it was when the chain goes on.
LEMMA RateOfKept ==
  ASSUME NEW lg, LogOK(lg), NEW e, NEW t, NEW s, NEW r, NEW b \in Int, b <= Len(lg)
  PROVE  RateOf(Append(lg, e), b, t, s, r) = RateOf(lg, b, t, s, r)
<1> DEFINE new == Append(lg, e)
           h == Len(lg)
           B == {d \in Blocks(lg, t, s, r) : d <= b}
<1>1. h \in Nat /\ \A d \in 1..h : new[d] = lg[d]
  BY AppendIs DEF LogOK, Listed
<1>2. /\ Blocks(lg, t, s, r) \subseteq 1..h
      /\ \/ Blocks(new, t, s, r) = Blocks(lg, t, s, r) \cup {h + 1}
         \/ Blocks(new, t, s, r) = Blocks(lg, t, s, r)
  BY BlocksGrow
<1>3. b <= h
  OBVIOUS
<1> HIDE DEF new, h
<1>4. {d \in Blocks(new, t, s, r) : d <= b} = B
  BY <1>1, <1>2, <1>3
<1>5. B \subseteq 1..h
  BY <1>2
<1>6. RateOf(new, b, t, s, r) = IF B = {} THEN 0 ELSE new[Max(B)].flowRate
  BY <1>4 DEF RateOf
<1>7. RateOf(lg, b, t, s, r) = IF B = {} THEN 0 ELSE lg[Max(B)].flowRate
  BY DEF RateOf
<1> HIDE DEF B
<1>8. B # {} => Max(B) \in 1..h
  BY <1>1, <1>5, LastOf DEF IsLast
<1>9. RateOf(new, b, t, s, r) = RateOf(lg, b, t, s, r)
  BY <1>1, <1>6, <1>7, <1>8
<1> QED BY <1>9 DEF new

LEMMA FlowedKept ==
  ASSUME NEW lg, LogOK(lg), NEW e, NEW t, NEW s, NEW r,
         NEW from \in Int, NEW to \in Int, to <= Len(lg) + 1
  PROVE  Flowed(Append(lg, e), from, to, t, s, r) = Flowed(lg, from, to, t, s, r)
<1>1. Len(lg) \in Nat
  BY DEF LogOK, Listed
<1>2. \A b \in from..(to - 1) : b \in Int /\ b <= Len(lg)
  BY <1>1
<1>3. \A b \in from..(to - 1) : RateOf(Append(lg, e), b, t, s, r) = RateOf(lg, b, t, s, r)
  BY <1>2, RateOfKept
<1>4. [b \in from..(to - 1) |-> RateOf(Append(lg, e), b, t, s, r)]
        = [b \in from..(to - 1) |-> RateOf(lg, b, t, s, r)]
  BY <1>3
<1> QED BY <1>4 DEF Flowed

LEMMA HistoryKept ==
  ASSUME NEW lg, LogOK(lg), NEW e, NEW flows, NEW B, NEW a, NEW t, NEW s, NEW r,
         B \subseteq Blocks(lg, t, s, r), History(lg, flows, B, a, t, s, r)
  PROVE  History(Append(lg, e), flows, B, a, t, s, r)
<1> DEFINE new == Append(lg, e)
           h == Len(lg)
           E == EntriesAt(flows, a, t, s, r)
<1>1. h \in Nat /\ B \subseteq 1..h
  BY FlowEvents
<1>2. \A b \in 1..h : new[b] = lg[b]
  BY AppendIs DEF LogOK
<1>3. /\ {flows[i].creationTimestamp : i \in E} = Opened(lg, B, t, s, r)
      /\ \A i, j \in E : flows[i].creationTimestamp = flows[j].creationTimestamp => i = j
      /\ \A i \in E : Exact(lg, flows[i], B, t, s, r)
  BY DEF History
<1>4. Opened(new, B, t, s, r) = Opened(lg, B, t, s, r)
  <2>1. \A b \in B : b - 1 \in Int /\ b - 1 <= Len(lg)
    BY <1>1
  <2>2. \A b \in B : RateOf(new, b - 1, t, s, r) = RateOf(lg, b - 1, t, s, r)
    BY <2>1, RateOfKept
  <2> HIDE DEF new
  <2> QED BY <2>2 DEF Opened
<1>5. ASSUME NEW i \in E PROVE Exact(new, flows[i], B, t, s, r)
  <2> DEFINE f == flows[i]
  <2>1. Exact(lg, f, B, t, s, r)
    BY <1>3
  <2>2. f.creationTimestamp \in B
    BY <1>3 DEF Opened
  <2> HIDE DEF f
  <2>3. f.lastTimestamp \in 1..h /\ f.creationTimestamp \in 1..h
    BY <1>1, <2>1, <2>2 DEF Exact
  <2>4. /\ f.creationTimestamp \in Int /\ f.lastTimestamp \in Int
        /\ f.lastTimestamp <= Len(lg) + 1
    BY <1>1, <2>3
  <2>5. Flowed(new, f.creationTimestamp, f.lastTimestamp, t, s, r)
          = Flowed(lg, f.creationTimestamp, f.lastTimestamp, t, s, r)
    BY <2>4, FlowedKept
  <2>6. new[f.lastTimestamp] = lg[f.lastTimestamp]
    BY <1>2, <2>3
  <2> HIDE DEF new
  <2>7. Exact(new, f, B, t, s, r)
    BY <2>1, <2>5, <2>6 DEF Exact
  <2> QED BY <2>7 DEF f
<1> HIDE DEF new
<1>6. History(new, flows, B, a, t, s, r)
  BY <1>3, <1>4, <1>5 DEF History
<1> QED BY <1>6 DEF new

\* Between two events the flow streams at the rate of the first.
LEMMA FlowedMore ==
  ASSUME NEW lg, LogOK(lg), NEW t, NEW s, NEW r, NEW b \in Nat, NEW c \in Nat, NEW l, c <= l,
         IsLast(l, {d \in Blocks(lg, t, s, r) : d < b})
  PROVE  Flowed(lg, c, b, t, s, r)
           = Flowed(lg, c, l, t, s, r) + (b - l) * lg[l].flowRate
<1> DEFINE B == Blocks(lg, t, s, r)
           f == [x \in Int |-> RateOf(lg, x, t, s, r)]
           n == lg[l].flowRate
<1>1. B \subseteq Nat /\ l \in B /\ l < b /\ (\A d \in B : d < b => d <= l) /\ n \in Nat
  BY FlowEvents DEF IsLast
<1>2. l \in Nat /\ l <= b
  BY <1>1
<1>3. ASSUME NEW x \in l..(b - 1) PROVE f[x] = n
  <2>1. x \in Int /\ l <= x /\ x < b
    BY <1>2
  <2>2. \A d \in B : d <= x => d < b
    BY <1>1, <2>1
  <2>3. IsLast(l, {d \in B : d <= x})
    BY <1>1, <2>1, <2>2 DEF IsLast
  <2>4. RateOf(lg, x, t, s, r) = lg[l].flowRate
    BY <2>3, RateOfIs
  <2> QED BY <2>1, <2>4
<1>4. \A x \in Int : f[x] \in Int
  <2>1. \A x \in Int : RateOf(lg, x, t, s, r) \in Nat
    BY RateOfIs
  <2> QED BY <2>1
<1>5. ASSUME NEW y \in Int
      PROVE  Flowed(lg, c, y, t, s, r) = SumFunctionOnSet(f, c..(y - 1))
  <2> DEFINE S == c..(y - 1)
             g == [x \in S |-> RateOf(lg, x, t, s, r)]
  <2>1. IsFiniteSet(S) /\ \A x \in S : g[x] = f[x]
    BY FS_Interval
  <2>2. Flowed(lg, c, y, t, s, r) = SumFunctionOnSet(g, S)
    BY DEF Flowed, SumFunction
  <2> HIDE DEF g, f, S
  <2>3. SumFunctionOnSet(g, S) = SumFunctionOnSet(f, S)
    BY <2>1, SumSame
  <2> QED BY <2>2, <2>3 DEF S
<1> HIDE DEF f, n
<1>6. SumFunctionOnSet(f, c..(b - 1)) = SumFunctionOnSet(f, c..(l - 1)) + (b - l) * n
  <2>1. \A x \in c..(b - 1) : f[x] \in Int
    BY <1>4
  <2> QED BY <1>1, <1>2, <1>3, <2>1, SumSteady
<1> QED BY <1>2, <1>5, <1>6 DEF n

\* The rate just before an event of the flow is the one the list shows.
LEMMA RateBefore ==
  ASSUME NEW lg, LogOK(lg), NEW t, NEW s, NEW r, NEW b \in Blocks(lg, t, s, r), NEW flows, NEW a,
         UpToDate(lg, flows, {d \in Blocks(lg, t, s, r) : d < b}, a, t, s, r)
  PROVE  Shows(flows, RateOf(lg, b - 1, t, s, r), a, t, s, r)
<1> DEFINE B == Blocks(lg, t, s, r)
           D == {d \in B : d < b}
           n == RateOf(lg, b - 1, t, s, r)
<1>1. Len(lg) \in Nat /\ B \subseteq 1..Len(lg)
  BY FlowEvents
<1>2. D = {d \in B : d <= b - 1} /\ D \subseteq 1..Len(lg)
  BY <1>1
<1>3. (D = {} => n = 0) /\ \A c : IsLast(c, D) => n = lg[c].flowRate
  <2> HIDE DEF D
  <2> QED BY <1>2, RateOfIs
<1>4. UpToDate(lg, flows, D, a, t, s, r)
  OBVIOUS
<1> HIDE DEF B, D, n
<1>5. CASE D = {}
  BY <1>3, <1>4, <1>5 DEF UpToDate, Shows, n
<1>6. CASE D # {}
  <2>1. IsLast(Max(D), D)
    BY <1>1, <1>2, <1>6, LastOf
  <2> QED BY <1>3, <1>4, <2>1 DEF UpToDate, n
<1> QED BY <1>5, <1>6

\* An event opens an entry exactly if the flow was at rest, and the entry it is for gets exactly what
\* was streamed since the last one.
LEMMA HistoryUpdated ==
  ASSUME NEW lg, LogOK(lg), NEW state, StateOK(state), Unique(state.flows),
         NEW t, NEW s, NEW r, NEW b \in Blocks(lg, t, s, r), Concerns(lg[b], state.agentAddress),
         UpToDate(lg, state.flows, {d \in Blocks(lg, t, s, r) : d < b}, state.agentAddress, t, s, r)
  PROVE  History(lg, updateFlows(state, lg[b], lg[b].block),
                 {d \in Blocks(lg, t, s, r) : d < b} \cup {b}, state.agentAddress, t, s, r)
<1> DEFINE e == lg[b]
           old == state.flows
           new == updateFlows(state, e, e.block)
           a == state.agentAddress
           n == Len(old)
           f == NewFlow(a, e, e.block)
           D == {d \in Blocks(lg, t, s, r) : d < b}
           C == D \cup {b}
           E == EntriesAt(old, a, t, s, r)
           N == EntriesAt(new, a, t, s, r)
           before == RateOf(lg, b - 1, t, s, r)
<1>1. old \in Seq(Entry) /\ a \in Agents /\ (\A i \in DOMAIN old : old[i].entity # a) /\ Unique(old)
  BY DEF StateOK
<1>2. /\ e.kind = "FlowUpdated" /\ FlowOK(e) /\ e.block = b /\ e.flowRate \in Nat /\ b \in Nat
      /\ IsOf(e, t, s, r) /\ Concerns(e, a) /\ s # r /\ D \subseteq Nat
  <2>1. e.kind = "FlowUpdated" /\ FlowOK(e) /\ e.block = b /\ b \in Nat /\ D \subseteq Nat
    BY FlowEvents
  <2>2. IsOf(e, t, s, r) /\ Concerns(e, a)
    BY DEF Blocks
  <2> QED BY <2>1, <2>2 DEF FlowOK, IsOf
<1>3. Appended(old, new, a, e) \/ \E i \in 1..n, g \in Entry : Replaced(old, new, i, g, e)
  BY <1>2, FlowsUpdated
<1>4. Shows(old, before, a, t, s, r)
  BY RateBefore
<1>5. /\ {old[i].creationTimestamp : i \in E} = Opened(lg, D, t, s, r)
      /\ \A i, j \in E : old[i].creationTimestamp = old[j].creationTimestamp => i = j
      /\ \A i \in E : Exact(lg, old[i], D, t, s, r)
  BY DEF UpToDate, History
<1>6. \A d \in D : d < b
  OBVIOUS
<1>7. \A c \in Nat : \A l : c <= l /\ IsLast(l, D) =>
        Flowed(lg, c, b, t, s, r) = Flowed(lg, c, l, t, s, r) + (b - l) * lg[l].flowRate
  BY <1>2, FlowedMore
<1> HIDE DEF old, new, a, D, e, before
<1>8. IsLast(b, C) /\ e = lg[b]
  <2>1. b <= b /\ \A d \in D : d <= b
    BY <1>2, <1>6
  <2> QED BY <2>1 DEF IsLast, e
<1>9. Opened(lg, C, t, s, r) = Opened(lg, D, t, s, r) \cup (IF before = 0 THEN {b} ELSE {})
  BY DEF Opened, before
<1>10. Listed(old) /\ n \in Nat /\ DOMAIN old = 1..n /\ \A i \in 1..n : old[i] \in Entry
  BY <1>1, SeqListed
<1>11. \A i \in 1..n : isFlowEqual(old[i], e) <=> IsOpen(old[i], a, t, s, r)
  BY <1>1, <1>2, <1>10, EqualIsOpen
<1>12. \A i \in E : old[i].creationTimestamp \in D
  BY <1>5 DEF Opened
<1>13. ASSUME NEW i \in E, old[i].isCancelled PROVE Exact(lg, old[i], C, t, s, r)
  BY <1>5, <1>13 DEF Exact
<1>14. CASE Appended(old, new, a, e)
  <2>1. OpenAt(old, a, t, s, r) = {}
    BY <1>11, <1>14 DEF Appended, OpenAt
  <2>2. before = 0
    BY <1>4, <2>1 DEF Shows
  <2>3. /\ InFlow(f, a, t, s, r) /\ f.flowRate = e.flowRate /\ f.accumulatedAmount = 0
        /\ f.creationTimestamp = b /\ f.lastTimestamp = b
    BY <1>1, <1>2, NewIsOpen, NewEntry DEF Concerns, IsOpen
  <2>4. new = Append(old, f)
    BY <1>14 DEF Appended
  <2> HIDE DEF f
  <2>5. Len(new) = n + 1 /\ new[n + 1] = f /\ \A i \in 1..n : new[i] = old[i]
    BY <1>10, <2>4, AppendIs
  <2>6. 1..(n + 1) = 1..n \cup {n + 1} /\ E \subseteq 1..n /\ n + 1 \notin 1..n
    BY <1>10 DEF EntriesAt
  <2>7. N = E \cup {n + 1}
    <3>1. E = {i \in 1..n : InFlow(old[i], a, t, s, r)}
      BY DEF EntriesAt
    <3>2. N = {i \in 1..(n + 1) : InFlow(new[i], a, t, s, r)}
      BY <2>5 DEF EntriesAt
    <3> HIDE DEF E, N, n
    <3> QED BY <2>3, <2>5, <2>6, <3>1, <3>2
  <2> HIDE DEF E, N, n, C
  <2>8. /\ new[n + 1].creationTimestamp = b
        /\ \A i \in E : new[i] = old[i] /\ new[i].creationTimestamp # b
    <3>1. \A i \in E : new[i] = old[i]
      BY <2>5, <2>6
    <3>2. \A i \in E : old[i].creationTimestamp \in Nat /\ old[i].creationTimestamp < b
      BY <1>2, <1>6, <1>12
    <3>3. \A i \in E : old[i].creationTimestamp # b
      BY <1>2, <3>2
    <3> QED BY <2>3, <2>5, <3>1, <3>3
  <2>9. {new[i].creationTimestamp : i \in N} = Opened(lg, C, t, s, r)
    <3>1. {new[i].creationTimestamp : i \in N} = {old[i].creationTimestamp : i \in E} \cup {b}
      BY <2>7, <2>8
    <3> QED BY <1>5, <1>9, <2>2, <3>1
  <2>10. \A i, j \in N : new[i].creationTimestamp = new[j].creationTimestamp => i = j
    BY <1>5, <2>7, <2>8
  <2>11. Exact(lg, f, C, t, s, r)
    <3>1. Flowed(lg, b, b, t, s, r) = 0
      <4>1. b..(b - 1) = {}
        BY <1>2
      <4>2. DOMAIN [x \in {} |-> RateOf(lg, x, t, s, r)] = {}
        OBVIOUS
      <4> QED BY <4>1, <4>2, SumOfNone DEF Flowed, SumFunction
    <3>2. b \in C /\ b <= b
      BY <1>2, <1>8 DEF IsLast
    <3> QED BY <1>8, <2>3, <3>1, <3>2 DEF Exact
  <2>12. ASSUME NEW i \in N PROVE Exact(lg, new[i], C, t, s, r)
    <3>1. CASE i = n + 1
      BY <2>5, <2>11, <3>1
    <3>2. CASE i \in E
      <4>1. old[i].isCancelled
        BY <2>1, <3>2 DEF OpenAt, IsOpen, EntriesAt, E
      <4> QED BY <1>13, <2>8, <3>2, <4>1
    <3> QED BY <2>7, <3>1, <3>2
  <2> QED BY <2>9, <2>10, <2>12 DEF History, N, C, D, new, old, a, e
<1>15. ASSUME NEW k \in 1..n, NEW g \in Entry, Replaced(old, new, k, g, e)
       PROVE  History(lg, new, C, a, t, s, r)
  <2>1. /\ new = [old EXCEPT ![k] = g] /\ isFlowEqual(old[k], e) /\ SameFlow(g, old[k])
        /\ e.flowRate > 0 => g.flowRate = e.flowRate
        /\ ~(e.flowRate > 0) => g.isCancelled
        /\ g.creationTimestamp = old[k].creationTimestamp /\ g.lastTimestamp = b
        /\ g.accumulatedAmount = calculateNewAccumulatedAmount(old[k], b)
    BY <1>2, <1>15 DEF Replaced
  <2>2. Len(new) = n /\ new[k] = g /\ \A i \in 1..n : i # k => new[i] = old[i]
    <3>1. Len(new) = n
      BY <1>1, <2>1, ExceptSeq
    <3> QED BY <1>10, <2>1, <3>1
  <2>3. IsOpen(old[k], a, t, s, r) /\ InFlow(old[k], a, t, s, r)
    BY <1>11, <2>1 DEF IsOpen
  <2>4. k \in OpenAt(old, a, t, s, r) /\ k \in E
    BY <2>3 DEF OpenAt, EntriesAt
  <2>5. before # 0
    BY <1>4, <2>4 DEF Shows
  <2>6. InFlow(g, a, t, s, r)
    BY <2>1, <2>3, SameInFlow
  <2>7. \A i \in 1..n : InFlow(new[i], a, t, s, r) <=> InFlow(old[i], a, t, s, r)
    BY <2>2, <2>3, <2>6
  <2>8. N = E /\ E \subseteq 1..n
    BY <2>2, <2>7 DEF EntriesAt
  <2>9. ASSUME NEW i \in E, i # k PROVE old[i].isCancelled
    <3>1. i \in 1..n /\ InFlow(old[i], a, t, s, r)
      BY DEF EntriesAt
    <3>2. SUFFICES ASSUME ~old[i].isCancelled PROVE FALSE
      OBVIOUS
    <3>3. IsOpen(old[i], a, t, s, r)
      BY <3>1, <3>2 DEF IsOpen
    <3>4. SameFlow(old[i], old[k])
      BY <1>2, <1>10, <2>3, <3>1, <3>3, OpenSameFlow
    <3> QED BY <1>1, <2>3, <2>9, <3>1, <3>2, <3>4 DEF Unique, IsOpen
  <2> HIDE DEF E, N, n, C
  <2>10. \A i \in E : new[i].creationTimestamp = old[i].creationTimestamp
    BY <2>1, <2>2, <2>8
  <2>11. {new[i].creationTimestamp : i \in N} = Opened(lg, C, t, s, r)
    <3>1. {new[i].creationTimestamp : i \in N} = {old[i].creationTimestamp : i \in E}
      BY <2>8, <2>10
    <3> QED BY <1>5, <1>9, <2>5, <3>1
  <2>12. \A i, j \in N : new[i].creationTimestamp = new[j].creationTimestamp => i = j
    BY <1>5, <2>8, <2>10
  <2>13. Exact(lg, g, C, t, s, r)
    <3> DEFINE h == old[k]
               c == h.creationTimestamp
               l == h.lastTimestamp
    <3>1. Exact(lg, h, D, t, s, r) /\ ~h.isCancelled /\ c \in D
      BY <1>5, <1>12, <2>3, <2>4 DEF IsOpen
    <3>2. /\ IsLast(l, D) /\ c <= l /\ h.flowRate = lg[l].flowRate
          /\ h.accumulatedAmount = Flowed(lg, c, l, t, s, r)
      BY <3>1 DEF Exact
    <3>3. h \in Entry
      BY <1>10 DEF n
    <3>4. c \in Nat /\ l \in Nat /\ l < b /\ h.flowRate \in Nat /\ h.accumulatedAmount \in Int
      BY <1>6, <3>2, <3>3 DEF Entry, IsLast
    <3>5. g.accumulatedAmount = (b - l) * h.flowRate + h.accumulatedAmount
      BY <2>1 DEF calculateNewAccumulatedAmount
    <3>6. g.creationTimestamp = c
      BY <2>1
    <3> HIDE DEF h, c, l
    <3>7. Flowed(lg, c, b, t, s, r) = Flowed(lg, c, l, t, s, r) + (b - l) * lg[l].flowRate
      BY <1>7, <3>2, <3>4
    <3>8. Flowed(lg, c, b, t, s, r) = h.accumulatedAmount + (b - l) * h.flowRate
      BY <3>2, <3>7
    <3>9. g.accumulatedAmount = Flowed(lg, c, b, t, s, r)
      BY <1>2, <3>4, <3>5, <3>8
    <3>10. c <= b /\ b \in C
      BY <1>2, <1>8, <3>2, <3>4 DEF IsLast
    <3>11. ~g.isCancelled => g.flowRate = lg[b].flowRate
      BY <1>8, <2>1
    <3> QED BY <1>8, <2>1, <3>6, <3>9, <3>10, <3>11 DEF Exact
  <2>14. ASSUME NEW i \in N PROVE Exact(lg, new[i], C, t, s, r)
    <3>1. CASE i = k
      BY <2>2, <2>13, <3>1
    <3>2. CASE i # k
      BY <1>13, <2>2, <2>8, <2>9, <3>2
    <3> QED BY <3>1, <3>2
  <2> QED BY <2>11, <2>12, <2>14 DEF History, N
<1> QED BY <1>3, <1>14, <1>15 DEF C, D, new, old, a, e

-----------------------------------------------------------------------------
(* One flow, followed: the chain goes on, events are emitted and reduced.   *)

LEMMA ReducedBlocks ==
  ASSUME NEW lg, NEW q, NEW front, NEW t, NEW s, NEW r
  PROVE  Reduced(lg, q, front, t, s, r) \subseteq Blocks(lg, t, s, r)
  BY DEF Reduced

\* A new block is ahead of every subscription.
LEMMA ChainGoesOn ==
  ASSUME NEW lg, LogOK(lg), NEW e, NEW q, NEW flows, NEW a, NEW t, NEW s, NEW r,
         NEW front \in Nat, front <= Len(lg) + 1,
         FlowFollowed(lg, q, flows, front, a, t, s, r)
  PROVE  FlowFollowed(Append(lg, e), q, flows, front, a, t, s, r)
<1> DEFINE new == Append(lg, e)
           h == Len(lg)
           B == Blocks(lg, t, s, r)
           C == Blocks(new, t, s, r)
           D == Reduced(lg, q, front, t, s, r)
           P == Places(q, t, s, r)
<1>1. h \in Nat /\ \A b \in 1..h : new[b] = lg[b]
  BY AppendIs DEF LogOK, Listed
<1>2. B \subseteq 1..h /\ (C = B \cup {h + 1} \/ C = B)
  BY BlocksGrow
<1>3. \A b \in B : new[b] = lg[b]
  BY <1>1, <1>2
<1>4. ~(h + 1 < front) /\ front <= h + 1
  BY <1>1
<1> HIDE DEF h, new
<1>5. {b \in C : b < front} = {b \in B : b < front}
  BY <1>2, <1>4
<1>6. Reduced(new, q, front, t, s, r) = D
  BY <1>5 DEF Reduced
<1>7. InOrder(lg, q, front, t, s, r) /\ UpToDate(lg, flows, D, a, t, s, r) /\ B \subseteq C
  BY <1>2 DEF FlowFollowed
<1>8. D \subseteq B
  BY ReducedBlocks
<1> HIDE DEF B, C, D, P
<1>9. InOrder(new, q, front, t, s, r)
  <2>1. ASSUME NEW i \in P
        PROVE  /\ q[i].block \in C /\ q[i].block < front /\ q[i] = new[q[i].block]
               /\ \A b \in D : b < q[i].block
               /\ \A j \in P : i < j => q[i].block < q[j].block
    <3>1. /\ q[i].block \in B /\ q[i].block < front /\ q[i] = lg[q[i].block]
          /\ \A b \in D : b < q[i].block
          /\ \A j \in P : i < j => q[i].block < q[j].block
      BY <1>7, <2>1 DEF InOrder, B, D, P
    <3>2. new[q[i].block] = lg[q[i].block]
      BY <1>3, <3>1
    <3> QED BY <1>7, <3>1, <3>2
  <2> QED BY <1>6, <2>1 DEF InOrder, C, P
<1>10. UpToDate(new, flows, D, a, t, s, r)
  <2>1. D = {} => OpenAt(flows, a, t, s, r) = {}
    BY <1>7 DEF UpToDate
  <2>2. ASSUME NEW b, IsLast(b, D) PROVE Shows(flows, new[b].flowRate, a, t, s, r)
    <3>1. b \in D
      BY <2>2 DEF IsLast
    <3>2. new[b] = lg[b]
      BY <1>3, <1>8, <3>1
    <3>3. Shows(flows, lg[b].flowRate, a, t, s, r)
      BY <1>7, <2>2 DEF UpToDate
    <3> QED BY <3>2, <3>3
  <2>3. History(new, flows, D, a, t, s, r)
    BY <1>7, <1>8, HistoryKept DEF UpToDate, B, new
  <2> QED BY <2>1, <2>2, <2>3 DEF UpToDate
<1> QED BY <1>6, <1>9, <1>10 DEF FlowFollowed, new

\* The list u holds the flow's events from one frontier to the next, in the chain's order.
Emits(lg, u, front, next, t, s, r) ==
  /\ \A b \in Blocks(lg, t, s, r) : b < front => b < next
  /\ \A i \in Places(u, t, s, r) :
       /\ u[i].block \in Blocks(lg, t, s, r) /\ u[i] = lg[u[i].block]
       /\ front <= u[i].block /\ u[i].block < next
       /\ \A j \in Places(u, t, s, r) : i < j => u[i].block < u[j].block
  /\ \A b \in Blocks(lg, t, s, r) :
       front <= b /\ b < next => \E i \in Places(u, t, s, r) : u[i].block = b

LEMMA EventsEmitted ==
  ASSUME NEW lg, LogOK(lg), NEW q, Listed(q), NEW u, Listed(u), NEW flows,
         NEW a, NEW t, NEW s, NEW r, NEW front \in Nat, NEW next \in Nat,
         Emits(lg, u, front, next, t, s, r),
         FlowFollowed(lg, q, flows, front, a, t, s, r)
  PROVE  FlowFollowed(lg, q \o u, flows, next, a, t, s, r)
<1> DEFINE new == q \o u
           n == Len(q)
           B == Blocks(lg, t, s, r)
           D == Reduced(lg, q, front, t, s, r)
           P == Places(q, t, s, r)
           U == Places(u, t, s, r)
           N == Places(new, t, s, r)
<1>1. /\ n \in Nat
      /\ \A i \in 1..n : new[i] = q[i]
      /\ \A i \in 1..Len(u) : new[n + i] = u[i]
      /\ \A i \in 1..Len(new) : i \in 1..n \/ (i - n \in 1..Len(u) /\ new[i] = u[i - n])
      /\ Len(new) = n + Len(u) /\ Len(u) \in Nat
  BY ConcatIs DEF Listed
<1>2. B \subseteq Nat
  BY DEF Blocks, LogOK, Listed
<1>3. \A i \in P : i \in 1..n /\ new[i] = q[i] /\ i \in N
  <2>1. 1..n \subseteq 1..Len(new)
    BY <1>1
  <2> QED BY <1>1, <2>1 DEF Places
<1>4. \A i \in U : i \in 1..Len(u) /\ new[n + i] = u[i] /\ n + i \in N
  <2>1. \A i \in 1..Len(u) : n + i \in 1..Len(new)
    BY <1>1
  <2> QED BY <1>1, <2>1 DEF Places
<1>5. \A i \in N : i \in P \/ (i - n \in U /\ new[i] = u[i - n])
  BY <1>1 DEF Places
<1>6. \A i \in P : /\ q[i].block \in B /\ q[i].block < front /\ q[i] = lg[q[i].block]
                   /\ \A b \in D : b < q[i].block
                   /\ \A j \in P : i < j => q[i].block < q[j].block
  BY DEF FlowFollowed, InOrder
<1>7. UpToDate(lg, flows, D, a, t, s, r)
  BY DEF FlowFollowed
<1>8. /\ \A b \in B : b < front => b < next
      /\ \A i \in U : /\ u[i].block \in B /\ u[i] = lg[u[i].block]
                      /\ front <= u[i].block /\ u[i].block < next
                      /\ \A j \in U : i < j => u[i].block < u[j].block
      /\ \A b \in B : front <= b /\ b < next => \E i \in U : u[i].block = b
  BY DEF Emits
<1>9. D = {b \in B : b < front /\ \A i \in P : q[i].block # b}
  BY DEF Reduced
<1>10. Reduced(lg, new, next, t, s, r) = {b \in B : b < next /\ \A i \in N : new[i].block # b}
  BY DEF Reduced
<1> HIDE DEF new, n, B, D, P, U, N
<1>11. ASSUME NEW b \in B
       PROVE  b < next /\ (\A i \in N : new[i].block # b) <=> b \in D
  <2>1. ASSUME b < next, \A i \in N : new[i].block # b PROVE b \in D
    <3>1. \A i \in P : q[i].block # b
      BY <1>3, <2>1
    <3>2. \A i \in U : u[i].block # b
      BY <1>4, <2>1
    <3>3. ~(front <= b)
      BY <1>8, <2>1, <3>2
    <3>4. b < front
      BY <1>2, <3>3
    <3> QED BY <1>9, <3>1, <3>4
  <2>2. ASSUME b \in D PROVE b < next /\ \A i \in N : new[i].block # b
    <3>1. b < front /\ b < next /\ \A i \in P : q[i].block # b
      BY <1>8, <1>9, <2>2
    <3>2. \A i \in U : u[i].block # b
      BY <1>2, <1>8, <3>1
    <3> QED BY <1>3, <1>5, <3>1, <3>2
  <2> QED BY <2>1, <2>2
<1>12. Reduced(lg, new, next, t, s, r) = D
  BY <1>9, <1>10, <1>11
<1>13. \A b \in D : b \in B /\ b < front
  BY <1>9
<1>14. ASSUME NEW i \in N
       PROVE  /\ new[i].block \in B /\ new[i].block < next /\ new[i] = lg[new[i].block]
              /\ \A b \in D : b < new[i].block
              /\ \A j \in N : i < j => new[i].block < new[j].block
  <2>1. CASE i \in P
    <3>1. new[i] = q[i] /\ i \in 1..n
      BY <1>3, <2>1
    <3>2. ASSUME NEW j \in N, i < j PROVE q[i].block < new[j].block
      <4>1. CASE j \in P
        BY <1>3, <1>6, <2>1, <3>2, <4>1
      <4>2. CASE j - n \in U /\ new[j] = u[j - n]
        <5>1. q[i].block < front /\ front <= new[j].block /\ q[i].block \in B /\ new[j].block \in B
          BY <1>6, <1>8, <2>1, <4>2
        <5> DEFINE x == q[i].block
                   y == new[j].block
        <5> HIDE DEF x, y
        <5>2. x \in Nat /\ y \in Nat /\ x < front /\ front <= y
          BY <1>2, <5>1 DEF x, y
        <5>3. x < y
          BY <5>2
        <5> QED BY <5>3 DEF x, y
      <4> QED BY <1>5, <4>1, <4>2
    <3> QED BY <1>6, <1>8, <2>1, <3>1, <3>2
  <2>2. CASE i \notin P
    <3>1. i - n \in U /\ new[i] = u[i - n]
      BY <1>5, <2>2
    <3>2. /\ new[i].block \in B /\ new[i] = lg[new[i].block]
          /\ front <= new[i].block /\ new[i].block < next
      BY <1>8, <3>1
    <3>3. \A b \in D : b < new[i].block
      <4>1. \A b \in D : b \in Nat /\ b < front
        BY <1>2, <1>13
      <4>2. new[i].block \in Nat
        BY <1>2, <3>2
      <4> DEFINE x == new[i].block
      <4> HIDE DEF x
      <4>3. x \in Nat /\ front <= x
        BY <3>2, <4>2 DEF x
      <4>4. \A b \in D : b < x
        BY <4>1, <4>3
      <4> QED BY <4>4 DEF x
    <3>4. ASSUME NEW j \in N, i < j PROVE new[i].block < new[j].block
      <4>1. i \in Int /\ j \in Int
        BY DEF N, Places
      <4>2. ~(i <= n)
        <5>1. i - n \in 1..Len(u)
          BY <1>4, <3>1
        <5> QED BY <1>1, <4>1, <5>1
      <4>3. j \notin P
        <5>1. ~(j <= n)
          BY <1>1, <3>4, <4>1, <4>2
        <5> QED BY <1>1, <1>3, <5>1
      <4>4. j - n \in U /\ new[j] = u[j - n]
        BY <1>5, <4>3
      <4>5. i - n < j - n
        BY <1>1, <3>4, <4>1
      <4> QED BY <1>8, <3>1, <4>4, <4>5
    <3> QED BY <3>2, <3>3, <3>4
  <2> QED BY <2>1, <2>2
<1>15. InOrder(lg, new, next, t, s, r)
  BY <1>12, <1>14 DEF InOrder, N, B
<1> QED BY <1>7, <1>12, <1>15 DEF FlowFollowed, new

\* The places of a flow's events when the head of the queue has been taken.
LEMMA TailPlaces ==
  ASSUME NEW q, Listed(q), q # <<>>, NEW t, NEW s, NEW r
  PROVE  /\ \A i \in Places(Tail(q), t, s, r) : i + 1 \in Places(q, t, s, r) /\ Tail(q)[i] = q[i + 1]
         /\ \A i \in Places(q, t, s, r) :
              i # 1 => i - 1 \in Places(Tail(q), t, s, r) /\ Tail(q)[i - 1] = q[i]
         /\ 1 \in Places(q, t, s, r) <=> IsOf(Head(q), t, s, r)
         /\ Head(q) = q[1]
         /\ Places(q, t, s, r) \subseteq Nat /\ \A i \in Places(q, t, s, r) : 1 <= i
         /\ Places(Tail(q), t, s, r) \subseteq Nat /\ \A i \in Places(Tail(q), t, s, r) : 1 <= i
<1>1. /\ 1 \in 1..Len(q) /\ Head(q) = q[1] /\ Len(Tail(q)) = Len(q) - 1
      /\ \A i \in 1..Len(Tail(q)) : i + 1 \in 1..Len(q) /\ Tail(q)[i] = q[i + 1]
      /\ \A i \in 1..Len(q) : i # 1 => i - 1 \in 1..Len(Tail(q)) /\ Tail(q)[i - 1] = q[i]
  BY TailIs
<1>2. \A i \in Places(Tail(q), t, s, r) : i + 1 \in Places(q, t, s, r) /\ Tail(q)[i] = q[i + 1]
  BY <1>1 DEF Places
<1>3. \A i \in Places(q, t, s, r) :
        i # 1 => i - 1 \in Places(Tail(q), t, s, r) /\ Tail(q)[i - 1] = q[i]
  BY <1>1 DEF Places
<1>4. 1 \in Places(q, t, s, r) <=> IsOf(Head(q), t, s, r)
  BY <1>1 DEF Places
<1>5. /\ Places(q, t, s, r) \subseteq Nat /\ \A i \in Places(q, t, s, r) : 1 <= i
      /\ Places(Tail(q), t, s, r) \subseteq Nat /\ \A i \in Places(Tail(q), t, s, r) : 1 <= i
  BY DEF Places
<1> QED BY <1>1, <1>2, <1>3, <1>4, <1>5

\* An event of something else is reduced.
LEMMA EventSkipped ==
  ASSUME NEW lg, NEW q, Listed(q), q # <<>>, NEW flows, NEW changed,
         NEW a, NEW t, NEW s, NEW r, NEW front,
         ~IsOf(Head(q), t, s, r), SameEntries(flows, changed, a, t, s, r),
         FlowFollowed(lg, q, flows, front, a, t, s, r)
  PROVE  FlowFollowed(lg, Tail(q), changed, front, a, t, s, r)
<1> DEFINE new == Tail(q)
           B == Blocks(lg, t, s, r)
           D == Reduced(lg, q, front, t, s, r)
           P == Places(q, t, s, r)
           N == Places(new, t, s, r)
<1>1. /\ \A i \in N : i + 1 \in P /\ new[i] = q[i + 1]
      /\ \A i \in P : i - 1 \in N /\ new[i - 1] = q[i]
      /\ N \subseteq Nat
  <2>1. /\ \A i \in N : i + 1 \in P /\ new[i] = q[i + 1]
        /\ \A i \in P : i # 1 => i - 1 \in N /\ new[i - 1] = q[i]
        /\ 1 \notin P /\ N \subseteq Nat
    BY TailPlaces
  <2> HIDE DEF new, P, N
  <2> QED BY <2>1
<1>2. \A i \in P : /\ q[i].block \in B /\ q[i].block < front /\ q[i] = lg[q[i].block]
                   /\ \A b \in D : b < q[i].block
                   /\ \A j \in P : i < j => q[i].block < q[j].block
  BY DEF FlowFollowed, InOrder
<1>3. UpToDate(lg, flows, D, a, t, s, r)
  BY DEF FlowFollowed
<1>4. D = {b \in B : b < front /\ \A i \in P : q[i].block # b}
  BY DEF Reduced
<1>5. Reduced(lg, new, front, t, s, r) = {b \in B : b < front /\ \A i \in N : new[i].block # b}
  BY DEF Reduced
<1> HIDE DEF new, B, D, P, N
<1>6. \A b : (\A i \in N : new[i].block # b) <=> (\A i \in P : q[i].block # b)
  BY <1>1
<1>7. Reduced(lg, new, front, t, s, r) = D
  BY <1>4, <1>5, <1>6
<1>8. ASSUME NEW i \in N
      PROVE  /\ new[i].block \in B /\ new[i].block < front /\ new[i] = lg[new[i].block]
             /\ \A b \in D : b < new[i].block
             /\ \A j \in N : i < j => new[i].block < new[j].block
  <2>1. i + 1 \in P /\ new[i] = q[i + 1]
    BY <1>1
  <2>2. ASSUME NEW j \in N, i < j PROVE new[i].block < new[j].block
    <3>1. j + 1 \in P /\ new[j] = q[j + 1] /\ i + 1 < j + 1
      BY <1>1, <2>2
    <3> QED BY <1>2, <2>1, <3>1
  <2> QED BY <1>2, <2>1, <2>2
<1>9. InOrder(lg, new, front, t, s, r)
  BY <1>7, <1>8 DEF InOrder, N, B
<1>10. UpToDate(lg, changed, D, a, t, s, r)
  <2>0. /\ OpenAt(changed, a, t, s, r) = OpenAt(flows, a, t, s, r)
        /\ \A i \in OpenAt(flows, a, t, s, r) : changed[i] = flows[i]
    BY SameEntriesOpen
  <2>1. D = {} => OpenAt(changed, a, t, s, r) = {}
    BY <1>3, <2>0 DEF UpToDate
  <2>2. ASSUME NEW b, IsLast(b, D) PROVE Shows(changed, lg[b].flowRate, a, t, s, r)
    <3>1. Shows(flows, lg[b].flowRate, a, t, s, r)
      BY <1>3, <2>2 DEF UpToDate
    <3> QED BY <2>0, <3>1 DEF Shows
  <2>3. History(lg, changed, D, a, t, s, r)
    BY <1>3 DEF UpToDate, History, SameEntries
  <2> QED BY <2>1, <2>2, <2>3 DEF UpToDate
<1> QED BY <1>7, <1>9, <1>10 DEF FlowFollowed, new

\* What is deleted is still listed: the event before the one at the head has been reduced.
LEMMA DeletedIsOpen ==
  ASSUME NEW lg, LogOK(lg), NEW q, Listed(q), q # <<>>, NEW flows,
         NEW a, NEW t, NEW s, NEW r, NEW front \in Nat,
         IsOf(Head(q), t, s, r), EndsRunning(lg, t, s, r),
         FlowFollowed(lg, q, flows, front, a, t, s, r),
         Head(q).flowRate = 0
  PROVE  OpenAt(flows, a, t, s, r) # {}
<1> DEFINE b == q[1].block
           B == Blocks(lg, t, s, r)
           D == Reduced(lg, q, front, t, s, r)
           P == Places(q, t, s, r)
<1>1. 1 \in P /\ Head(q) = q[1] /\ P \subseteq Nat /\ \A i \in P : 1 <= i
  BY TailPlaces
<1>2. \A i \in P : /\ q[i].block \in B /\ q[i].block < front /\ q[i] = lg[q[i].block]
                   /\ \A d \in D : d < q[i].block
                   /\ \A j \in P : i < j => q[i].block < q[j].block
  BY DEF FlowFollowed, InOrder
<1>3. B \subseteq Nat /\ \A d \in B : FlowOK(lg[d]) /\ lg[d].kind = "FlowUpdated"
  BY DEF Blocks, LogOK, Listed, IsOf
<1>4. b \in B /\ b < front /\ q[1] = lg[b] /\ \A d \in D : d < b
  BY <1>1, <1>2
<1>5. \A j \in P : j # 1 => b < q[j].block
  BY <1>1, <1>2
<1>6. D = {d \in B : d < front /\ \A i \in P : q[i].block # d}
  BY DEF Reduced
<1>7. lg[b].flowRate = 0
  BY <1>1, <1>4
<1>8. PICK c : IsLast(c, {d \in B : d < b}) /\ lg[c].flowRate > 0
  BY <1>4, <1>7 DEF EndsRunning
<1>9. UpToDate(lg, flows, D, a, t, s, r)
  BY DEF FlowFollowed
<1> HIDE DEF b, B, D, P
<1>10. c \in B /\ c < b /\ \A d \in B : d < b => d <= c
  BY <1>8 DEF IsLast
<1>11. c \in Nat /\ b \in Nat /\ c < front
  BY <1>3, <1>4, <1>10
<1>12. \A i \in P : q[i].block # c
  <2>1. ASSUME NEW i \in P, q[i].block = c PROVE FALSE
    <3>1. CASE i = 1
      BY <1>10, <1>11, <2>1, <3>1 DEF b
    <3>2. CASE i # 1
      <4>1. b < c
        BY <1>5, <2>1, <3>2
      <4> QED BY <1>10, <1>11, <4>1
    <3> QED BY <3>1, <3>2
  <2> QED BY <2>1
<1>13. IsLast(c, D)
  BY <1>4, <1>6, <1>10, <1>11, <1>12 DEF IsLast
<1>14. Shows(flows, lg[c].flowRate, a, t, s, r)
  BY <1>9, <1>13 DEF UpToDate
<1>15. lg[c].flowRate # 0
  <2>1. lg[c].flowRate \in Nat
    BY <1>3, <1>10 DEF FlowOK
  <2> QED BY <1>8, <2>1
<1> QED BY <1>14, <1>15 DEF Shows

\* What has been reduced is what came before the event at the head.
LEMMA HeadNext ==
  ASSUME NEW lg, LogOK(lg), NEW q, Listed(q), q # <<>>,
         NEW t, NEW s, NEW r, NEW front \in Nat,
         IsOf(Head(q), t, s, r), InOrder(lg, q, front, t, s, r)
  PROVE  /\ Head(q).block \in Blocks(lg, t, s, r) /\ Head(q) = lg[Head(q).block]
         /\ Reduced(lg, q, front, t, s, r) = {d \in Blocks(lg, t, s, r) : d < Head(q).block}
<1> DEFINE b == q[1].block
           B == Blocks(lg, t, s, r)
           D == Reduced(lg, q, front, t, s, r)
           P == Places(q, t, s, r)
<1>1. 1 \in P /\ Head(q) = q[1] /\ P \subseteq Nat /\ \A i \in P : 1 <= i
  BY TailPlaces
<1>2. \A i \in P : /\ q[i].block \in B /\ q[i].block < front /\ q[i] = lg[q[i].block]
                   /\ \A d \in D : d < q[i].block
                   /\ \A j \in P : i < j => q[i].block < q[j].block
  BY DEF InOrder
<1>3. B \subseteq Nat
  BY FlowEvents
<1>4. D = {d \in B : d < front /\ \A i \in P : q[i].block # d}
  BY DEF Reduced
<1> HIDE DEF B, D, P
<1>5. b \in B /\ b < front /\ q[1] = lg[b] /\ \A d \in D : d < b
  BY <1>1, <1>2
<1>6. \A j \in P : b <= q[j].block
  <2>1. \A j \in P : j = 1 \/ b < q[j].block
    BY <1>1, <1>2
  <2>2. \A j \in P : q[j].block \in Nat
    BY <1>2, <1>3
  <2> QED BY <1>3, <1>5, <2>1, <2>2
<1>7. ASSUME NEW d \in B, d < b PROVE d \in D
  <2>1. d \in Nat /\ b \in Nat /\ d < front
    <3> HIDE DEF b
    <3>1. d \in Nat /\ b \in Nat
      BY <1>3, <1>5
    <3> QED BY <1>5, <1>7, <3>1
  <2>2. \A i \in P : q[i].block \in Nat /\ b <= q[i].block
    BY <1>2, <1>3, <1>6
  <2>3. \A i \in P : q[i].block # d
    <3> HIDE DEF b
    <3> QED BY <1>7, <2>1, <2>2
  <2> QED BY <1>4, <2>1, <2>3
<1>8. D = {d \in B : d < b}
  BY <1>4, <1>5, <1>7
<1> QED BY <1>1, <1>5, <1>8 DEF B, D

\* An event of the flow is reduced: the list shows the rate it carries and the history up to it.
LEMMA EventReduced ==
  ASSUME NEW lg, LogOK(lg), NEW q, Listed(q), q # <<>>, NEW flows, NEW changed,
         NEW a, NEW t, NEW s, NEW r, NEW front \in Nat,
         IsOf(Head(q), t, s, r), Shows(changed, Head(q).flowRate, a, t, s, r),
         History(lg, changed, Reduced(lg, q, front, t, s, r) \cup {Head(q).block}, a, t, s, r),
         FlowFollowed(lg, q, flows, front, a, t, s, r)
  PROVE  FlowFollowed(lg, Tail(q), changed, front, a, t, s, r)
<1> DEFINE new == Tail(q)
           b == q[1].block
           B == Blocks(lg, t, s, r)
           D == Reduced(lg, q, front, t, s, r)
           P == Places(q, t, s, r)
           N == Places(new, t, s, r)
<1>1. /\ 1 \in P /\ Head(q) = q[1] /\ P \subseteq Nat /\ (\A i \in P : 1 <= i)
      /\ \A i \in N : i + 1 \in P /\ new[i] = q[i + 1]
      /\ \A i \in P : i # 1 => i - 1 \in N /\ new[i - 1] = q[i]
      /\ N \subseteq Nat /\ (\A i \in N : 1 <= i)
  BY TailPlaces
<1>2. \A i \in P : /\ q[i].block \in B /\ q[i].block < front /\ q[i] = lg[q[i].block]
                   /\ \A d \in D : d < q[i].block
                   /\ \A j \in P : i < j => q[i].block < q[j].block
  BY DEF FlowFollowed, InOrder
<1>3. B \subseteq Nat
  BY DEF Blocks, LogOK, Listed
<1>4. b \in B /\ b < front /\ q[1] = lg[b] /\ \A d \in D : d < b
  BY <1>1, <1>2
<1>5. \A j \in P : j # 1 => b < q[j].block
  BY <1>1, <1>2
<1>6. D = {d \in B : d < front /\ \A i \in P : q[i].block # d}
  BY DEF Reduced
<1>7. Reduced(lg, new, front, t, s, r) = {d \in B : d < front /\ \A i \in N : new[i].block # d}
  BY DEF Reduced
<1>8. /\ Shows(changed, lg[b].flowRate, a, t, s, r)
      /\ History(lg, changed, D \cup {b}, a, t, s, r)
  BY <1>1, <1>4
<1> HIDE DEF new, B, D, P, N
<1>9. q[1].block = b
  OBVIOUS
<1> HIDE DEF b
<1>10. b \in Nat /\ \A i \in P : q[i].block \in Nat
  BY <1>2, <1>3, <1>4
<1>11. \A i \in N : i + 1 # 1 /\ b < new[i].block
  BY <1>1, <1>5
<1>12. ASSUME NEW d \in B
       PROVE  d < front /\ (\A i \in N : new[i].block # d) <=> d \in D \/ d = b
  <2>1. ASSUME d < front, \A i \in N : new[i].block # d, d # b PROVE d \in D
    <3>1. ASSUME NEW i \in P PROVE q[i].block # d
      <4>1. CASE i = 1
        BY <1>9, <2>1, <4>1
      <4>2. CASE i # 1
        BY <1>1, <2>1, <4>2
      <4> QED BY <4>1, <4>2
    <3> QED BY <1>6, <2>1, <3>1
  <2>2. ASSUME d \in D PROVE d < front /\ \A i \in N : new[i].block # d
    BY <1>1, <1>6, <2>2
  <2>3. ASSUME d = b PROVE d < front /\ \A i \in N : new[i].block # d
    <3>1. \A i \in N : b < new[i].block /\ new[i].block \in Nat
      BY <1>1, <1>10, <1>11
    <3>2. \A i \in N : new[i].block # b
      BY <1>10, <3>1
    <3> QED BY <1>4, <2>3, <3>2
  <2> QED BY <2>1, <2>2, <2>3
<1> DEFINE E == D \cup {b}
<1>13. D \subseteq B
  BY <1>6
<1>14. Reduced(lg, new, front, t, s, r) = E
  BY <1>4, <1>7, <1>12, <1>13
<1>15. IsLast(b, E)
  <2>1. \A d \in D : d \in Nat /\ d < b
    BY <1>3, <1>4, <1>13
  <2>2. \A d \in D : d <= b
    BY <1>10, <2>1
  <2>3. b <= b
    BY <1>10
  <2> QED BY <2>2, <2>3 DEF IsLast
<1>16. \A c : IsLast(c, E) => c = b
  <2> SUFFICES ASSUME NEW c, IsLast(c, E) PROVE c = b
    OBVIOUS
  <2>1. c \in Nat /\ c <= b /\ b <= c
    BY <1>3, <1>10, <1>13, <1>15 DEF IsLast
  <2> QED BY <1>10, <2>1
<1> HIDE DEF E
<1>17. UpToDate(lg, changed, E, a, t, s, r)
  BY <1>8, <1>15, <1>16 DEF UpToDate, IsLast, E
<1>18. ASSUME NEW i \in N
      PROVE  /\ new[i].block \in B /\ new[i].block < front /\ new[i] = lg[new[i].block]
             /\ \A d \in E : d < new[i].block
             /\ \A j \in N : i < j => new[i].block < new[j].block
  <2>1. i + 1 \in P /\ new[i] = q[i + 1]
    BY <1>1
  <2>2. ASSUME NEW j \in N, i < j PROVE new[i].block < new[j].block
    <3>1. j + 1 \in P /\ new[j] = q[j + 1] /\ i + 1 < j + 1
      BY <1>1, <2>2
    <3> QED BY <1>2, <2>1, <3>1
  <2>3. \A d \in D : d < new[i].block
    BY <1>2, <2>1
  <2>4. \A d \in E : d < new[i].block
    BY <1>11, <2>3 DEF E
  <2> QED BY <1>2, <2>1, <2>2, <2>4
<1>19. InOrder(lg, new, front, t, s, r)
  BY <1>14, <1>18 DEF InOrder, N, B
<1> QED BY <1>14, <1>17, <1>19 DEF FlowFollowed, new

-----------------------------------------------------------------------------
(* The subscriptions: which events each emits, and how far it is.           *)

LEMMA SideIs == ASSUME NEW r, NEW a PROVE Side(r, a) \in Subscriptions
  BY DEF Side, Subscriptions

\* An event of the agent's flow comes from one subscription.
LEMMA FlowMatches ==
  ASSUME NEW e, NEW a, NEW t, NEW s, NEW r, IsOf(e, t, s, r), s # r, a \in {s, r},
         NEW sub \in Subscriptions
  PROVE  Matches(sub, e, a) <=> sub = Side(r, a)
<1>1. e.kind = "FlowUpdated" /\ e.sender = s /\ e.receiver = r
  BY DEF IsOf
<1> QED BY <1>1 DEF Matches, Side, Subscriptions

LEMMA SettledBefore ==
  ASSUME NEW current \in Nat, InitialBlock <= current
  PROVE  /\ CachedTo(current, InitialBlock) \in Nat
         /\ CachedTo(current, InitialBlock) <= current
         /\ InitialBlock <= CachedTo(current, InitialBlock)
  BY StoreAssumption, ReorgAssumption DEF CachedTo, Larger

LEMMA FrontierAt ==
  ASSUME NEW ss, NEW n \in Nat, SessionOK(ss, n), ss.up, NEW sub \in Subscriptions
  PROVE  Frontier(ss, sub) \in Nat /\ Frontier(ss, sub) <= n + 1
<1>1. /\ ss.current \in Nat /\ InitialBlock <= ss.current /\ ss.current <= n
      /\ ss.next[sub] \in Nat
      /\ ss.stage = "live" => ss.next[sub] <= n + 1
  BY StoreAssumption DEF SessionOK
<1>2. /\ CachedTo(ss.current, InitialBlock) \in Nat
      /\ CachedTo(ss.current, InitialBlock) <= ss.current
      /\ InitialBlock <= CachedTo(ss.current, InitialBlock)
  BY <1>1, SettledBefore
<1> DEFINE settled == CachedTo(ss.current, InitialBlock)
           current == ss.current
           next == ss.next[sub]
<1>3. /\ settled \in Nat /\ settled <= current /\ current \in Nat /\ InitialBlock <= current
      /\ current <= n /\ next \in Nat /\ InitialBlock \in Nat
      /\ ss.stage = "live" => next <= n + 1
  BY <1>1, <1>2, StoreAssumption
<1>4. \/ Frontier(ss, sub) = next /\ ss.stage = "live"
      \/ Frontier(ss, sub) = settled + 1
      \/ Frontier(ss, sub) = current
      \/ Frontier(ss, sub) = InitialBlock + 1
  BY DEF Frontier
<1> HIDE DEF settled, current, next
<1> QED BY <1>3, <1>4

\* The range of a stage goes from the subscription's frontier to the next one.
StageEnd(ss) == IF ss.stage = "cached" THEN CachedTo(ss.current, InitialBlock) + 1 ELSE ss.current

LEMMA StageReads ==
  ASSUME SessionOK(sess, Len(log)), Len(log) \in Nat, sess.up, sess.cachedBlock = NoBlock,
         sess.stage \in {"cached", "recent"}, NEW sub \in sess.pending,
         NEW b \in Nat, InitialBlock < b
  PROVE  /\ b \in StageRange <=> Frontier(sess, sub) <= b /\ b < StageEnd(sess)
         /\ b < Frontier(sess, sub) => b < StageEnd(sess)
<1> DEFINE current == sess.current
<1>1. current \in Nat /\ InitialBlock <= current /\ InitialBlock \in Nat
  BY StoreAssumption DEF SessionOK
<1>2. CASE sess.stage = "cached"
  <2>1. StageRange = CachedRange(NoBlock, current, InitialBlock)
    BY <1>2 DEF StageRange
  <2>2. Frontier(sess, sub) = InitialBlock + 1 /\ StageEnd(sess) = CachedTo(current, InitialBlock) + 1
    BY <1>2 DEF Frontier, StageEnd
  <2> HIDE DEF current
  <2>3. StageRange = InitialBlock..CachedTo(current, InitialBlock)
    BY <2>1 DEF CachedRange, CachedFrom
  <2>4. CachedTo(current, InitialBlock) \in Nat
    BY <1>1, SettledBefore
  <2> QED BY <1>1, <2>2, <2>3, <2>4
<1>3. CASE sess.stage = "recent"
  <2>1. StageRange = RecentRange(current, InitialBlock)
    BY <1>3 DEF StageRange
  <2>2. Frontier(sess, sub) = CachedTo(current, InitialBlock) + 1 /\ StageEnd(sess) = current
    BY <1>3 DEF Frontier, StageEnd
  <2> HIDE DEF current
  <2>3. b \in RecentRange(current, InitialBlock)
          <=> CachedTo(current, InitialBlock) + 1 <= b /\ b < current
    BY <1>1, ReorgAssumption DEF RecentRange, RecentFrom, RecentTo, CachedTo, Larger, Smaller
  <2>4. b < CachedTo(current, InitialBlock) + 1 => b < current
    BY <1>1, ReorgAssumption DEF CachedTo, Larger
  <2> QED BY <2>1, <2>2, <2>3, <2>4
<1> QED BY <1>2, <1>3

LEMMA PastFrontier ==
  ASSUME Shapes, NEW sub \in Subscriptions, pastEvents(sub)
  PROVE  /\ sess'.up /\ sess'.agent = sess.agent /\ sess'.cachedBlock = sess.cachedBlock
         /\ Frontier(sess', sub) = StageEnd(sess)
         /\ \A x \in Subscriptions : x # sub => Frontier(sess', x) = Frontier(sess, x)
<1> DEFINE last == sess.pending = {sub}
           ends == last /\ sess.stage = "recent"
           stage == IF last THEN (IF ends THEN "live" ELSE "recent") ELSE sess.stage
           pending == IF last THEN (IF ends THEN {} ELSE Subscriptions) ELSE sess.pending \ {sub}
<1>1. /\ sess.up /\ sess.stage \in {"cached", "recent"} /\ sub \in sess.pending
      /\ sess' = [sess EXCEPT !.stage = stage, !.pending = pending]
  BY DEF pastEvents
<1>2. SessionOK(sess, Len(log))
  BY DEF Shapes
<1>3. /\ (last /\ sess.stage = "recent" /\ stage = "live")
         \/ (last /\ sess.stage = "cached" /\ stage = "recent" /\ pending = Subscriptions)
         \/ (~last /\ stage = sess.stage /\ pending = sess.pending \ {sub})
  BY <1>1
<1>4. last => \A x \in Subscriptions : x # sub => x \notin sess.pending
  OBVIOUS
<1> HIDE DEF last, stage, pending
<1>5. /\ sess'.up = sess.up /\ sess'.stage = stage /\ sess'.pending = pending
      /\ sess'.current = sess.current /\ sess'.next = sess.next /\ sess'.agent = sess.agent
      /\ sess'.cachedBlock = sess.cachedBlock
  BY <1>1, <1>2 DEF SessionOK
<1>6. \A x \in Subscriptions : sess.next[x] = sess.current
  BY <1>1, <1>2 DEF SessionOK
<1>7. Frontier(sess', sub) = StageEnd(sess)
  BY <1>1, <1>3, <1>5, <1>6 DEF Frontier, StageEnd
<1>8. ASSUME NEW x \in Subscriptions, x # sub PROVE Frontier(sess', x) = Frontier(sess, x)
  BY <1>1, <1>3, <1>4, <1>5, <1>6, <1>8 DEF Frontier
<1> QED BY <1>1, <1>5, <1>7, <1>8

LEMMA NothingEmitted ==
  ASSUME NEW lg, NEW u, NEW front, NEW t, NEW s, NEW r, Places(u, t, s, r) = {},
         \A b \in Blocks(lg, t, s, r) : ~(front <= b /\ b < front)
  PROVE  Emits(lg, u, front, front, t, s, r)
  BY DEF Emits

\* A pastEvents call emits the flow's events up to the end of the stage, or none.
LEMMA PastEmits ==
  ASSUME Shapes, NEW sub \in Subscriptions, pastEvents(sub), sess.cachedBlock = NoBlock,
         NEW t, NEW s, NEW r, s # r, sess.agent \in {s, r}
  PROVE  Emits(log, PastEvents(sub), Frontier(sess, Side(r, sess.agent)),
               Frontier(sess', Side(r, sess.agent)), t, s, r)
<1> DEFINE a == sess.agent
           side == Side(r, a)
           front == Frontier(sess, side)
           P == Found(sub)
           u == PastEvents(sub)
           U == Places(u, t, s, r)
           B == Blocks(log, t, s, r)
<1>1. LogOK(log) /\ Len(log) \in Nat /\ SessionOK(sess, Len(log))
  BY DEF Shapes, LogOK, Listed
<1>2. sess.up /\ sess.stage \in {"cached", "recent"} /\ sub \in sess.pending
  BY DEF pastEvents
<1>3. P \in SUBSET Nat /\ IsFiniteSet(P) /\ u = Sublist(log, P)
  BY <1>1, FoundBlocks
<1>4. /\ \A k \in 1..Len(u) : Kth(P, k) \in P /\ u[k] = log[Kth(P, k)]
      /\ \A b \in P : \E k \in 1..Len(u) : Kth(P, k) = b
      /\ \A k, l \in 1..Len(u) : k < l => Kth(P, k) < Kth(P, l)
  BY <1>3, SublistListed
<1>5. \A b \in B : /\ b \in Nat /\ InitialBlock < b /\ log[b].block = b
                   /\ IsOf(log[b], t, s, r) /\ b \in DOMAIN log
  <2>1. \A b \in B : b \in 1..Len(log) /\ IsOf(log[b], t, s, r)
    BY DEF Blocks
  <2>2. DOMAIN log = 1..Len(log)
    BY <1>1 DEF LogOK, Listed
  <2>3. \A b \in B : log[b].kind # "none"
    BY <2>1 DEF IsOf
  <2> QED BY <1>1, <2>1, <2>2, <2>3 DEF LogOK
<1>6. \A b \in P : b \in 1..Len(log) /\ Matches(sub, log[b], a) /\ log[b].block \in StageRange
  BY <1>1, FoundBlocks DEF Found
<1>7. side \in Subscriptions
  BY SideIs
<1>8. \A b \in P : IsOf(log[b], t, s, r) => b \in B
  BY <1>6 DEF Blocks
<1>9. \A k \in U : k \in 1..Len(u) /\ IsOf(u[k], t, s, r)
  BY DEF Places
<1>10. \A k \in 1..Len(u) : IsOf(u[k], t, s, r) => k \in U
  BY DEF Places
<1>11. front \in Nat
  BY <1>1, <1>2, <1>7, FrontierAt
<1>12. CASE side # sub
  <2>1. \A b \in P : ~IsOf(log[b], t, s, r)
    BY <1>6, <1>12, FlowMatches
  <2>2. U = {}
    BY <1>4, <1>9, <2>1
  <2>3. Frontier(sess', side) = front
    BY <1>7, <1>12, PastFrontier
  <2> HIDE DEF front
  <2>4. \A b \in Blocks(log, t, s, r) : ~(front <= b /\ b < front)
    BY <1>5, <1>11
  <2>5. Emits(log, u, front, front, t, s, r)
    BY <2>2, <2>4, NothingEmitted
  <2> QED BY <2>3, <2>5 DEF front
<1>13. CASE side = sub
  <2> DEFINE end == StageEnd(sess)
  <2>1. Frontier(sess', side) = end
    BY <1>13, PastFrontier
  <2>2. \A b \in B : /\ b \in StageRange <=> front <= b /\ b < end
                     /\ b < front => b < end
    BY <1>1, <1>2, <1>5, <1>13, StageReads
  <2>3. \A b \in B : b \in P <=> front <= b /\ b < end
    <3>1. \A b \in B : Matches(sub, log[b], a)
      BY <1>5, <1>13, FlowMatches
    <3>2. \A b \in B : b \in P <=> b \in StageRange
      BY <1>5, <3>1 DEF Found
    <3> QED BY <2>2, <3>2
  <2> HIDE DEF end, front, P, u, U, B, side, a
  <2>4. \A k \in U : /\ Kth(P, k) \in B /\ Kth(P, k) \in P /\ u[k] = log[Kth(P, k)]
                     /\ u[k].block = Kth(P, k) /\ k \in 1..Len(u)
    BY <1>4, <1>5, <1>8, <1>9
  <2>5. ASSUME NEW k \in U
        PROVE  /\ u[k].block \in B /\ u[k] = log[u[k].block]
               /\ front <= u[k].block /\ u[k].block < end
               /\ \A l \in U : k < l => u[k].block < u[l].block
    <3>1. \A l \in U : k < l => u[k].block < u[l].block
      BY <1>4, <2>4
    <3> QED BY <2>3, <2>4, <3>1
  <2>6. ASSUME NEW b \in B, front <= b, b < end PROVE \E k \in U : u[k].block = b
    <3>1. b \in P
      BY <2>3, <2>6
    <3>2. PICK k \in 1..Len(u) : Kth(P, k) = b
      BY <1>4, <3>1
    <3>3. u[k] = log[b]
      BY <1>4, <3>2
    <3>4. k \in U /\ u[k].block = b
      BY <1>5, <1>10, <3>3
    <3> QED BY <3>4
  <2>7. Emits(log, u, front, end, t, s, r)
    BY <2>2, <2>5, <2>6 DEF Emits, U, B
  <2> QED BY <2>1, <2>7 DEF u, front, side, a
<1> QED BY <1>12, <1>13

\* A live subscription emits the flow's next event, or an event of something else.
LEMMA LiveEmits ==
  ASSUME Shapes, NEW sub \in Subscriptions, events(sub),
         NEW t, NEW s, NEW r, s # r, sess.agent \in {s, r}
  PROVE  Emits(log, <<log[Min(Unseen(sub))]>>, Frontier(sess, Side(r, sess.agent)),
               Frontier(sess', Side(r, sess.agent)), t, s, r)
<1> DEFINE a == sess.agent
           side == Side(r, a)
           front == Frontier(sess, side)
           x == Min(Unseen(sub))
           u == <<log[x]>>
           U == Places(u, t, s, r)
           B == Blocks(log, t, s, r)
<1>1. LogOK(log) /\ Len(log) \in Nat /\ SessionOK(sess, Len(log))
  BY DEF Shapes, LogOK, Listed
<1>2. sess.up /\ sess.stage = "live"
  BY DEF events
<1>3. /\ x \in Unseen(sub) /\ (\A c \in Unseen(sub) : x <= c) /\ x \in 1..Len(log)
      /\ sess.next[sub] <= x /\ sess'.stage = "live"
      /\ sess'.next = [sess.next EXCEPT ![sub] = x + 1]
  BY EventIs
<1>4. Len(u) = 1 /\ u[1] = log[x]
  BY OneListed
<1>5. side \in Subscriptions /\ sess.next \in [Subscriptions -> Nat \ {0}]
  BY <1>1, <1>2, SideIs DEF SessionOK
<1>6. front = sess.next[side] /\ Frontier(sess', side) = sess'.next[side] /\ front \in Nat
  BY <1>2, <1>3, <1>5 DEF Frontier
<1>7. Matches(sub, log[x], a)
  BY <1>3 DEF Unseen
<1>8. \A k \in U : k = 1 /\ IsOf(log[x], t, s, r)
  BY <1>4 DEF Places
<1>9. IsOf(log[x], t, s, r) => 1 \in U
  BY <1>4 DEF Places
<1>10. \A b \in B : b \in 1..Len(log) /\ IsOf(log[b], t, s, r)
  BY DEF Blocks
<1>11. CASE side # sub
  <2>1. U = {}
    BY <1>7, <1>8, <1>11, FlowMatches
  <2>2. Frontier(sess', side) = front
    BY <1>3, <1>5, <1>6, <1>11
  <2> HIDE DEF front
  <2>3. \A b \in Blocks(log, t, s, r) : ~(front <= b /\ b < front)
    BY <1>6, <1>10
  <2>4. Emits(log, u, front, front, t, s, r)
    BY <2>1, <2>3, NothingEmitted
  <2> QED BY <2>2, <2>4 DEF front
<1>12. CASE side = sub
  <2>1. Frontier(sess', side) = x + 1 /\ front <= x /\ x \in Nat
    BY <1>1, <1>3, <1>5, <1>6, <1>12
  <2>2. \A b \in B : Matches(sub, log[b], a)
    BY <1>10, <1>12, FlowMatches
  <2>3. ASSUME NEW b \in B, front <= b PROVE x <= b
    <3>1. b \in sess.next[sub]..Len(log)
      BY <1>1, <1>6, <1>10, <1>12, <2>3
    <3>2. b \in Unseen(sub)
      BY <2>2, <3>1 DEF Unseen
    <3> QED BY <1>3, <3>2
  <2>4. IsOf(log[x], t, s, r) => x \in B /\ log[x].block = x
    <3>1. IsOf(log[x], t, s, r) => log[x].kind # "none"
      BY DEF IsOf
    <3> QED BY <1>1, <1>3, <3>1 DEF Blocks, LogOK
  <2> HIDE DEF front, x, u, U, B, side, a
  <2>5. \A b \in B : b \in Nat
    BY <1>1, <1>10
  <2>6. \A b \in B : b < front => b < x + 1
    BY <1>6, <2>1, <2>5
  <2>7. ASSUME NEW k \in U
        PROVE  /\ u[k].block \in B /\ u[k] = log[u[k].block]
               /\ front <= u[k].block /\ u[k].block < x + 1
               /\ \A l \in U : k < l => u[k].block < u[l].block
    <3>1. k = 1 /\ u[k] = log[x] /\ log[x].block = x /\ x \in B
      BY <1>4, <1>8, <2>4
    <3>2. x < x + 1
      BY <2>1
    <3>3. \A l \in U : ~(k < l)
      BY <1>8, <3>1
    <3> QED BY <2>1, <3>1, <3>2, <3>3
  <2>8. ASSUME NEW b \in B, front <= b, b < x + 1 PROVE \E k \in U : u[k].block = b
    <3>1. b = x
      BY <2>1, <2>3, <2>5, <2>8
    <3>2. IsOf(log[x], t, s, r)
      BY <1>10, <3>1
    <3> QED BY <1>4, <1>9, <2>4, <3>1, <3>2
  <2>9. Emits(log, u, front, x + 1, t, s, r)
    BY <2>6, <2>7, <2>8 DEF Emits, U, B
  <2> QED BY <2>1, <2>9 DEF u, x, front, side, a
<1> QED BY <1>11, <1>12

LEMMA AppendAsConcat ==
  ASSUME NEW q, Listed(q), NEW e
  PROVE  Append(q, e) = q \o <<e>>
<1> DEFINE S == {q[i] : i \in 1..Len(q)} \cup {e}
<1>1. q \in Seq(S)
  BY ListedSeq
<1>2. e \in S
  OBVIOUS
<1> HIDE DEF S
<1> QED BY <1>1, <1>2, AppendIsConcat

-----------------------------------------------------------------------------
(* The invariant of the first session.                                      *)

\* The step of one flow, for every flow of the agent.
LEMMA FollowedAgain ==
  ASSUME sess'.up /\ sessions' = 1 =>
           /\ sess.up /\ sessions = 1 /\ sess'.agent = sess.agent
           /\ sess'.cachedBlock = sess.cachedBlock /\ st'.agentAddress = st.agentAddress,
         Followed,
         sess.up /\ sessions = 1 =>
           \A t \in Tokens, s \in Parties, r \in Parties :
             /\ s # r /\ sess.agent \in {s, r}
             /\ FlowFollowed(log, queue, st.flows, Frontier(sess, Side(r, sess.agent)),
                             sess.agent, t, s, r)
             => FlowFollowed(log', queue', st'.flows, Frontier(sess', Side(r, sess.agent)),
                             sess.agent, t, s, r)
  PROVE  Followed'
<1> SUFFICES ASSUME sess'.up, sessions' = 1
             PROVE  /\ st'.agentAddress = sess'.agent /\ sess'.cachedBlock = NoBlock
                    /\ AllFollowed(log', queue', st'.flows, sess', sess'.agent)
  BY DEF Followed
<1>1. /\ sess.up /\ sessions = 1 /\ sess'.agent = sess.agent
      /\ sess'.cachedBlock = sess.cachedBlock /\ st'.agentAddress = st.agentAddress
  OBVIOUS
<1>2. /\ st.agentAddress = sess.agent /\ sess.cachedBlock = NoBlock
      /\ AllFollowed(log, queue, st.flows, sess, sess.agent)
  BY <1>1 DEF Followed
<1>3. AllFollowed(log', queue', st'.flows, sess', sess.agent)
  BY <1>1, <1>2 DEF AllFollowed
<1> QED BY <1>1, <1>2, <1>3

LEMMA ChainFollowed == ASSUME Shapes, Followed, ChainNext PROVE Followed'
<1>1. /\ UNCHANGED <<st, sess, queue, sessions>>
      /\ log' = log \/ \E e : log' = Append(log, e)
  BY DEF ChainNext, EmptyBlock, FlowChange, VaultChange, SetAgent, Block, script
<1>2. LogOK(log) /\ Len(log) \in Nat /\ SessionOK(sess, Len(log))
  BY DEF Shapes, LogOK, Listed
<1>3. ASSUME sess.up, NEW t, NEW s, NEW r,
             FlowFollowed(log, queue, st.flows, Frontier(sess, Side(r, sess.agent)),
                          sess.agent, t, s, r)
      PROVE  FlowFollowed(log', queue, st.flows, Frontier(sess, Side(r, sess.agent)),
                          sess.agent, t, s, r)
  <2> DEFINE front == Frontier(sess, Side(r, sess.agent))
  <2>1. front \in Nat /\ front <= Len(log) + 1
    BY <1>2, <1>3, FrontierAt, SideIs
  <2> HIDE DEF front
  <2>2. CASE log' = log
    BY <1>3, <2>2
  <2>3. ASSUME NEW e, log' = Append(log, e)
        PROVE  FlowFollowed(log', queue, st.flows, front, sess.agent, t, s, r)
    BY <1>2, <1>3, <2>1, <2>3, ChainGoesOn DEF front
  <2> QED BY <1>1, <2>2, <2>3 DEF front
<1> QED BY <1>1, <1>3, FollowedAgain

LEMMA StartFollowed == ASSUME Shapes, initializeState PROVE Followed'
<1> SUFFICES ASSUME sessions' = 1
             PROVE  /\ st'.agentAddress = sess'.agent /\ sess'.cachedBlock = NoBlock
                    /\ AllFollowed(log', queue', st'.flows, sess', sess'.agent)
  BY DEF Followed
<1>1. sessions = 0 /\ cache = None /\ queue = <<>> /\ appAgent \in Agents /\ LogOK(log)
  BY DEF initializeState, Shapes
<1> DEFINE fresh == FreshState(appAgent)
<1>2. StateOK(fresh) /\ fresh.flows = <<>>
  BY <1>1, FreshOK
<1>3. fresh.agentAddress = appAgent /\ fresh.cachedBlockNumber = NoBlock
  BY DEF FreshState
<1>4. /\ UNCHANGED <<log, queue>>
      /\ sess' = [up |-> TRUE, agent |-> appAgent, current |-> Len(log),
                  cachedBlock |-> fresh.cachedBlockNumber, stage |-> "cached",
                  pending |-> Subscriptions,
                  next |-> [s \in Subscriptions |-> Len(log)], announced |-> FALSE]
  BY <1>1 DEF initializeState, chain
<1>5. PICK ok \in CallsSucceed :
        st' = loadInitialSuperTokens([fresh EXCEPT !.isSyncing = TRUE], Len(log), ok)
  BY <1>1 DEF initializeState
<1> HIDE DEF fresh
<1>6. st'.flows = <<>> /\ st'.agentAddress = appAgent
  <2> DEFINE syncing == [fresh EXCEPT !.isSyncing = TRUE]
  <2>1. /\ DOMAIN syncing = DOMAIN fresh /\ syncing.agentAddress = appAgent
        /\ syncing.flows = <<>>
    BY <1>2, <1>3 DEF StateOK
  <2>2. PICK u : st' = [syncing EXCEPT !.superTokens = u]
    BY <1>5 DEF loadInitialSuperTokens
  <2> HIDE DEF syncing
  <2> QED BY <1>2, <2>1, <2>2 DEF StateOK
<1>7. sess'.agent = appAgent /\ sess'.cachedBlock = NoBlock /\ sess'.stage = "cached"
      /\ sess'.pending = Subscriptions
  BY <1>3, <1>4
<1>8. ASSUME NEW t, NEW s, NEW r, NEW a
      PROVE  FlowFollowed(log, <<>>, <<>>, Frontier(sess', Side(r, a)), a, t, s, r)
  <2>1. Frontier(sess', Side(r, a)) = InitialBlock + 1
    BY <1>7, SideIs DEF Frontier
  <2>2. Places(<<>>, t, s, r) = {} /\ OpenAt(<<>>, a, t, s, r) = {}
    <3>1. 1..0 = {}
      OBVIOUS
    <3> QED BY <3>1, NoneListed DEF Places, OpenAt
  <2>3. Reduced(log, <<>>, InitialBlock + 1, t, s, r) = {}
    <3>1. ASSUME NEW b \in Blocks(log, t, s, r) PROVE ~(b < InitialBlock + 1)
      <4>1. b \in 1..Len(log) /\ log[b].kind # "none"
        BY DEF Blocks, IsOf
      <4>2. InitialBlock < b /\ b \in Nat /\ InitialBlock \in Nat
        BY <1>1, <4>1, StoreAssumption DEF LogOK
      <4> QED BY <4>2
    <3> QED BY <3>1 DEF Reduced
  <2>4. \A b : ~IsLast(b, {})
    BY DEF IsLast
  <2>5. History(log, <<>>, {}, a, t, s, r)
    <3>1. EntriesAt(<<>>, a, t, s, r) = {}
      <4>1. 1..0 = {}
        OBVIOUS
      <4> QED BY <4>1, NoneListed DEF EntriesAt
    <3>2. Opened(log, {}, t, s, r) = {}
      BY DEF Opened
    <3> QED BY <3>1, <3>2 DEF History
  <2> QED BY <2>1, <2>2, <2>3, <2>4, <2>5 DEF FlowFollowed, InOrder, UpToDate
<1>9. AllFollowed(log', queue', st'.flows, sess', sess'.agent)
  <2>1. AllFollowed(log, <<>>, <<>>, sess', appAgent)
    BY <1>8 DEF AllFollowed
  <2>2. log' = log /\ queue' = <<>>
    BY <1>1, <1>4
  <2> QED BY <1>6, <1>7, <2>1, <2>2
<1> QED BY <1>6, <1>7, <1>9

\* What emits its events in order keeps every flow followed.
LEMMA EmitFollowed ==
  ASSUME Shapes, Followed, NEW u, Listed(u), queue' = queue \o u,
         UNCHANGED <<log, st, sessions>>, sess.up, sess'.agent = sess.agent,
         sess'.cachedBlock = sess.cachedBlock,
         \A sub \in Subscriptions : Frontier(sess', sub) \in Nat,
         sess.cachedBlock = NoBlock =>
           \A t, s, r : s # r /\ sess.agent \in {s, r} =>
             Emits(log, u, Frontier(sess, Side(r, sess.agent)),
                   Frontier(sess', Side(r, sess.agent)), t, s, r)
  PROVE  Followed'
<1>1. LogOK(log) /\ Len(log) \in Nat /\ SessionOK(sess, Len(log)) /\ Listed(queue)
  BY DEF Shapes, LogOK, QueueOK, Listed
<1>2. ASSUME sessions = 1, NEW t, NEW s, NEW r, s # r, sess.agent \in {s, r},
             FlowFollowed(log, queue, st.flows, Frontier(sess, Side(r, sess.agent)),
                          sess.agent, t, s, r)
      PROVE  FlowFollowed(log, queue \o u, st.flows, Frontier(sess', Side(r, sess.agent)),
                          sess.agent, t, s, r)
  <2> DEFINE front == Frontier(sess, Side(r, sess.agent))
             next == Frontier(sess', Side(r, sess.agent))
  <2>1. sess.cachedBlock = NoBlock
    BY <1>2 DEF Followed
  <2>2. front \in Nat /\ next \in Nat
    BY <1>1, FrontierAt, SideIs
  <2>3. Emits(log, u, front, next, t, s, r)
    BY <1>2, <2>1
  <2> HIDE DEF front, next
  <2>4. FlowFollowed(log, queue, st.flows, front, sess.agent, t, s, r)
    BY <1>2 DEF front
  <2>5. FlowFollowed(log, queue \o u, st.flows, next, sess.agent, t, s, r)
    BY <1>1, <2>2, <2>3, <2>4, EventsEmitted
  <2> QED BY <2>5 DEF next
<1> QED BY <1>2, FollowedAgain

LEMMA PastFollowed ==
  ASSUME Shapes, Followed, NEW sub \in Subscriptions, pastEvents(sub)
  PROVE  Followed'
<1> DEFINE ends == sess.pending = {sub} /\ sess.stage = "recent"
           v == IF ends THEN <<SYNCED>> ELSE <<>>
           u == PastEvents(sub)
<1>1. /\ sess.up /\ queue' = queue \o u \o v /\ UNCHANGED <<log, st, sessions>>
  BY DEF pastEvents, chain
<1>2. Listed(u) /\ Listed(queue) /\ LogOK(log) /\ Len(log) \in Nat /\ SessionOK(sess, Len(log))
  BY PastQueued DEF QueueOK, Shapes, LogOK, Listed
<1>3. Listed(v) /\ \A t, s, r : Places(v, t, s, r) = {}
  <2>1. \A t, s, r : ~IsOf(SYNCED, t, s, r)
    BY DEF IsOf, SYNCED
  <2>2. Listed(<<SYNCED>>) /\ \A t, s, r : Places(<<SYNCED>>, t, s, r) = {}
    BY <2>1, OneListed DEF Places
  <2>3. Listed(<<>>) /\ \A t, s, r : Places(<<>>, t, s, r) = {}
    <3>1. 1..0 = {}
      OBVIOUS
    <3> QED BY <3>1, NoneListed DEF Places
  <2> QED BY <2>2, <2>3
<1>4. sess'.up /\ sess'.agent = sess.agent /\ sess'.cachedBlock = sess.cachedBlock
  BY PastFrontier
<1>5. SessionOK(sess', Len(log)) /\ \A x \in Subscriptions : Frontier(sess', x) \in Nat
  <2>1. SessionOK(sess', Len(log))
    BY <1>1, PastShapes DEF Shapes
  <2> QED BY <1>2, <1>4, <2>1, FrontierAt
<1> HIDE DEF u, v
<1>6. ASSUME sessions = 1, NEW t, NEW s, NEW r, s # r, sess.agent \in {s, r},
             FlowFollowed(log, queue, st.flows, Frontier(sess, Side(r, sess.agent)),
                          sess.agent, t, s, r)
      PROVE  FlowFollowed(log, queue \o u \o v, st.flows, Frontier(sess', Side(r, sess.agent)),
                          sess.agent, t, s, r)
  <2> DEFINE front == Frontier(sess, Side(r, sess.agent))
             next == Frontier(sess', Side(r, sess.agent))
  <2>1. sess.cachedBlock = NoBlock
    BY <1>1, <1>6 DEF Followed
  <2>2. front \in Nat /\ next \in Nat
    BY <1>1, <1>2, <1>5, FrontierAt, SideIs
  <2>3. Emits(log, u, front, next, t, s, r)
    BY <1>6, <2>1, PastEmits DEF u
  <2> HIDE DEF front, next
  <2>4. FlowFollowed(log, queue, st.flows, front, sess.agent, t, s, r)
    BY <1>6 DEF front
  <2>5. FlowFollowed(log, queue \o u, st.flows, next, sess.agent, t, s, r)
    BY <1>2, <2>2, <2>3, <2>4, EventsEmitted
  <2>6. Emits(log, v, next, next, t, s, r)
    <3>1. \A b \in Blocks(log, t, s, r) : b \in Nat
      BY DEF Blocks
    <3>2. \A b \in Blocks(log, t, s, r) : ~(next <= b /\ b < next)
      BY <2>2, <3>1
    <3> QED BY <1>3, <3>2, NothingEmitted
  <2>7. Listed(queue \o u)
    BY <1>2, ConcatIs
  <2>8. FlowFollowed(log, queue \o u \o v, st.flows, next, sess.agent, t, s, r)
    BY <1>2, <1>3, <2>2, <2>5, <2>6, <2>7, EventsEmitted
  <2> QED BY <2>8 DEF next
<1> QED BY <1>1, <1>4, <1>6, FollowedAgain

LEMMA LiveFollowed ==
  ASSUME Shapes, Followed, NEW sub \in Subscriptions, events(sub)
  PROVE  Followed'
<1> DEFINE e == log[Min(Unseen(sub))]
<1>1. sess.up /\ queue' = Append(queue, e) /\ UNCHANGED <<log, st, sessions>>
  BY DEF events, chain
<1>2. Listed(queue) /\ Len(log) \in Nat
  BY DEF Shapes, QueueOK, LogOK, Listed
<1>3. queue' = queue \o <<e>> /\ Listed(<<e>>)
  BY <1>1, <1>2, AppendAsConcat, OneListed
<1>4. sess'.up /\ sess'.agent = sess.agent /\ sess'.cachedBlock = sess.cachedBlock
  BY <1>1, EventIs
<1>5. \A x \in Subscriptions : Frontier(sess', x) \in Nat
  <2>1. SessionOK(sess', Len(log))
    BY <1>1, LiveShapes DEF Shapes
  <2> QED BY <1>2, <1>4, <2>1, FrontierAt
<1>6. \A t, s, r : s # r /\ sess.agent \in {s, r} =>
        Emits(log, <<e>>, Frontier(sess, Side(r, sess.agent)),
              Frontier(sess', Side(r, sess.agent)), t, s, r)
  BY LiveEmits
<1> HIDE DEF e
<1> QED BY <1>1, <1>3, <1>4, <1>5, <1>6, EmitFollowed

LEMMA AnnounceFollowed == ASSUME Shapes, Followed, AnnounceSyncing PROVE Followed'
<1> DEFINE e == SYNCING(CachedTo(sess.current, InitialBlock))
<1>1. /\ sess.up /\ queue' = Append(queue, e) /\ sess' = [sess EXCEPT !.announced = TRUE]
      /\ UNCHANGED <<log, st, sessions>>
  BY DEF AnnounceSyncing, chain
<1>2. Listed(queue) /\ Len(log) \in Nat /\ SessionOK(sess, Len(log))
  BY DEF Shapes, QueueOK, LogOK, Listed
<1>3. queue' = queue \o <<e>> /\ Listed(<<e>>) /\ Len(<<e>>) = 1 /\ <<e>>[1] = e
  BY <1>1, <1>2, AppendAsConcat, OneListed
<1>4. e.kind = "SYNC_STATUS_SYNCING"
  BY DEF SYNCING
<1> HIDE DEF e
<1>5. /\ sess'.agent = sess.agent /\ sess'.cachedBlock = sess.cachedBlock
      /\ sess'.stage = sess.stage /\ sess'.pending = sess.pending
      /\ sess'.current = sess.current /\ sess'.next = sess.next
  BY <1>1, <1>2 DEF SessionOK
<1>6. \A x \in Subscriptions : Frontier(sess', x) = Frontier(sess, x) /\ Frontier(sess, x) \in Nat
  BY <1>1, <1>2, <1>5, FrontierAt DEF Frontier
<1>7. ASSUME NEW t, NEW s, NEW r
      PROVE  Emits(log, <<e>>, Frontier(sess, Side(r, sess.agent)),
                   Frontier(sess', Side(r, sess.agent)), t, s, r)
  <2> DEFINE front == Frontier(sess, Side(r, sess.agent))
  <2>1. front \in Nat /\ Frontier(sess', Side(r, sess.agent)) = front
    BY <1>6, SideIs
  <2> HIDE DEF front
  <2>2. Places(<<e>>, t, s, r) = {}
    BY <1>3, <1>4 DEF Places, IsOf
  <2>3. \A b \in Blocks(log, t, s, r) : b \in Nat
    BY DEF Blocks
  <2>4. \A b \in Blocks(log, t, s, r) : ~(front <= b /\ b < front)
    BY <2>1, <2>3
  <2>5. Emits(log, <<e>>, front, front, t, s, r)
    BY <2>2, <2>4, NothingEmitted
  <2> QED BY <2>1, <2>5 DEF front
<1> QED BY <1>1, <1>3, <1>5, <1>6, <1>7, EmitFollowed

LEMMA ReduceFollowed == ASSUME Inv, Shapes, Account, Followed, Reduce PROVE Followed'
<1> DEFINE e == Head(queue)
           a == sess.agent
<1>1. /\ sess.up /\ queue # <<>> /\ queue' = Tail(queue) /\ UNCHANGED <<log, sess, sessions>>
  BY DEF Reduce, chain
<1>2. /\ st'.agentAddress = st.agentAddress /\ FlowOK(e)
      /\ Concerns(e, st.agentAddress) => st'.flows = updateFlows(st, e, e.block)
      /\ ~Concerns(e, st.agentAddress) => st'.flows = st.flows
  BY ReduceShapes DEF EventOK
<1>3. /\ LogOK(log) /\ Len(log) \in Nat /\ SessionOK(sess, Len(log)) /\ Listed(queue)
      /\ StateOK(st) /\ Unique(st.flows)
  BY DEF Shapes, LogOK, QueueOK, Listed, Inv, Good
<1>4. ASSUME sessions = 1, NEW t \in Tokens, NEW s \in Parties, NEW r \in Parties,
             s # r, a \in {s, r},
             FlowFollowed(log, queue, st.flows, Frontier(sess, Side(r, a)), a, t, s, r)
      PROVE  FlowFollowed(log, Tail(queue), st'.flows, Frontier(sess, Side(r, a)), a, t, s, r)
  <2> DEFINE front == Frontier(sess, Side(r, a))
  <2>1. front \in Nat
    BY <1>1, <1>3, FrontierAt, SideIs
  <2>2. st.agentAddress = a
    BY <1>1, <1>4 DEF Followed
  <2>3. EndsRunning(log, t, s, r)
    BY DEF Account
  <2> HIDE DEF e, a, front
  <2>4. FlowFollowed(log, queue, st.flows, front, a, t, s, r)
    BY <1>4 DEF front
  <2>5. CASE IsOf(e, t, s, r)
    <3>1. Concerns(e, a)
      BY <1>4, <2>5 DEF Concerns, IsOf
    <3>2. e.flowRate = 0 => OpenAt(st.flows, a, t, s, r) # {}
      BY <1>1, <1>3, <2>1, <2>3, <2>4, <2>5, DeletedIsOpen DEF e
    <3>3. Shows(st'.flows, e.flowRate, a, t, s, r)
      BY <1>2, <1>3, <2>2, <2>5, <3>1, <3>2, FlowSet
    <3> DEFINE D == Reduced(log, queue, front, t, s, r)
               b == e.block
    <3>4. /\ b \in Blocks(log, t, s, r) /\ e = log[b]
          /\ D = {d \in Blocks(log, t, s, r) : d < b}
      BY <1>1, <1>3, <2>1, <2>4, <2>5, HeadNext DEF e, FlowFollowed
    <3>5. UpToDate(log, st.flows, D, a, t, s, r)
      BY <2>4 DEF FlowFollowed
    <3>6. st'.flows = updateFlows(st, log[b], log[b].block)
      BY <1>2, <2>2, <3>1, <3>4
    <3> HIDE DEF D, b
    <3>7. History(log, st'.flows, D \cup {b}, a, t, s, r)
      <4>1. Concerns(log[b], st.agentAddress)
        BY <2>2, <3>1, <3>4
      <4>2. History(log, updateFlows(st, log[b], log[b].block),
                    {d \in Blocks(log, t, s, r) : d < b} \cup {b}, st.agentAddress, t, s, r)
        BY <1>3, <2>2, <3>4, <3>5, <4>1, HistoryUpdated
      <4> QED BY <2>2, <3>4, <3>6, <4>2
    <3>8. FlowFollowed(log, Tail(queue), st'.flows, front, a, t, s, r)
      BY <1>1, <1>3, <2>1, <2>4, <2>5, <3>3, <3>7, EventReduced DEF e, D, b
    <3> QED BY <3>8 DEF front
  <2>6. CASE ~IsOf(e, t, s, r)
    <3>1. SameEntries(st.flows, st'.flows, a, t, s, r)
      <4>1. CASE Concerns(e, a)
        BY <1>2, <1>3, <2>2, <2>6, <4>1, OtherFlowKept
      <4>2. CASE ~Concerns(e, a)
        BY <1>2, <2>2, <4>2 DEF SameEntries
      <4> QED BY <4>1, <4>2
    <3>2. FlowFollowed(log, Tail(queue), st'.flows, front, a, t, s, r)
      BY <1>1, <1>3, <2>4, <2>6, <3>1, EventSkipped DEF e
    <3> QED BY <3>2 DEF front
  <2> QED BY <2>5, <2>6
<1> QED BY <1>1, <1>2, <1>4, FollowedAgain

LEMMA FollowedStep == Inv /\ Shapes /\ Account /\ Followed /\ [Next]_vars => Followed'
<1> SUFFICES ASSUME Inv, Shapes, Account, Followed, [Next]_vars PROVE Followed'
  OBVIOUS
<1>1. CASE UNCHANGED <<log, queue, st, sess, sessions>>
  BY <1>1 DEF Followed
<1>2. CASE ChainNext
  BY <1>2, ChainFollowed
<1>3. CASE initializeState
  BY <1>3, StartFollowed
<1>4. CASE \E sub \in Subscriptions : pastEvents(sub) \/ events(sub)
  BY <1>4, PastFollowed, LiveFollowed
<1>5. CASE AnnounceSyncing
  BY <1>5, AnnounceFollowed
<1>6. CASE Reduce
  BY <1>6, ReduceFollowed
<1>7. CASE Persist
  BY <1>1, <1>7 DEF Persist, chain
<1>8. CASE Crash \/ Reject
  BY <1>8 DEF Crash, Reject, StoreEnds, NoSession, Followed
<1>10. CASE initializeRejects
  <2>1. ~sess.up /\ sess' = sess
    BY <1>10 DEF initializeRejects
  <2> QED BY <2>1 DEF Followed
<1>9. CASE UNCHANGED vars
  BY <1>1, <1>9 DEF vars, chain, script
<1> QED BY <1>2, <1>3, <1>4, <1>5, <1>6, <1>7, <1>8, <1>9, <1>10 DEF Next, ScriptNext

LEMMA FollowedAlways == Spec => [](Shapes /\ Account /\ Followed)
<1>1. Init => Followed
  BY DEF Init, NoSession, Followed
<1> QED BY <1>1, InitShapes, InitAccount, InitInv, InvStep, ShapesStep, AccountStep, FollowedStep, PTL
        DEF Spec

-----------------------------------------------------------------------------
(* Once all events have been reduced.                                       *)

LEMMA KeyViews ==
  ASSUME Shapes, NEW t, NEW s, NEW r
  PROVE  /\ EventsOf(<<t, s, r>>) = Blocks(log, t, s, r)
         /\ \A b : RateAt(<<t, s, r>>, b) = RateOf(log, b, t, s, r)
         /\ Entries(<<t, s, r>>) = EntriesAt(st.flows, st.agentAddress, t, s, r)
         /\ Open(<<t, s, r>>) = OpenAt(st.flows, st.agentAddress, t, s, r)
<1> DEFINE k == <<t, s, r>>
           a == st.agentAddress
<1>1. DOMAIN log = 1..Len(log) /\ DOMAIN st.flows = 1..Len(st.flows)
  BY DEF Shapes, LogOK, Listed, StateOK
<1>2. EventsOf(k) = Blocks(log, t, s, r)
  BY <1>1 DEF EventsOf, Blocks, IsOf
<1>3. \A b : RateAt(k, b) = RateOf(log, b, t, s, r)
  BY <1>2 DEF RateAt, RateOf
<1>4. \A i \in 1..Len(st.flows) : Key(st.flows[i], a) = k <=> InFlow(st.flows[i], a, t, s, r)
  BY DEF Key, InFlow
<1>5. Entries(k) = EntriesAt(st.flows, a, t, s, r)
  BY <1>1, <1>4 DEF Entries, EntriesAt
<1>6. Open(k) = OpenAt(st.flows, a, t, s, r)
  BY <1>1, <1>4 DEF Open, Entries, OpenAt, IsOpen
<1> QED BY <1>2, <1>3, <1>5, <1>6

LEMMA DrainedUpToDate ==
  ASSUME Shapes, Followed, sessions <= 1, Drained,
         NEW t \in Tokens, NEW s \in Parties, NEW r \in Parties,
         s # r, st.agentAddress \in {s, r}
  PROVE  UpToDate(log, st.flows, Blocks(log, t, s, r), st.agentAddress, t, s, r)
<1> DEFINE a == sess.agent
           B == Blocks(log, t, s, r)
           side == Side(r, a)
           front == Frontier(sess, side)
<1>1. sess.up /\ sess.stage = "live" /\ queue = <<>> /\ \A sub \in Subscriptions : Unseen(sub) = {}
  BY DEF Drained
<1>2. sessions = 1
  BY <1>1, StoreAssumption DEF Shapes
<1>3. st.agentAddress = a /\ AllFollowed(log, queue, st.flows, sess, a)
  BY <1>1, <1>2 DEF Followed
<1>4. FlowFollowed(log, queue, st.flows, front, a, t, s, r)
  BY <1>3 DEF AllFollowed
<1>5. Len(log) \in Nat /\ SessionOK(sess, Len(log))
  BY DEF Shapes, LogOK, Listed
<1>6. side \in Subscriptions /\ front = sess.next[side] /\ front \in Nat
  BY <1>1, <1>5, SideIs, FrontierAt DEF Frontier
<1>7. \A b \in B : b \in 1..Len(log) /\ IsOf(log[b], t, s, r)
  BY DEF Blocks
<1>8. \A b \in B : Matches(side, log[b], a)
  BY <1>3, <1>6, <1>7, FlowMatches
<1>9. \A b \in B : b \notin sess.next[side]..Len(log)
  BY <1>1, <1>6, <1>8 DEF Unseen
<1> HIDE DEF front, side, B
<1>10. \A b \in B : b < front
  BY <1>5, <1>6, <1>7, <1>9
<1>11. Places(queue, t, s, r) = {}
  <2>1. 1..0 = {}
    OBVIOUS
  <2> QED BY <1>1, <2>1, NoneListed DEF Places
<1>12. Reduced(log, queue, front, t, s, r) = B
  BY <1>10, <1>11 DEF Reduced, B
<1> QED BY <1>3, <1>4, <1>12 DEF FlowFollowed, B

\* The rate that is shown is the current one.
LEMMA DrainedShows ==
  ASSUME Shapes, Followed, sessions <= 1, Drained,
         NEW t \in Tokens, NEW s \in Parties, NEW r \in Parties,
         s # r, st.agentAddress \in {s, r}
  PROVE  /\ RateAt(<<t, s, r>>, Len(log)) \in Nat
         /\ Shows(st.flows, RateAt(<<t, s, r>>, Len(log)), st.agentAddress, t, s, r)
<1> DEFINE B == Blocks(log, t, s, r)
           now == RateOf(log, Len(log), t, s, r)
<1>1. Len(log) \in Nat /\ LogOK(log) /\ B \subseteq 1..Len(log)
  BY DEF Shapes, LogOK, Listed, Blocks
<1>2. B = {b \in B : b <= Len(log)}
  BY <1>1
<1>3. now \in Nat /\ (B = {} => now = 0) /\ \A c : IsLast(c, B) => now = log[c].flowRate
  <2> HIDE DEF now
  <2> QED BY <1>1, <1>2, RateOfIs DEF now
<1>4. UpToDate(log, st.flows, B, st.agentAddress, t, s, r)
  BY DrainedUpToDate
<1>5. RateAt(<<t, s, r>>, Len(log)) = now
  BY KeyViews
<1> HIDE DEF B, now
<1>6. CASE B = {}
  BY <1>3, <1>4, <1>5, <1>6 DEF UpToDate, Shows
<1>7. CASE B # {}
  <2>1. IsLast(Max(B), B)
    BY <1>1, <1>7, LastOf
  <2> QED BY <1>3, <1>4, <1>5, <2>1 DEF UpToDate
<1> QED BY <1>6, <1>7

LEMMA KeyIs ==
  ASSUME NEW k \in Keys
  PROVE  /\ k = <<k[1], k[2], k[3]>> /\ k[1] \in Tokens /\ k[2] \in Parties /\ k[3] \in Parties
         /\ k[2] # k[3] /\ st.agentAddress \in {k[2], k[3]}
  BY DEF Keys

\* In its first session the script shows the agent's flows as the chain has them: once it has
\* reduced all events, in whatever order the three subscriptions delivered them, the open entries
\* are exactly the running flows, at their rates.  (After a restart they need not be: EveryStreamListed.)
THEOREM FirstSessionMirrors == Spec => [](sessions <= 1 => MirrorsChain)
<1>1. Shapes /\ Account /\ Followed => (sessions <= 1 => MirrorsChain)
  <2> SUFFICES ASSUME Shapes, Followed, sessions <= 1, Drained, NEW k \in Keys
               PROVE  LET now == RateAt(k, Len(log))
                      IN  IF now = 0 THEN Open(k) = {}
                          ELSE \E i \in Open(k) : st.flows[i].flowRate = now
    BY DEF MirrorsChain
  <2> DEFINE now == RateAt(k, Len(log))
  <2>1. Shows(st.flows, now, st.agentAddress, k[1], k[2], k[3])
    BY KeyIs, DrainedShows
  <2>2. Open(k) = OpenAt(st.flows, st.agentAddress, k[1], k[2], k[3])
    BY KeyIs, KeyViews
  <2> HIDE DEF now
  <2>3. IF now = 0 THEN Open(k) = {} ELSE \E i \in Open(k) : st.flows[i].flowRate = now
    BY <2>1, <2>2 DEF Shows
  <2> QED BY <2>3 DEF now
<1> QED BY <1>1, FollowedAlways, PTL

\* In its first session the script lists the agent's flows with their exact history: one entry for each
\* time a flow was opened, and in each the amount the chain streamed from its creation to its last event.
THEOREM FirstSessionHistory == Spec => [](sessions <= 1 => HistoryExact)
<1>1. Shapes /\ Account /\ Followed => (sessions <= 1 => HistoryExact)
  <2> SUFFICES ASSUME Shapes, Followed, sessions <= 1, Drained, NEW k \in Keys
               PROVE  /\ {st.flows[i].creationTimestamp : i \in Entries(k)} = Births(k)
                      /\ \A i, j \in Entries(k) :
                           st.flows[i].creationTimestamp = st.flows[j].creationTimestamp => i = j
                      /\ \A i \in Entries(k) :
                           LET f == st.flows[i]
                           IN  f.accumulatedAmount
                                 = StreamedBetween(k, f.creationTimestamp, f.lastTimestamp)
    BY DEF HistoryExact
  <2> DEFINE t == k[1]
             s == k[2]
             r == k[3]
             B == Blocks(log, t, s, r)
  <2>1. k = <<t, s, r>>
    BY KeyIs
  <2>2. History(log, st.flows, B, st.agentAddress, t, s, r)
    BY KeyIs, DrainedUpToDate DEF UpToDate
  <2>3. /\ EventsOf(k) = B /\ (\A b : RateAt(k, b) = RateOf(log, b, t, s, r))
        /\ Entries(k) = EntriesAt(st.flows, st.agentAddress, t, s, r)
    BY <2>1, KeyViews
  <2> HIDE DEF B, t, s, r
  <2>4. Births(k) = Opened(log, B, t, s, r)
    BY <2>3 DEF Births, Opened
  <2>5. \A c, l : StreamedBetween(k, c, l) = Flowed(log, c, l, t, s, r)
    BY <2>3 DEF StreamedBetween, Flowed
  <2> QED BY <2>2, <2>3, <2>4, <2>5 DEF History, Exact
<1> QED BY <1>1, FollowedAlways, PTL
\* The open entries of one direction, one per entity, sum up to the rates they show.
LEMMA EntriesSum ==
  ASSUME NEW flows \in Seq(Entry), Unique(flows), NEW a \in Parties,
         \A i \in DOMAIN flows : flows[i].entity # a,
         NEW t, NEW isIncoming \in BOOLEAN, NEW h, DOMAIN h = Parties, h[a] = 0,
         \A p \in Parties : p # a =>
           /\ h[p] \in Nat
           /\ isIncoming => Shows(flows, h[p], a, t, p, a)
           /\ ~isIncoming => Shows(flows, h[p], a, t, a, p)
  PROVE  calculateInOutRate(flows, t, isIncoming) = SumFunction(h)
<1> DEFINE S == Counted(flows, t, isIncoming)
           f == [i \in S |-> flows[i].flowRate]
           m == [i \in S |-> flows[i].entity]
           I == {m[i] : i \in S}
           sender(p) == IF isIncoming THEN p ELSE a
           receiver(p) == IF isIncoming THEN a ELSE p
           n == Len(flows)
<1>1. /\ IsFiniteSet(S) /\ S \subseteq 1..n /\ (\A i \in S : f[i] \in Nat)
      /\ calculateInOutRate(flows, t, isIncoming) = SumFunctionOnSet(f, S)
  BY InOutRateIs
<1>2. DOMAIN flows = 1..n /\ \A i \in 1..n : flows[i] \in Entry
  OBVIOUS
<1>3. \A i \in S : /\ ~flows[i].isCancelled /\ flows[i].token = t /\ flows[i].isIncoming = isIncoming
                   /\ flows[i].entity \in Parties /\ flows[i].entity # a
  BY <1>1, <1>2 DEF Counted, Entry
<1>4. \A i \in S : f[i] = flows[i].flowRate /\ m[i] = flows[i].entity
  OBVIOUS
<1>5. \A i \in 1..n :
        ~flows[i].isCancelled /\ flows[i].token = t /\ flows[i].isIncoming = isIncoming => i \in S
  BY <1>2 DEF Counted
<1>6. \A p \in Parties : p # a => /\ h[p] \in Nat /\ Shows(flows, h[p], a, t, sender(p), receiver(p))
                                  /\ sender(p) # receiver(p)
  OBVIOUS
<1>7. \A i \in S : InFlow(flows[i], a, t, sender(flows[i].entity), receiver(flows[i].entity))
  BY <1>3 DEF InFlow
<1> HIDE DEF S, f, m, n
<1>8. ASSUME NEW i \in S, NEW j \in S, m[i] = m[j] PROVE i = j
  <2>1. SameFlow(flows[i], flows[j])
    BY <1>3, <1>4, <1>8 DEF SameFlow
  <2> QED BY <1>1, <1>3, <2>1 DEF Unique, n
<1>9. ASSUME NEW i \in S PROVE f[i] \in Int /\ f[i] = h[m[i]]
  <2> DEFINE p == flows[i].entity
  <2>1. p \in Parties /\ p # a /\ i \in 1..n /\ flows[i] \in Entry
    BY <1>1, <1>2, <1>3
  <2>2. IsOpen(flows[i], a, t, sender(p), receiver(p))
    BY <1>3, <1>7 DEF IsOpen
  <2>3. Shows(flows, h[p], a, t, sender(p), receiver(p)) /\ sender(p) # receiver(p)
    BY <1>6, <2>1
  <2> HIDE DEF sender, receiver
  <2>4. i \in OpenAt(flows, a, t, sender(p), receiver(p))
    BY <2>1, <2>2 DEF OpenAt, n
  <2>5. PICK j \in OpenAt(flows, a, t, sender(p), receiver(p)) : flows[j].flowRate = h[p]
    BY <2>3, <2>4 DEF Shows
  <2>6. j \in 1..n /\ flows[j] \in Entry /\ IsOpen(flows[j], a, t, sender(p), receiver(p))
    BY <1>2 DEF OpenAt, n
  <2>7. SameFlow(flows[i], flows[j])
    BY <2>1, <2>2, <2>3, <2>6, OpenSameFlow
  <2>8. i = j
    BY <2>1, <2>2, <2>6, <2>7 DEF Unique, IsOpen, n
  <2> QED BY <1>1, <1>4, <2>5, <2>8
<1>10. I \subseteq Parties
  BY <1>3, <1>4
<1>11. ASSUME NEW p \in Parties \ I PROVE h[p] = 0
  <2> SUFFICES ASSUME p # a, h[p] # 0 PROVE FALSE
    OBVIOUS
  <2>1. Shows(flows, h[p], a, t, sender(p), receiver(p))
    BY <1>6
  <2>2. PICK i \in OpenAt(flows, a, t, sender(p), receiver(p)) : flows[i].flowRate = h[p]
    BY <2>1 DEF Shows
  <2>3. /\ i \in 1..n /\ ~flows[i].isCancelled /\ flows[i].isIncoming \in BOOLEAN
        /\ InFlow(flows[i], a, t, sender(p), receiver(p))
    BY <1>2 DEF OpenAt, IsOpen, n, Entry
  <2>4. flows[i].token = t /\ flows[i].isIncoming = isIncoming /\ flows[i].entity = p
    BY <2>3 DEF InFlow
  <2>5. i \in S /\ m[i] = p
    BY <1>4, <1>5, <2>3, <2>4
  <2> QED BY <2>5
<1>12. SumFunctionOnSet(f, S) = SumFunctionOnSet(h, I)
  <2>1. \A x, y \in S : m[x] = m[y] => x = y
    BY <1>8
  <2>2. \A x \in S : f[x] \in Int /\ f[x] = h[m[x]]
    BY <1>9
  <2>3. IsFiniteSet(S)
    BY <1>1
  <2>4. SumFunctionOnSet(f, S) = SumFunctionOnSet(h, {m[x] : x \in S})
    BY <2>1, <2>2, <2>3, SumImage
  <2> QED BY <2>4
<1>13. IsFiniteSet(Parties) /\ \A p \in Parties : h[p] \in Int
  BY <1>6, StoreAssumption DEF Parties
<1> HIDE DEF I
<1>14. SumFunctionOnSet(h, Parties) = SumFunctionOnSet(h, I)
  BY <1>10, <1>11, <1>13, SumNonzero
<1> QED BY <1>1, <1>12, <1>14 DEF SumFunction

\* In its first session the script's cards sum up the agent's flows: every listed flow has a card and, once
\* all events have been reduced, the in- and outflow of a card are those of the chain.
THEOREM FirstSessionCards == Spec => [](sessions <= 1 => CardsMatchFlows)
<1>1. EachFlowHasCard /\ Inv /\ Shapes /\ Account /\ Followed => (sessions <= 1 => CardsMatchFlows)
  <2> SUFFICES ASSUME Inv, Shapes, Followed, sessions <= 1, Drained, st.superTokens # None,
                      NEW t \in Tokens, appStateReducer(st)[t] # None
               PROVE  LET card == appStateReducer(st)[t]
                          a == st.agentAddress
                      IN  /\ card.inflowRate
                               = SumFunction([p \in Parties |-> RateAt(<<t, p, a>>, Len(log))])
                          /\ card.outflowRate
                               = SumFunction([p \in Parties |-> RateAt(<<t, a, p>>, Len(log))])
    BY DEF CardsMatchFlows
  <2> DEFINE a == st.agentAddress
             in == [p \in Parties |-> RateAt(<<t, p, a>>, Len(log))]
             out == [p \in Parties |-> RateAt(<<t, a, p>>, Len(log))]
             card == appStateReducer(st)[t]
  <2>1. /\ StateOK(st) /\ LogOK(log) /\ Unique(st.flows) /\ st.flows \in Seq(Entry) /\ a \in Parties
        /\ \A i \in DOMAIN st.flows : st.flows[i].entity # a
    BY DEF Shapes, StateOK, Inv, Good, Parties
  <2>2. st.superTokens[t] # None
    BY DEF appStateReducer
  <2>3. /\ card.inflowRate = calculateInOutRate(st.flows, t, TRUE)
        /\ card.outflowRate = calculateInOutRate(st.flows, t, FALSE)
    BY <2>1, <2>2, CardIs
  <2>4. RateAt(<<t, a, a>>, Len(log)) = 0
    <3>1. \A b \in Blocks(log, t, a, a) : FALSE
      BY <2>1, FlowEvents DEF Blocks, IsOf, FlowOK
    <3>2. {b \in Blocks(log, t, a, a) : b <= Len(log)} = {}
      BY <3>1
    <3>3. RateOf(log, Len(log), t, a, a) = 0
      BY <2>1, <3>2, RateOfIs
    <3> QED BY <3>3, KeyViews
  <2>5. ASSUME NEW p \in Parties, p # a
        PROVE  /\ in[p] \in Nat /\ Shows(st.flows, in[p], a, t, p, a)
               /\ out[p] \in Nat /\ Shows(st.flows, out[p], a, t, a, p)
    BY <2>1, <2>5, DrainedShows
  <2>6. in[a] = 0 /\ out[a] = 0 /\ DOMAIN in = Parties /\ DOMAIN out = Parties
    BY <2>1, <2>4
  <2> HIDE DEF a, in, out, card
  <2>7. ASSUME NEW x \in BOOLEAN, x PROVE calculateInOutRate(st.flows, t, x) = SumFunction(in)
    <3>1. \A p \in Parties : p # a =>
            /\ in[p] \in Nat
            /\ x => Shows(st.flows, in[p], a, t, p, a)
            /\ ~x => Shows(st.flows, in[p], a, t, a, p)
      BY <2>5, <2>7
    <3> QED BY <2>1, <2>6, <3>1, EntriesSum
  <2>8. ASSUME NEW x \in BOOLEAN, ~x PROVE calculateInOutRate(st.flows, t, x) = SumFunction(out)
    <3>1. \A p \in Parties : p # a =>
            /\ out[p] \in Nat
            /\ x => Shows(st.flows, out[p], a, t, p, a)
            /\ ~x => Shows(st.flows, out[p], a, t, a, p)
      BY <2>5, <2>8
    <3> QED BY <2>1, <2>6, <3>1, EntriesSum
  <2> QED BY <2>3, <2>7, <2>8 DEF a, in, out, card
<1> QED BY <1>1, FlowsHaveCards, FollowedAlways, InvAlways, PTL
=============================================================================
