------------------------------ MODULE Treasury ------------------------------
(***************************************************************************)
(* What the Superfluid app promises an organisation, with the plumbing of  *)
(* Superfluid.sol left out: no app account that funds travel through, no   *)
(* allowances, no chains of token and vault calls.  Every operation is one *)
(* move of funds, or one change of a flow, with the accounts allowed to    *)
(* ask for it.  SuperfluidApp is shown to implement this specification.    *)
(***************************************************************************)
EXTENDS Naturals

CONSTANTS
  Accounts,        \* externally owned accounts
  Agents,          \* Aragon Agents the app may be pointed at
  SuperTokens,     \* Super Tokens; each wraps its own underlying ERC-20
  App,             \* the Superfluid app's own address
  StreamManagers,  \* holders of MANAGE_STREAMS_ROLE
  TokenManagers,   \* holders of MANAGE_SUPERTOKENS_ROLE
  AgentSetters,    \* holders of SET_AGENT_ROLE
  OtherContracts,  \* contracts that are neither agents nor Super Tokens
  NoAgent,         \* the app's agent before initialize
  Period,          \* the protocol's liquidation period: a flow of rate r locks r * Period
  MaxAmount,       \* bound: the largest amount a call asks for
  MaxRate          \* bound: the largest flow rate a call asks for

Amounts == 0..MaxAmount
Rates == 0..MaxRate
Holders == Accounts \cup OtherContracts \cup Agents \cup {App}

VARIABLES
  agent,   \* the agent that holds the organisation's funds
  super,   \* super[t][h]: available Super Tokens t of holder h
  under,   \* under[t][h]: underlying of t; under[t][t] is what backs t
  flow     \* flow[t][s][r]: rate of the flow of t from s to r, 0 if none

tvars == <<agent, super, under, flow>>

Move(ledger, t, from, to, n) ==
  LET paid == [ledger EXCEPT ![t][from] = @ - n]
  IN  [paid EXCEPT ![t][to] = @ + n]

Lock(r) == r * Period

\* Funds reach the agent from their owner, or from what was left with the app.
Credit(from, t, n) ==
  /\ from \notin Agents
  /\ n <= super[t][from]
  /\ super' = Move(super, t, from, agent, n)
  /\ UNCHANGED <<agent, under, flow>>

\* The agent's Super Tokens are sent to a holder of the caller's choice on a stream
\* manager's word only.
Spend(caller, t, to, n) ==
  /\ caller \in StreamManagers
  /\ n <= super[t][agent]
  /\ super' = Move(super, t, agent, to, n)
  /\ UNCHANGED <<agent, under, flow>>

\* n of the agent's underlying becomes n of its Super Tokens: no one else pays or gains.
Wrap(caller, t, n) ==
  /\ caller \in TokenManagers
  /\ n <= under[t][agent]
  /\ under' = Move(under, t, agent, t, n)
  /\ super' = [super EXCEPT ![t][agent] = @ + n]
  /\ UNCHANGED <<agent, flow>>

Unwrap(caller, t, n) ==
  /\ caller \in TokenManagers
  /\ n <= super[t][agent]
  /\ n <= under[t][t]
  /\ super' = [super EXCEPT ![t][agent] = @ - n]
  /\ under' = Move(under, t, t, agent, n)
  /\ UNCHANGED <<agent, flow>>

\* A token manager who names a contract that is no Super Token moves funds of the agent
\* to the app, or what lies with the app to the agent: nowhere else.
Lend(caller, t, n) ==
  /\ caller \in TokenManagers
  /\ \/ /\ n <= super[t][agent]
        /\ super' = Move(super, t, agent, App, n)
        /\ UNCHANGED under
     \/ /\ n <= under[t][agent]
        /\ under' = Move(under, t, agent, App, n)
        /\ UNCHANGED super
  /\ UNCHANGED <<agent, flow>>

Return(caller, t, n) ==
  /\ caller \in TokenManagers
  /\ \/ /\ n <= super[t][App]
        /\ super' = Move(super, t, App, agent, n)
        /\ UNCHANGED under
     \/ /\ n <= under[t][App]
        /\ under' = Move(under, t, App, agent, n)
        /\ UNCHANGED super
  /\ UNCHANGED <<agent, flow>>

SetRate(t, s, r, rate) ==
  /\ Lock(rate) <= super[t][s] + Lock(flow[t][s][r])
  /\ flow' = [flow EXCEPT ![t][s][r] = rate]
  /\ super' = [super EXCEPT ![t][s] = @ + Lock(flow[t][s][r]) - Lock(rate)]
  /\ UNCHANGED <<agent, under>>

\* Streams leave the agent that is current, and a manager sets their rate; the
\* receiver may only end the one it receives.
Direct(caller, t, r, rate) ==
  /\ r # agent
  /\ caller \in StreamManagers \/ (caller = r /\ rate = 0 /\ flow[t][agent][r] > 0)
  /\ SetRate(t, agent, r, rate)

Appoint(caller, a) ==
  /\ caller \in AgentSetters
  /\ agent' = a
  /\ UNCHANGED <<super, under, flow>>

\* The app is installed and pointed at its first agent; whoever installs it calls this.
Install(a) == agent' = a /\ UNCHANGED <<super, under, flow>>

Held(t, h) == super[t][h] + under[t][h]

\* What others do on the chain, and the app for an agent that is no Agent: it never
\* takes from an Agent except what streams owe, and what lies with the app goes to a
\* contract that is neither an Agent nor a Super Token, or stays.
World ==
  /\ UNCHANGED agent
  /\ \A t \in SuperTokens, a \in Agents :
       /\ under'[t][a] >= under[t][a]
       /\ \A r \in Holders :
            flow'[t][a][r] # flow[t][a][r] => flow'[t][a][r] = 0
       /\ super'[t][a] < super[t][a] =>
            \E r \in Holders : flow[t][a][r] = super[t][a] - super'[t][a]
  /\ \A t \in SuperTokens :
       \/ Held(t, App)' >= Held(t, App)
       \/ \E c \in OtherContracts : Held(t, c)' = Held(t, c) + Held(t, App) - Held(t, App)'

TNext ==
  \/ agent = NoAgent /\ \E a \in Agents \cup OtherContracts : Install(a)
  \/ /\ agent \in Agents
     /\ \E t \in SuperTokens, n \in Amounts :
          \/ \E from \in Holders : Credit(from, t, n)
          \/ \E c \in Accounts, to \in Holders : Spend(c, t, to, n)
          \/ \E c \in Accounts :
               Wrap(c, t, n) \/ Unwrap(c, t, n) \/ Lend(c, t, n) \/ Return(c, t, n)
  \/ /\ agent \in Agents
     /\ \E c \in Holders, t \in SuperTokens, r \in Holders, rate \in Rates :
          Direct(c, t, r, rate)
  \/ \E c \in Accounts, a \in Agents \cup OtherContracts : Appoint(c, a)
  \/ World

TInit ==
  /\ agent = NoAgent
  /\ \A t \in SuperTokens : \A a \in Agents : \A r \in Holders : flow[t][a][r] = 0

TSpec == TInit /\ [][TNext]_tvars
=============================================================================
