--------------------------- MODULE SuperfluidApp ---------------------------
(***************************************************************************)
(* contracts/Superfluid.sol: the Aragon app through which an organisation  *)
(* holds Super Tokens in an Agent, converts them and streams them.         *)
(*                                                                         *)
(* A transaction is atomic: a call that reverts changes nothing, so an     *)
(* action's guard is the conjunction of every require on its path, its own *)
(* and those of the calls it makes, and the action's primed state is what  *)
(* is left when all of them went through.  Inside an action the successive *)
(* calls are the successive ledgers of a LET.                              *)
(*                                                                         *)
(* The Agent (a Vault), the ACL, the Super Tokens and the Constant Flow    *)
(* Agreement (CFA) are not part of the repository: the operators marked    *)
(* external model them from how the contract and its tests use them.       *)
(*                                                                         *)
(* The contract takes any contract for an agent, and for a Super Token any *)
(* contract that answers getHost.  OtherContracts are those of which no    *)
(* more is known: within a call they do nothing, what they do with funds   *)
(* or approvals they come to have is an action of their own, and a token   *)
(* of theirs keeps its own books, which are not kept here.                 *)
(***************************************************************************)
EXTENDS Naturals

CONSTANTS
  Accounts,        \* externally owned accounts
  Agents,          \* Aragon Agents
  GrantedAgents,   \* agents that gave the app TRANSFER_ROLE and SAFE_EXECUTE_ROLE
  OtherContracts,  \* contracts that are neither agents nor Super Tokens
  SuperTokens,     \* Super Tokens; each wraps its own underlying ERC-20
  HostAnswering,   \* contracts on which a static call of getHost succeeds
  App,             \* address(this)
  Host, Cfa,       \* the Superfluid protocol's host and Constant Flow Agreement
  NoAgent,         \* the zero address: agent, host and cfa before initialize
  StreamManagers,  \* holders of MANAGE_STREAMS_ROLE
  TokenManagers,   \* holders of MANAGE_SUPERTOKENS_ROLE
  AgentSetters,    \* holders of SET_AGENT_ROLE
  Endowment,       \* what each account (Super Tokens) and each agent (underlying) starts with
  Period,          \* the protocol's liquidation period: a flow of rate r locks r * Period
  MaxAmount,       \* bound: the largest amount a call asks for
  MaxRate          \* bound: the largest flow rate a call asks for

Users == Accounts \cup OtherContracts
Contracts == Agents \cup OtherContracts
Spenders == Contracts \cup SuperTokens
Holders == Users \cup Agents \cup {App}

ASSUME NumberAssumption ==
  /\ Endowment \in Nat /\ Period \in Nat /\ MaxAmount \in Nat /\ MaxRate \in Nat

\* Addresses are what they are: an account is no contract, a token is no agent.
ASSUME AddressAssumption ==
  /\ GrantedAgents \subseteq Agents
  /\ Accounts \cap (Agents \cup OtherContracts \cup SuperTokens \cup {App}) = {}
  /\ Agents \cap (OtherContracts \cup SuperTokens \cup {App}) = {}
  /\ OtherContracts \cap (SuperTokens \cup {App}) = {}
  /\ App \notin SuperTokens
  /\ NoAgent \notin Agents \cup OtherContracts \cup SuperTokens \cup {App}
  /\ {Host, Cfa} \cap Accounts = {}
  /\ SuperTokens \subseteq HostAnswering
  /\ HostAnswering \subseteq SuperTokens \cup OtherContracts

ASSUME RoleAssumption ==
  /\ StreamManagers \subseteq Accounts
  /\ TokenManagers \subseteq Accounts
  /\ AgentSetters \subseteq Accounts

VARIABLES
  initialized,     \* hasInitialized()
  agent, host, cfa, \* Superfluid.agent, host and cfa
  super,           \* super[t][h]: available balance of Super Token t
  under,           \* under[t][h]: balance of t's underlying; under[t][t] backs t
  approved,        \* approved[t][u]: what user u lets the app take of t
  allowance,       \* allowance[t][a]: what the app lets contract a take of its t
  underAllowance,  \* underAllowance[t][a]: what it lets a take of its underlying of t
  flow,            \* flow[t][s][r]: rate of the CFA flow of t from s to r, 0 if none
  left,            \* history: Super Tokens left with the app, by a payment to it or by a call
                   \* that named one of OtherContracts, and not passed on since
  leftUnder        \* history: likewise of underlying

ledger == <<super, under, approved, allowance, underAllowance, left, leftUnder>>
config == <<initialized, agent, host, cfa>>
vars == <<config, ledger, flow>>

Amounts == 0..MaxAmount
Rates == 0..MaxRate

-----------------------------------------------------------------------------
(* External: ERC-20, Super Token, Vault and CFA.                            *)

Transfer(book, t, from, to, n) ==
  LET paid == [book EXCEPT ![t][from] = @ - n]
  IN  [paid EXCEPT ![t][to] = @ + n]

isContract(a) == a \in Contracts \cup SuperTokens \cup {App, Host, Cfa}

\* The app's static call of getHost succeeds; what it returns is not looked at.
isValidSuperToken(t) == isContract(t) /\ t \in HostAnswering

\* The token is one whose books are kept here.  The same call on another one moves
\* nothing of them, unless it asks that token for its underlying (upgrade, downgrade).
Booked(t) == t \in SuperTokens

\* auth(role): the app is initialized and the ACL knows the caller.
auth(role, caller) == initialized /\ caller \in role

\* Agent.transfer and Agent.safeExecute let the app through.
AgentObeys == agent \in GrantedAgents

\* The app was pointed at a contract that is no Agent.
AgentUnknown == agent \in OtherContracts

\* The deposit the CFA locks of the sender's balance.
Lock(rate) == rate * Period

\* The flow t from s to r gets this rate; the difference in deposit is taken
\* from, or returned to, s.
CfaSetRate(t, s, r, rate) ==
  /\ Lock(rate) <= super[t][s] + Lock(flow[t][s][r])
  /\ flow' = [flow EXCEPT ![t][s][r] = rate]
  /\ super' = [super EXCEPT ![t][s] = @ + Lock(flow[t][s][r]) - Lock(rate)]

CfaCreate(t, s, r, rate) ==
  s # r /\ rate > 0 /\ flow[t][s][r] = 0 /\ CfaSetRate(t, s, r, rate)
CfaUpdate(t, s, r, rate) ==
  s # r /\ rate > 0 /\ flow[t][s][r] > 0 /\ CfaSetRate(t, s, r, rate)
CfaDelete(t, s, r) ==
  s # r /\ flow[t][s][r] > 0 /\ CfaSetRate(t, s, r, 0)

-----------------------------------------------------------------------------
(* The contract's operations.                                               *)

\* Mutation: initialize does not mark the app initialized.
InitializeForgets(_agent, _host, _cfa) ==
  /\ ~initialized
  /\ isContract(_agent) /\ isContract(_host) /\ isContract(_cfa)
  /\ agent' = _agent /\ host' = _host /\ cfa' = _cfa
  /\ UNCHANGED <<initialized, ledger, flow>>

initialize(_agent, _host, _cfa) ==
  /\ ~initialized
  /\ isContract(_agent) /\ isContract(_host) /\ isContract(_cfa)
  /\ agent' = _agent
  /\ host' = _host
  /\ cfa' = _cfa
  /\ initialized' = TRUE
  /\ UNCHANGED <<ledger, flow>>

\* Mutation: the app approves the agent again after the agent took the funds.
DepositApprovesLate(caller, t, n, isExternal) ==
  /\ initialized /\ isValidSuperToken(t) /\ Booked(t) /\ n > 0 /\ agent \in Agents
  /\ n <= super[t][IF isExternal THEN caller ELSE App]
  /\ isExternal => n <= approved[t][caller]
  /\ super' = Transfer(super, t, IF isExternal THEN caller ELSE App, agent, n)
  /\ allowance' = [allowance EXCEPT ![t][agent] = n]
  /\ approved' = [approved EXCEPT ![t][caller] = IF isExternal THEN @ - n ELSE @]
  /\ left' = [left EXCEPT ![t] = IF isExternal THEN @ ELSE @ - n]
  /\ UNCHANGED <<config, under, underAllowance, leftUnder, flow>>

\* transferFrom(caller -> app) when external, approve(agent), then agent.deposit,
\* which in an Agent is transferFrom(app -> agent).
deposit(caller, t, n, isExternal) ==
  /\ initialized
  /\ isValidSuperToken(t) /\ Booked(t)
  /\ n > 0
  /\ isExternal => n <= approved[t][caller] /\ n <= super[t][caller]
  /\ LET inApp == IF isExternal THEN Transfer(super, t, caller, App, n) ELSE super
         granted == [allowance EXCEPT ![t][agent] = n]
         arrived == [left EXCEPT ![t] = IF isExternal THEN @ + n ELSE @]
     IN  \/ /\ agent \in Agents
            /\ n <= inApp[t][App]
            /\ super' = Transfer(inApp, t, App, agent, n)
            /\ allowance' = [granted EXCEPT ![t][agent] = @ - n]
            /\ left' = [arrived EXCEPT ![t] = @ - n]
         \/ /\ AgentUnknown
            /\ super' = inApp
            /\ allowance' = granted
            /\ left' = arrived
  /\ approved' = [approved EXCEPT ![t][caller] = IF isExternal THEN @ - n ELSE @]
  /\ UNCHANGED <<config, under, underAllowance, leftUnder, flow>>

withdraw(caller, t, receiver, n) ==
  /\ auth(StreamManagers, caller)
  /\ isValidSuperToken(t) /\ Booked(t)
  /\ n > 0
  /\ AgentObeys
  /\ n <= super[t][agent]
  /\ super' = Transfer(super, t, agent, receiver, n)
  /\ left' = [left EXCEPT ![t] = IF receiver = App THEN @ + n ELSE @]
  /\ UNCHANGED <<config, under, approved, allowance, underAllowance,
                 leftUnder, flow>>

\* Mutation: the last line of upgrade is missing, the Super Tokens stay in the app.
UpgradeKeeps(caller, t, n) ==
  /\ auth(TokenManagers, caller) /\ isValidSuperToken(t) /\ Booked(t) /\ n > 0 /\ AgentObeys
  /\ n <= under[t][agent]
  /\ under' = Transfer(under, t, agent, t, n)
  /\ super' = [super EXCEPT ![t][App] = @ + n]
  /\ UNCHANGED <<config, approved, allowance, underAllowance, left,
                 leftUnder, flow>>

\* agent.transfer(underlying -> app), approve(token), token.upgrade (which takes
\* the underlying and mints), token.transfer(app -> agent).  An agent that is no
\* Agent sends nothing, and what is wrapped is what the app was left with.
UpgradeBooked(t, n) ==
  /\ Booked(t)
  /\ AgentObeys => n <= under[t][agent]
  /\ LET inApp == IF AgentObeys THEN Transfer(under, t, agent, App, n) ELSE under
         granted == [underAllowance EXCEPT ![t][t] = n]
         minted == [super EXCEPT ![t][App] = @ + n]
     IN  /\ n <= inApp[t][App]
         /\ under' = Transfer(inApp, t, App, t, n)
         /\ underAllowance' = [granted EXCEPT ![t][t] = @ - n]
         /\ n <= minted[t][App]
         /\ super' = Transfer(minted, t, App, agent, n)
  /\ leftUnder' = [leftUnder EXCEPT ![t] = IF AgentObeys THEN @ ELSE @ - n]
  /\ UNCHANGED <<allowance, left>>

\* An Agent sends the app n of what a token that is no Super Token calls its underlying.
Lends(x, n) ==
  \/ /\ AgentObeys /\ n <= super[x][agent]
     /\ super' = Transfer(super, x, agent, App, n)
     /\ left' = [left EXCEPT ![x] = @ + n]
     /\ UNCHANGED <<under, leftUnder>>
  \/ /\ AgentObeys /\ n <= under[x][agent]
     /\ under' = Transfer(under, x, agent, App, n)
     /\ leftUnder' = [leftUnder EXCEPT ![x] = @ + n]
     /\ UNCHANGED <<super, left>>
  \/ UNCHANGED <<super, under, left, leftUnder>>

\* The app approves the token for n of what it calls its underlying when asked again.
Grants(t, y, n) ==
  \/ allowance' = [allowance EXCEPT ![y][t] = n] /\ UNCHANGED underAllowance
  \/ underAllowance' = [underAllowance EXCEPT ![y][t] = n] /\ UNCHANGED allowance
  \/ UNCHANGED <<allowance, underAllowance>>

upgrade(caller, t, n) ==
  /\ auth(TokenManagers, caller)
  /\ isValidSuperToken(t)
  /\ n > 0
  /\ AgentObeys \/ AgentUnknown
  /\ \/ UpgradeBooked(t, n)
     \/ ~Booked(t) /\ \E x, y \in SuperTokens : Lends(x, n) /\ Grants(t, y, n)
  /\ UNCHANGED <<config, approved, flow>>

\* Mutation: the underlying goes back to the caller instead of the agent.
DowngradeToCaller(caller, t, n) ==
  /\ auth(TokenManagers, caller) /\ isValidSuperToken(t) /\ Booked(t) /\ n > 0 /\ AgentObeys
  /\ n <= super[t][agent] /\ n <= under[t][t]
  /\ super' = [super EXCEPT ![t][agent] = @ - n]
  /\ under' = Transfer(under, t, t, caller, n)
  /\ UNCHANGED <<config, approved, allowance, underAllowance, left,
                 leftUnder, flow>>

\* agent.transfer(token -> app), token.downgrade (which burns and pays the
\* underlying out to the app), underlying.transfer(app -> agent).
DowngradeBooked(t, n) ==
  /\ Booked(t)
  /\ AgentObeys => n <= super[t][agent]
  /\ LET inApp == IF AgentObeys THEN Transfer(super, t, agent, App, n) ELSE super
         paid == Transfer(under, t, t, App, n)
     IN  /\ n <= inApp[t][App] /\ n <= under[t][t]
         /\ super' = [inApp EXCEPT ![t][App] = @ - n]
         /\ n <= paid[t][App]
         /\ under' = Transfer(paid, t, App, agent, n)
  /\ left' = [left EXCEPT ![t] = IF AgentObeys THEN @ ELSE @ - n]
  /\ UNCHANGED leftUnder

\* The app sends the agent n of what a token that is no Super Token calls its underlying.
Returns(x, n) ==
  \/ /\ n <= super[x][App]
     /\ super' = Transfer(super, x, App, agent, n)
     /\ left' = [left EXCEPT ![x] = @ - n]
     /\ UNCHANGED <<under, leftUnder>>
  \/ /\ n <= under[x][App]
     /\ under' = Transfer(under, x, App, agent, n)
     /\ leftUnder' = [leftUnder EXCEPT ![x] = @ - n]
     /\ UNCHANGED <<super, left>>

downgrade(caller, t, n) ==
  /\ auth(TokenManagers, caller)
  /\ isValidSuperToken(t)
  /\ n > 0
  /\ AgentObeys \/ AgentUnknown
  /\ \/ DowngradeBooked(t, n)
     \/ ~Booked(t) /\ \E x \in SuperTokens : Returns(x, n)
  /\ UNCHANGED <<config, approved, allowance, underAllowance, flow>>

\* agent.safeExecute(host, callAgreement(cfa, ...)): an Agent is then the CFA's
\* caller; any other contract does nothing.
callAgreement ==
  /\ AgentObeys /\ host = Host /\ cfa = Cfa
  /\ UNCHANGED <<config, under, approved, allowance, underAllowance,
                 left, leftUnder>>

\* Mutation: the flow leaves any agent the app was ever given, not the current one.
CreateFromAnyAgent(caller, t, receiver, rate) ==
  /\ auth(StreamManagers, caller)
  /\ isValidSuperToken(t) /\ Booked(t)
  /\ callAgreement
  /\ \E a \in Agents : CfaCreate(t, a, receiver, rate)

createFlow(caller, t, receiver, rate) ==
  /\ auth(StreamManagers, caller)
  /\ isValidSuperToken(t) /\ Booked(t)
  /\ callAgreement
  /\ CfaCreate(t, agent, receiver, rate)

updateFlow(caller, t, receiver, rate) ==
  /\ auth(StreamManagers, caller)
  /\ isValidSuperToken(t) /\ Booked(t)
  /\ callAgreement
  /\ CfaUpdate(t, agent, receiver, rate)

deleteFlow(caller, t, receiver) ==
  /\ auth(StreamManagers, caller)
  /\ isValidSuperToken(t) /\ Booked(t)
  /\ callAgreement
  /\ CfaDelete(t, agent, receiver)

\* getFlow's timestamp is 0 when there is no flow from the agent to the caller.
deleteOwnFlow(caller, t) ==
  /\ initialized
  /\ isValidSuperToken(t) /\ Booked(t)
  /\ agent \in Agents
  /\ flow[t][agent][caller] # 0
  /\ callAgreement
  /\ CfaDelete(t, agent, caller)

setAgent(caller, _agent) ==
  /\ auth(AgentSetters, caller)
  /\ isContract(_agent)
  /\ agent' = _agent
  /\ UNCHANGED <<initialized, host, cfa, ledger, flow>>

-----------------------------------------------------------------------------
(* What others do: accounts and other contracts use the tokens and the CFA *)
(* without the app (the front end's incoming flows and conversions do just *)
(* that), a contract uses what the app approved it for, time passes.       *)

Approve(u, t, n) ==
  /\ approved' = [approved EXCEPT ![t][u] = n]
  /\ UNCHANGED <<config, super, under, allowance, underAllowance,
                 left, leftUnder, flow>>

TransferSuper(u, t, to, n) ==
  /\ 0 < n /\ n <= super[t][u]
  /\ super' = Transfer(super, t, u, to, n)
  /\ left' = [left EXCEPT ![t] = IF to = App THEN @ + n ELSE @]
  /\ UNCHANGED <<config, under, approved, allowance, underAllowance,
                 leftUnder, flow>>

TransferUnder(u, t, to, n) ==
  /\ 0 < n /\ n <= under[t][u]
  /\ under' = Transfer(under, t, u, to, n)
  /\ leftUnder' = [leftUnder EXCEPT ![t] = IF to = App THEN @ + n ELSE @]
  /\ UNCHANGED <<config, super, approved, allowance, underAllowance,
                 left, flow>>

\* transferFrom by a contract that the app approved and that has not used it up.
Collect(c, t, n) ==
  /\ n > 0
  /\ \/ /\ n <= allowance[t][c] /\ n <= super[t][App]
        /\ super' = Transfer(super, t, App, c, n)
        /\ allowance' = [allowance EXCEPT ![t][c] = @ - n]
        /\ left' = [left EXCEPT ![t] = @ - n]
        /\ UNCHANGED <<under, underAllowance, leftUnder>>
     \/ /\ n <= underAllowance[t][c] /\ n <= under[t][App]
        /\ under' = Transfer(under, t, App, c, n)
        /\ underAllowance' = [underAllowance EXCEPT ![t][c] = @ - n]
        /\ leftUnder' = [leftUnder EXCEPT ![t] = @ - n]
        /\ UNCHANGED <<super, allowance, left>>
  /\ UNCHANGED <<config, approved, flow>>

\* useConvertTokens: the account converts its own tokens on the Super Token.
ConvertOwn(u, t, n) ==
  /\ n > 0
  /\ \/ /\ n <= under[t][u]
        /\ under' = Transfer(under, t, u, t, n)
        /\ super' = [super EXCEPT ![t][u] = @ + n]
     \/ /\ n <= super[t][u] /\ n <= under[t][t]
        /\ super' = [super EXCEPT ![t][u] = @ - n]
        /\ under' = Transfer(under, t, t, u, n)
  /\ UNCHANGED <<config, approved, allowance, underAllowance, left,
                 leftUnder, flow>>

\* useUpdateFlow and useDeleteFlow on an incoming flow, and anyone ending a flow
\* it receives: host.callAgreement by the account itself.
OwnFlow(u, t, h, rate) ==
  /\ \/ CfaCreate(t, u, h, rate)
     \/ CfaUpdate(t, u, h, rate)
     \/ rate = 0 /\ (CfaDelete(t, u, h) \/ CfaDelete(t, h, u))
  /\ UNCHANGED <<config, under, approved, allowance, underAllowance,
                 left, leftUnder>>

\* A unit of time of one flow.
Stream(t, s, r) ==
  /\ 0 < flow[t][s][r] /\ flow[t][s][r] <= super[t][s]
  /\ super' = Transfer(super, t, s, r, flow[t][s][r])
  /\ left' = [left EXCEPT ![t] = IF r = App THEN @ + flow[t][s][r] ELSE @]
  /\ UNCHANGED <<config, under, approved, allowance, underAllowance,
                 leftUnder, flow>>

\* The sender cannot pay: whoever notices closes the flow and keeps the deposit.
Liquidate(u, t, s, r) ==
  /\ flow[t][s][r] > super[t][s]
  /\ flow' = [flow EXCEPT ![t][s][r] = 0]
  /\ super' = [super EXCEPT ![t][u] = @ + Lock(flow[t][s][r])]
  /\ UNCHANGED <<config, under, approved, allowance, underAllowance,
                 left, leftUnder>>

-----------------------------------------------------------------------------
Init ==
  /\ initialized = FALSE
  /\ agent = NoAgent /\ host = NoAgent /\ cfa = NoAgent
  /\ super = [t \in SuperTokens |-> [h \in Holders |-> IF h \in Accounts THEN Endowment ELSE 0]]
  /\ under = [t \in SuperTokens |->
               [h \in Holders \cup SuperTokens |-> IF h \in Agents \cup {t} THEN Endowment ELSE 0]]
  /\ approved = [t \in SuperTokens |-> [u \in Users |-> 0]]
  /\ allowance = [t \in SuperTokens |-> [a \in Spenders |-> 0]]
  /\ underAllowance = [t \in SuperTokens |-> [a \in Spenders |-> 0]]
  /\ flow = [t \in SuperTokens |-> [s \in Holders |-> [r \in Holders |-> 0]]]
  /\ left = [t \in SuperTokens |-> 0]
  /\ leftUnder = [t \in SuperTokens |-> 0]

Tokens == SuperTokens \cup OtherContracts  \* what a call may name as its token

AppNext ==
  \/ \E a \in Contracts \cup Accounts, h \in {Host} \cup Accounts, f \in {Cfa} \cup Accounts :
       initialize(a, h, f)
  \/ \E c \in Users, a \in Contracts \cup Accounts : setAgent(c, a)
  \/ \E c \in Users, t \in Tokens, n \in Amounts :
       \/ \E ext \in BOOLEAN : deposit(c, t, n, ext)
       \/ \E h \in Holders : withdraw(c, t, h, n)
       \/ upgrade(c, t, n)
       \/ downgrade(c, t, n)
  \/ \E c \in Users, t \in Tokens :
       \/ \E h \in Holders, rate \in Rates : createFlow(c, t, h, rate) \/ updateFlow(c, t, h, rate)
       \/ \E h \in Holders : deleteFlow(c, t, h)
       \/ deleteOwnFlow(c, t)

WorldNext ==
  \/ \E u \in Users, t \in SuperTokens, n \in Amounts :
       \/ Approve(u, t, n)
       \/ \E h \in Holders : TransferSuper(u, t, h, n) \/ TransferUnder(u, t, h, n)
       \/ ConvertOwn(u, t, n)
  \/ \E c \in OtherContracts, t \in SuperTokens, n \in Amounts : Collect(c, t, n)
  \/ \E u \in Users, t \in SuperTokens, h \in Holders, rate \in Rates : OwnFlow(u, t, h, rate)
  \/ \E t \in SuperTokens, s \in Holders, r \in Holders :
       Stream(t, s, r) \/ \E u \in Users : Liquidate(u, t, s, r)

Next == AppNext \/ WorldNext

Spec == Init /\ [][Next]_vars

-----------------------------------------------------------------------------
(* Properties.                                                              *)

\* Balances, allowances and rates are natural numbers (the EVM's uint256 never
\* goes below 0) and `agent` is set exactly when the app is initialized.
TypeOK ==
  /\ initialized \in BOOLEAN
  /\ agent \in Contracts \cup {NoAgent}
  /\ initialized <=> agent # NoAgent
  /\ host \in {Host, NoAgent} /\ cfa \in {Cfa, NoAgent}
  /\ super \in [SuperTokens -> [Holders -> Nat]]
  /\ under \in [SuperTokens -> [Holders \cup SuperTokens -> Nat]]
  /\ approved \in [SuperTokens -> [Users -> Nat]]
  /\ allowance \in [SuperTokens -> [Spenders -> Nat]]
  /\ underAllowance \in [SuperTokens -> [Spenders -> Nat]]
  /\ flow \in [SuperTokens -> [Holders -> [Holders -> Nat]]]
  /\ left \in [SuperTokens -> Nat]
  /\ leftUnder \in [SuperTokens -> Nat]

\* The app is a pass-through: between transactions it holds exactly what was left with
\* it, by a payment to it or by a call that named one of OtherContracts as its token or
\* had one for its agent.  No deposit, conversion or withdrawal of a Super Token leaves a
\* remainder with the app while its agent is an Agent.
PassThrough ==
  \A t \in SuperTokens : super[t][App] = left[t] /\ under[t][App] = leftUnder[t]

\* No approval given inside a transaction outlives it: neither an Agent (also one that
\* has been replaced) nor a Super Token can pull funds from the app later, whatever
\* other contracts calls have named in between; only those can be left with one.
NoStandingAllowance ==
  \A t \in SuperTokens : \A a \in Agents \cup SuperTokens :
    allowance[t][a] = 0 /\ underAllowance[t][a] = 0

\* The streams of an agent that is not the current one are frozen: after setAgent no
\* call opens, raises or lowers them; they can only be ended from outside.
ReplacedAgentFrozen ==
  [][\A t \in SuperTokens : \A a \in Agents \ {agent} : \A r \in Holders :
       flow'[t][a][r] \in {flow[t][a][r], 0}]_vars

\* The treasury's books are the contract's without its host and cfa and without the allowances,
\* which serve only inside a call.
T == INSTANCE Treasury WITH agent <- agent, super <- super, under <- under, flow <- flow

\* The contract implements Treasury: through all its intermediate transfers every
\* operation amounts to one move of funds asked for by someone allowed to.
ImplementsTreasury == T!TSpec
=============================================================================
