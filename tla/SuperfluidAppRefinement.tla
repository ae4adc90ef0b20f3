---------------------- MODULE SuperfluidAppRefinement ----------------------
(***************************************************************************)
(* The contract implements Treasury, for any accounts, agents, tokens and  *)
(* other contracts: each operation of the app, with all its transfers, is  *)
(* one operation of the treasury, and what others do never takes from an   *)
(* agent more than its streams owe.                                        *)
(***************************************************************************)
EXTENDS SuperfluidAppProofs

\* The two modules mean the same by a transfer, a locked deposit and a holder.
LEMMA SameOperators ==
  /\ \A book, t, from, to, n : T!Move(book, t, from, to, n) = Transfer(book, t, from, to, n)
  /\ \A r : T!Lock(r) = Lock(r)
  /\ T!Holders = Holders /\ T!Amounts = Amounts /\ T!Rates = Rates
  BY DEF T!Move, Transfer, T!Lock, Lock, T!Holders, Holders, Users, T!Amounts, Amounts, T!Rates, Rates

LEMMA InitRefines == Init => T!TInit
  BY Members, SameOperators DEF Init, T!TInit

LEMMA InitializeInstalls ==
  ASSUME Inv, NEW a \in Contracts \cup Accounts,
         NEW h \in {Host} \cup Accounts, NEW f \in {Cfa} \cup Accounts, initialize(a, h, f)
  PROVE  T!TNext
<1>1. agent = NoAgent
  BY DEF Inv, TypeOK, initialize
<1>2. a \in Agents \cup OtherContracts
  BY AddressAssumption DEF initialize, isContract, Contracts
<1>3. T!Install(a)
  BY DEF T!Install, initialize, ledger
<1> QED BY <1>1, <1>2, <1>3 DEF T!TNext

LEMMA SetAgentAppoints ==
  ASSUME Inv, NEW c \in Users, NEW a \in Contracts \cup Accounts, setAgent(c, a)
  PROVE  T!TNext
<1>1. a \in Agents \cup OtherContracts
  BY AddressAssumption DEF setAgent, isContract, Contracts
<1>2. T!Appoint(c, a) /\ c \in Accounts
  BY RoleAssumption DEF T!Appoint, setAgent, auth, ledger
<1> QED BY <1>1, <1>2 DEF T!TNext

\* What the treasury asks of the world, as one statement per holder that it is about.
Harmless ==
  /\ UNCHANGED agent
  /\ \A t \in SuperTokens, a \in Agents :
       /\ under'[t][a] >= under[t][a]
       /\ \A r \in Holders : flow'[t][a][r] # flow[t][a][r] => flow'[t][a][r] = 0
       /\ super'[t][a] < super[t][a] =>
            \E r \in Holders : flow[t][a][r] = super[t][a] - super'[t][a]
  /\ \A t \in SuperTokens : under'[t][App] >= under[t][App] /\ super'[t][App] >= super[t][App]

LEMMA HarmlessIsWorld == ASSUME Inv, Inv', Harmless PROVE T!TNext
<1>1. ASSUME NEW t \in SuperTokens PROVE T!Held(t, App)' >= T!Held(t, App)
  <2>1. /\ super[t][App] \in Nat /\ under[t][App] \in Nat
        /\ super'[t][App] \in Nat /\ under'[t][App] \in Nat
    BY Members DEF Inv, TypeOK
  <2> QED BY <2>1 DEF Harmless, T!Held
<1>2. T!World
  BY <1>1, SameOperators DEF Harmless, T!World
<1> QED BY <1>2 DEF T!TNext

\* An account, or a stream, pays Super Tokens.
LEMMA PayHarmless ==
  ASSUME Inv, NEW t \in SuperTokens, NEW from \in Holders \ {App}, NEW to \in Holders,
         NEW n \in Nat, n <= super[t][from],
         from \in Users \/ \E r \in Holders : flow[t][from][r] = n,
         super' = Transfer(super, t, from, to, n),
         UNCHANGED <<agent, under, flow>>
  PROVE  Harmless
<1>1. /\ super \in [SuperTokens -> [Holders -> Nat]]
      /\ under \in [SuperTokens -> [Holders \cup SuperTokens -> Nat]]
      /\ flow \in [SuperTokens -> [Holders -> [Holders -> Nat]]]
  BY DEF Inv, TypeOK
<1>2. super' = AfterTransfer(SuperTokens, Holders, super, t, from, to, n)
  BY <1>1, TransferIs
<1>3. ASSUME NEW x \in SuperTokens, NEW h \in Holders
      PROVE  \/ super'[x][h] >= super[x][h]
             \/ x = t /\ h = from /\ super[x][h] - super'[x][h] = n
  <2>1. super'[x][h] = IF x # t \/ from = to THEN super[x][h]
                       ELSE IF h = from THEN super[x][h] - n
                       ELSE IF h = to THEN super[x][h] + n ELSE super[x][h]
    BY <1>2 DEF AfterTransfer
  <2>2. super[x][h] \in Nat  BY <1>1
  <2> QED BY <2>1, <2>2
<1>4. ASSUME NEW x \in SuperTokens, NEW h \in Holders \cup SuperTokens
      PROVE  under'[x][h] >= under[x][h]
  BY <1>1
<1>5. ASSUME NEW x \in SuperTokens, NEW h \in Holders
      PROVE  super[x][h] \in Nat /\ super'[x][h] \in Nat
  <2>1. AfterTransfer(SuperTokens, Holders, super, t, from, to, n)
          \in [SuperTokens -> [Holders -> Nat]]
    BY <1>1, TransferType
  <2> QED BY <1>1, <1>2, <2>1
<1>6. ASSUME NEW x \in SuperTokens, NEW a \in Agents, super'[x][a] < super[x][a]
      PROVE  \E r \in Holders : flow[x][a][r] = super[x][a] - super'[x][a]
  <2>1. a \in Holders /\ a \notin Users  BY Members
  <2>2. x = t /\ a = from /\ super[x][a] - super'[x][a] = n
    BY <1>3, <1>5, <1>6, <2>1
  <2> QED BY <2>1, <2>2
<1>7. ASSUME NEW x \in SuperTokens PROVE super'[x][App] >= super[x][App]
  BY <1>3, Members
<1>8. \A x \in SuperTokens, a \in Agents : a \in Holders /\ under'[x][a] >= under[x][a]
  BY <1>4, Members
<1>9. \A x \in SuperTokens : under'[x][App] >= under[x][App]
  BY <1>4, Members
<1> QED BY <1>6, <1>7, <1>8, <1>9 DEF Harmless

LEMMA TransferUnderHarmless ==
  ASSUME Inv, NEW u \in Users, NEW t \in SuperTokens, NEW to \in Holders, NEW n \in Amounts,
         TransferUnder(u, t, to, n)
  PROVE  Harmless
<1> DEFINE H == Holders \cup SuperTokens
<1>1. super \in [SuperTokens -> [Holders -> Nat]] /\ under \in [SuperTokens -> [H -> Nat]]
  BY DEF Inv, TypeOK
<1>2. n \in Nat /\ u \in H /\ to \in H /\ App \in H /\ \A a \in Agents : a \in H
  BY Members
<1> HIDE DEF H
<1>3. under' = AfterTransfer(SuperTokens, H, under, t, u, to, n)
  BY <1>1, <1>2, TransferIs DEF TransferUnder
<1>4. ASSUME NEW x \in SuperTokens, NEW h \in H, h # u
      PROVE  under'[x][h] >= under[x][h]
  <2>1. under[x][h] \in Nat  BY <1>1
  <2> QED BY <1>2, <1>3, <1>4, <2>1 DEF AfterTransfer
<1>5. UNCHANGED <<agent, super, flow>>
  BY DEF TransferUnder, config
<1>6. ASSUME NEW x \in SuperTokens, NEW h \in Holders
      PROVE  super'[x][h] >= super[x][h] /\ ~(super'[x][h] < super[x][h])
  <2>1. super[x][h] \in Nat  BY <1>1
  <2> QED BY <1>5, <2>1
<1> QED BY <1>2, <1>4, <1>5, <1>6, Members DEF Harmless

\* An account converts its own tokens.
LEMMA ConvertHarmless ==
  ASSUME Inv, NEW t \in SuperTokens, NEW u \in Users, NEW n \in Nat, Converts(t, u, u, n),
         UNCHANGED <<agent, flow>>
  PROVE  Harmless
<1> DEFINE H == Holders \cup SuperTokens
<1>1. super \in [SuperTokens -> [Holders -> Nat]] /\ under \in [SuperTokens -> [H -> Nat]]
  BY DEF Inv, TypeOK
<1>2. u \in H /\ t \in H /\ App \in H /\ App # t /\ \A a \in Agents : a \in H
  BY Members
<1>3. \/ under' = AfterTransfer(SuperTokens, H, under, t, u, t, n)
      \/ under' = AfterTransfer(SuperTokens, H, under, t, t, u, n)
  BY DEF Converts
<1> HIDE DEF H
<1>4. ASSUME NEW x \in SuperTokens, NEW h \in H, h # u, h # t
      PROVE  under'[x][h] >= under[x][h]
  <2>1. under[x][h] \in Nat  BY <1>1
  <2>2. under'[x][h] = under[x][h]
    BY <1>3, <1>4 DEF AfterTransfer
  <2> QED BY <2>1, <2>2
<1>5. ASSUME NEW x \in SuperTokens, NEW h \in Holders, h # u
      PROVE  super'[x][h] >= super[x][h] /\ ~(super'[x][h] < super[x][h])
  <2>1. super[x][h] \in Nat  BY <1>1
  <2>2. super'[x][h] = super[x][h]
    BY <1>5 DEF Converts, AfterSet
  <2> QED BY <2>1, <2>2
<1>6. \A a \in Agents : a \in Holders /\ a # u /\ a # t
  BY Members
<1> QED BY <1>2, <1>4, <1>5, <1>6, Members DEF Harmless

\* A flow is ended, or an account sets the rate of its own.
LEMMA RateHarmless ==
  ASSUME Inv, NEW t \in SuperTokens, NEW s \in Holders, NEW r \in Holders, NEW v \in Nat,
         v = 0 \/ s \in Users, CfaSetRate(t, s, r, v), UNCHANGED <<agent, under>>
  PROVE  Harmless
<1>1. /\ super \in [SuperTokens -> [Holders -> Nat]]
      /\ under \in [SuperTokens -> [Holders \cup SuperTokens -> Nat]]
      /\ flow \in [SuperTokens -> [Holders -> [Holders -> Nat]]]
  BY DEF Inv, TypeOK
<1>2. Lock(v) \in Nat /\ Lock(flow[t][s][r]) \in Nat /\ super[t][s] \in Nat /\ Lock(0) = 0
  <2>1. flow[t][s][r] \in Nat  BY <1>1
  <2> QED BY <1>1, <2>1, NumberAssumption DEF Lock
<1>3. super' = AfterSet(SuperTokens, Holders, super, t, s,
                        super[t][s] + Lock(flow[t][s][r]) - Lock(v))
  BY <1>1, <1>2 DEF CfaSetRate, AfterSet
<1>4. ASSUME NEW x \in SuperTokens, NEW h \in Holders, h \notin Users
      PROVE  super'[x][h] >= super[x][h] /\ ~(super'[x][h] < super[x][h])
  <2>1. super[x][h] \in Nat  BY <1>1
  <2>2. super'[x][h] = IF x = t /\ h = s THEN super[t][s] + Lock(flow[t][s][r]) - Lock(v)
                       ELSE super[x][h]
    BY <1>3 DEF AfterSet
  <2>3. h = s => Lock(v) = 0
    BY <1>2, <1>4
  <2> QED BY <1>2, <2>1, <2>2, <2>3
<1>5. ASSUME NEW x \in SuperTokens, NEW h \in Holders, h \notin Users, NEW y \in Holders,
             flow'[x][h][y] # flow[x][h][y]
      PROVE  flow'[x][h][y] = 0
  BY <1>1, <1>5 DEF CfaSetRate
<1>6. ASSUME NEW x \in SuperTokens, NEW h \in Holders PROVE under'[x][h] >= under[x][h]
  <2>1. under[x][h] \in Nat  BY <1>1
  <2> QED BY <2>1
<1> QED BY <1>4, <1>5, <1>6, Members DEF Harmless

LEMMA LiquidateHarmless ==
  ASSUME Inv, NEW u \in Users, NEW t \in SuperTokens, NEW s \in Holders, NEW r \in Holders,
         Liquidate(u, t, s, r)
  PROVE  Harmless
<1>1. /\ super \in [SuperTokens -> [Holders -> Nat]]
      /\ under \in [SuperTokens -> [Holders \cup SuperTokens -> Nat]]
      /\ flow \in [SuperTokens -> [Holders -> [Holders -> Nat]]]
      /\ UNCHANGED <<agent, under>>
  BY DEF Inv, TypeOK, Liquidate, config
<1>2. ASSUME NEW x \in SuperTokens, NEW h \in Holders, h \notin Users
      PROVE  super'[x][h] >= super[x][h] /\ ~(super'[x][h] < super[x][h])
  <2>1. super[x][h] \in Nat  BY <1>1
  <2>2. super'[x][h] = super[x][h]
    BY <1>1, <1>2, Members DEF Liquidate
  <2> QED BY <2>1, <2>2
<1>3. ASSUME NEW x \in SuperTokens, NEW h \in Holders, NEW y \in Holders,
             flow'[x][h][y] # flow[x][h][y]
      PROVE  flow'[x][h][y] = 0
  BY <1>1, <1>3 DEF Liquidate
<1>4. ASSUME NEW x \in SuperTokens, NEW h \in Holders PROVE under'[x][h] >= under[x][h]
  <2>1. under[x][h] \in Nat  BY <1>1
  <2> QED BY <1>1, <2>1
<1> QED BY <1>1, <1>2, <1>3, <1>4, Members DEF Harmless

\* Funds that lie with the app go to a contract that is no Agent, as they are or converted.
LEMMA HandedOver ==
  ASSUME Inv, Inv', NEW t \in SuperTokens, NEW c \in OtherContracts, NEW n \in Nat,
         MovesSuper(t, App, c, n) \/ MovesUnder(t, App, c, n) \/ Converts(t, App, c, n),
         UNCHANGED <<agent, flow>>
  PROVE  T!TNext
<1> DEFINE H == Holders \cup SuperTokens
<1>1. /\ super \in [SuperTokens -> [Holders -> Nat]] /\ under \in [SuperTokens -> [H -> Nat]]
      /\ super' \in [SuperTokens -> [Holders -> Nat]] /\ under' \in [SuperTokens -> [H -> Nat]]
  BY DEF Inv, TypeOK
<1>2. /\ App \in Holders /\ c \in Holders /\ App # c /\ t # App /\ t # c
      /\ App \in H /\ c \in H /\ t \in H
      /\ \A a \in Agents : a \in Holders /\ a \in H /\ a # App /\ a # c /\ a # t
  BY Members
<1>3. \/ /\ super' = AfterTransfer(SuperTokens, Holders, super, t, App, c, n)
         /\ under' = under
      \/ /\ under' = AfterTransfer(SuperTokens, H, under, t, App, c, n)
         /\ super' = super
      \/ /\ under' = AfterTransfer(SuperTokens, H, under, t, App, t, n)
         /\ super' = AfterSet(SuperTokens, Holders, super, t, c, super[t][c] + n)
      \/ /\ under' = AfterTransfer(SuperTokens, H, under, t, t, c, n)
         /\ super' = AfterSet(SuperTokens, Holders, super, t, App, super[t][App] - n)
  <2>1. CASE MovesSuper(t, App, c, n)
    BY <1>1, <1>2, <2>1, TransferIs DEF MovesSuper
  <2>2. CASE MovesUnder(t, App, c, n)
    <3> HIDE DEF H
    <3> QED BY <1>1, <1>2, <2>2, TransferIs DEF MovesUnder
  <2>3. CASE Converts(t, App, c, n)
    BY <2>3 DEF Converts
  <2> QED BY <2>1, <2>2, <2>3
<1> HIDE DEF H
<1>4. ASSUME NEW x \in SuperTokens, NEW a \in Agents
      PROVE  super'[x][a] = super[x][a] /\ under'[x][a] = under[x][a]
  BY <1>1, <1>2, <1>3 DEF AfterTransfer, AfterSet
<1>5. ASSUME NEW x \in SuperTokens, x # t
      PROVE  super'[x][App] = super[x][App] /\ under'[x][App] = under[x][App]
  BY <1>1, <1>2, <1>3, <1>5 DEF AfterTransfer, AfterSet
<1>6. /\ super[t][App] \in Nat /\ under[t][App] \in Nat
      /\ super[t][c] \in Nat /\ under[t][c] \in Nat
  BY <1>1, <1>2
<1>7. /\ T!Held(t, App)' = T!Held(t, App) - n
      /\ T!Held(t, c)' = T!Held(t, c) + n
  <2>1. \/ /\ super'[t][App] = super[t][App] - n /\ super'[t][c] = super[t][c] + n
           /\ under'[t][App] = under[t][App] /\ under'[t][c] = under[t][c]
        \/ /\ under'[t][App] = under[t][App] - n /\ under'[t][c] = under[t][c] + n
           /\ super'[t][App] = super[t][App] /\ super'[t][c] = super[t][c]
        \/ /\ under'[t][App] = under[t][App] - n /\ under'[t][c] = under[t][c]
           /\ super'[t][App] = super[t][App] /\ super'[t][c] = super[t][c] + n
        \/ /\ under'[t][App] = under[t][App] /\ under'[t][c] = under[t][c] + n
           /\ super'[t][App] = super[t][App] - n /\ super'[t][c] = super[t][c]
    BY <1>1, <1>2, <1>3 DEF AfterTransfer, AfterSet
  <2> QED BY <1>6, <2>1 DEF T!Held
<1>8. ASSUME NEW x \in SuperTokens
      PROVE  \/ T!Held(x, App)' >= T!Held(x, App)
             \/ \E d \in OtherContracts :
                  T!Held(x, d)' = T!Held(x, d) + T!Held(x, App) - T!Held(x, App)'
  <2>1. CASE x = t
    <3>1. T!Held(t, App) \in Nat /\ T!Held(t, c) \in Nat
      BY <1>6 DEF T!Held
    <3>2. T!Held(t, c)' = T!Held(t, c) + T!Held(t, App) - T!Held(t, App)'
      BY <1>7, <3>1
    <3> QED BY <2>1, <3>2
  <2>2. CASE x # t
    <3>1. super[x][App] + under[x][App] \in Nat
      BY <1>1, <1>2
    <3> QED BY <1>5, <2>2, <3>1 DEF T!Held
  <2> QED BY <2>1, <2>2
<1>9. ASSUME NEW x \in SuperTokens, NEW a \in Agents
      PROVE  under'[x][a] >= under[x][a] /\ ~(super'[x][a] < super[x][a])
  <2>1. super[x][a] \in Nat /\ under[x][a] \in Nat
    BY <1>1, <1>2
  <2> QED BY <1>4, <2>1
<1>10. T!World
  BY <1>8, <1>9 DEF T!World
<1> QED BY <1>10 DEF T!TNext

LEMMA DepositCredits ==
  ASSUME Inv, Inv', NEW c \in Users, NEW t \in Tokens, NEW n \in Amounts, NEW ext \in BOOLEAN,
         deposit(c, t, n, ext)
  PROVE  T!TNext \/ UNCHANGED T!tvars
<1>1. /\ t \in SuperTokens /\ n \in Nat /\ c \in Holders \ {App} /\ App \in Holders
      /\ c \notin Agents /\ App \notin Agents /\ UNCHANGED <<agent, under, flow>>
  BY Members DEF deposit, Booked, config
<1>2. CASE agent \in Agents
  <2>1. /\ ext => n <= super[t][c] /\ super' = Transfer(super, t, c, agent, n)
        /\ ~ext => n <= super[t][App] /\ super' = Transfer(super, t, App, agent, n)
    BY <1>2, DepositMoves
  <2>2. T!Credit(c, t, n) \/ T!Credit(App, t, n)
    BY <1>1, <2>1, SameOperators DEF T!Credit
  <2> QED BY <1>1, <1>2, <2>2, SameOperators DEF T!TNext
<1>3. CASE agent \notin Agents /\ ext
  <2>1. n <= super[t][c] /\ super' = Transfer(super, t, c, App, n)
    BY <1>3 DEF deposit
  <2>2. Harmless
    BY <1>1, <2>1, PayHarmless
  <2> QED BY <2>2, HarmlessIsWorld
<1>4. CASE agent \notin Agents /\ ~ext
  <2>1. UNCHANGED super
    BY <1>4 DEF deposit
  <2> QED BY <1>1, <2>1 DEF T!tvars
<1> QED BY <1>2, <1>3, <1>4

LEMMA WithdrawSpends ==
  ASSUME Inv, NEW c \in Users, NEW t \in Tokens, NEW h \in Holders, NEW n \in Amounts,
         withdraw(c, t, h, n)
  PROVE  T!TNext
<1>1. t \in SuperTokens /\ agent \in Agents /\ c \in Accounts
  BY AddressAssumption, RoleAssumption DEF withdraw, Booked, AgentObeys, auth
<1>2. T!Spend(c, t, h, n)
  BY SameOperators DEF T!Spend, withdraw, auth, config
<1> QED BY <1>1, <1>2, SameOperators DEF T!TNext

\* An Agent's conversion of a Super Token is the treasury's.
LEMMA ConversionIs ==
  ASSUME Inv, NEW t \in SuperTokens, NEW n \in Nat, agent \in Agents,
         Converts(t, agent, agent, n)
  PROVE  \/ /\ n <= under[t][agent]
            /\ under' = Transfer(under, t, agent, t, n)
            /\ super' = [super EXCEPT ![t][agent] = @ + n]
         \/ /\ n <= super[t][agent] /\ n <= under[t][t]
            /\ super' = [super EXCEPT ![t][agent] = @ - n]
            /\ under' = Transfer(under, t, t, agent, n)
<1> DEFINE H == Holders \cup SuperTokens
<1>1. /\ super \in [SuperTokens -> [Holders -> Nat]] /\ under \in [SuperTokens -> [H -> Nat]]
      /\ agent \in Holders /\ agent \in H /\ t \in H
  BY Members DEF Inv, TypeOK
<1>2. \/ /\ n <= under[t][agent]
         /\ under' = AfterTransfer(SuperTokens, H, under, t, agent, t, n)
         /\ super' = AfterSet(SuperTokens, Holders, super, t, agent, super[t][agent] + n)
      \/ /\ n <= super[t][agent] /\ n <= under[t][t]
         /\ under' = AfterTransfer(SuperTokens, H, under, t, t, agent, n)
         /\ super' = AfterSet(SuperTokens, Holders, super, t, agent, super[t][agent] - n)
  BY DEF Converts
<1> HIDE DEF H
<1>3. \A v : AfterSet(SuperTokens, Holders, super, t, agent, v)
                       = [super EXCEPT ![t][agent] = v]
  BY <1>1 DEF AfterSet
<1>4. n <= under[t][agent] => AfterTransfer(SuperTokens, H, under, t, agent, t, n)
                                = Transfer(under, t, agent, t, n)
  BY <1>1, TransferIs
<1>5. n <= under[t][t] => AfterTransfer(SuperTokens, H, under, t, t, agent, n)
                            = Transfer(under, t, t, agent, n)
  BY <1>1, TransferIs
<1> QED BY <1>2, <1>3, <1>4, <1>5

LEMMA UpgradeWraps ==
  ASSUME Inv, Inv', NEW c \in Users, NEW t \in Tokens, NEW n \in Amounts, upgrade(c, t, n)
  PROVE  T!TNext \/ UNCHANGED T!tvars
<1>1. /\ n \in Nat /\ (AgentObeys \/ AgentUnknown) /\ c \in TokenManagers /\ c \in Accounts
      /\ UNCHANGED <<agent, flow>>
  BY Members, RoleAssumption DEF upgrade, auth, config
<1>2. CASE UpgradeBooked(t, n) /\ AgentObeys
  <2>1. t \in SuperTokens /\ agent \in Agents /\ Converts(t, agent, agent, n)
    BY <1>1, <1>2, UpgradeConverts, PayerIs
  <2>2. T!Wrap(c, t, n) \/ T!Unwrap(c, t, n)
    BY <1>1, <2>1, ConversionIs, SameOperators DEF T!Wrap, T!Unwrap
  <2> QED BY <1>1, <2>1, <2>2, SameOperators DEF T!TNext
<1>3. CASE UpgradeBooked(t, n) /\ ~AgentObeys
  <2>1. t \in SuperTokens /\ agent \in OtherContracts /\ Converts(t, App, agent, n)
    BY <1>1, <1>3, UpgradeConverts, PayerIs
  <2> QED BY <1>1, <2>1, HandedOver
<1>4. ASSUME NEW x \in SuperTokens, Lends(x, n)
      PROVE  T!TNext \/ UNCHANGED T!tvars
  <2>1. CASE UNCHANGED <<super, under>>
    BY <1>1, <2>1 DEF T!tvars
  <2>2. CASE ~UNCHANGED <<super, under>>
    <3>1. agent \in Agents
      BY <1>4, <2>2, PayerIs DEF Lends
    <3>2. T!Lend(c, x, n)
      BY <1>1, <1>4, <2>2, SameOperators DEF Lends, T!Lend
    <3> QED BY <1>1, <3>1, <3>2, SameOperators DEF T!TNext
  <2> QED BY <2>1, <2>2
<1> QED BY <1>2, <1>3, <1>4 DEF upgrade

LEMMA DowngradeUnwraps ==
  ASSUME Inv, Inv', NEW c \in Users, NEW t \in Tokens, NEW n \in Amounts, downgrade(c, t, n)
  PROVE  T!TNext
<1>1. /\ n \in Nat /\ (AgentObeys \/ AgentUnknown) /\ c \in TokenManagers /\ c \in Accounts
      /\ UNCHANGED <<agent, flow>>
  BY Members, RoleAssumption DEF downgrade, auth, config
<1>2. CASE DowngradeBooked(t, n) /\ AgentObeys
  <2>1. t \in SuperTokens /\ agent \in Agents /\ Converts(t, agent, agent, n)
    BY <1>1, <1>2, DowngradeConverts, PayerIs
  <2>2. T!Wrap(c, t, n) \/ T!Unwrap(c, t, n)
    BY <1>1, <2>1, ConversionIs, SameOperators DEF T!Wrap, T!Unwrap
  <2> QED BY <1>1, <2>1, <2>2, SameOperators DEF T!TNext
<1>3. CASE DowngradeBooked(t, n) /\ ~AgentObeys
  <2>1. t \in SuperTokens /\ agent \in OtherContracts /\ Converts(t, App, agent, n)
    BY <1>1, <1>3, DowngradeConverts, PayerIs
  <2> QED BY <1>1, <2>1, HandedOver
<1>4. ASSUME NEW x \in SuperTokens, Returns(x, n)
      PROVE  T!TNext
  <2>1. CASE AgentObeys
    <3>1. T!Return(c, x, n)
      BY <1>1, <1>4, SameOperators DEF Returns, T!Return
    <3> QED BY <1>1, <2>1, <3>1, PayerIs, SameOperators DEF T!TNext
  <2>2. CASE ~AgentObeys
    <3>1. MovesSuper(x, App, agent, n) \/ MovesUnder(x, App, agent, n)
      <4>1. agent # App  BY <1>1, PayerIs
      <4> QED BY <1>4, <4>1 DEF Returns, MovesSuper, MovesUnder, Entered
    <3> QED BY <1>1, <2>2, <3>1, PayerIs, HandedOver
  <2> QED BY <2>1, <2>2
<1> QED BY <1>2, <1>3, <1>4 DEF downgrade

LEMMA FlowsDirected ==
  ASSUME Inv, NEW c \in Users, NEW t \in Tokens, NEW h \in Holders, NEW rate \in Rates,
         \/ createFlow(c, t, h, rate) \/ updateFlow(c, t, h, rate)
         \/ deleteFlow(c, t, h) \/ deleteOwnFlow(c, t)
  PROVE  T!TNext
<1>1. t \in SuperTokens /\ agent \in Agents /\ c \in Holders /\ 0 \in Rates
  BY Members, PayerIs, NumberAssumption
  DEF createFlow, updateFlow, deleteFlow, deleteOwnFlow, Booked, callAgreement, Rates
<1>2. UNCHANGED <<agent, under>>
  BY DEF createFlow, updateFlow, deleteFlow, deleteOwnFlow, callAgreement, config
<1>3. ASSUME NEW r, NEW v, CfaSetRate(t, agent, r, v) PROVE T!SetRate(t, agent, r, v)
  BY <1>2, <1>3, SameOperators DEF CfaSetRate, T!SetRate
<1>4. \/ T!Direct(c, t, h, rate) \/ T!Direct(c, t, h, 0) \/ T!Direct(c, t, c, 0)
  <2>1. CASE createFlow(c, t, h, rate) \/ updateFlow(c, t, h, rate)
    BY <1>3, <2>1 DEF createFlow, updateFlow, CfaCreate, CfaUpdate, auth, T!Direct
  <2>2. CASE deleteFlow(c, t, h)
    BY <1>3, <2>2 DEF deleteFlow, CfaDelete, auth, T!Direct
  <2>3. CASE deleteOwnFlow(c, t)
    BY <1>3, <2>3 DEF deleteOwnFlow, CfaDelete, T!Direct
  <2> QED BY <2>1, <2>2, <2>3
<1> QED BY <1>1, <1>4, SameOperators DEF T!TNext

LEMMA AppRefines == ASSUME Inv, Inv', AppNext PROVE T!TNext \/ UNCHANGED T!tvars
<1>1. CASE \E a \in Contracts \cup Accounts, h \in {Host} \cup Accounts,
              f \in {Cfa} \cup Accounts : initialize(a, h, f)
  BY <1>1, InitializeInstalls
<1>2. CASE \E c \in Users, a \in Contracts \cup Accounts : setAgent(c, a)
  BY <1>2, SetAgentAppoints
<1>3. CASE \E c \in Users, t \in Tokens, n \in Amounts :
             \/ \E ext \in BOOLEAN : deposit(c, t, n, ext)
             \/ \E h \in Holders : withdraw(c, t, h, n)
             \/ upgrade(c, t, n)
             \/ downgrade(c, t, n)
  BY <1>3, DepositCredits, WithdrawSpends, UpgradeWraps, DowngradeUnwraps
<1>4. CASE \E c \in Users, t \in Tokens :
             \/ \E h \in Holders, rate \in Rates :
                  createFlow(c, t, h, rate) \/ updateFlow(c, t, h, rate)
             \/ \E h \in Holders : deleteFlow(c, t, h)
             \/ deleteOwnFlow(c, t)
  <2>1. 0 \in Rates /\ App \in Holders
    BY NumberAssumption DEF Rates, Holders
  <2> QED BY <1>4, <2>1, FlowsDirected
<1> QED BY <1>1, <1>2, <1>3, <1>4 DEF AppNext

LEMMA WorldRefines == ASSUME Inv, Inv', WorldNext PROVE T!TNext \/ UNCHANGED T!tvars
<1>1. ASSUME NEW u \in Users, NEW t \in SuperTokens, NEW n \in Amounts, Approve(u, t, n)
      PROVE  UNCHANGED T!tvars
  BY <1>1 DEF Approve, config, T!tvars
<1>2. ASSUME NEW u \in Users, NEW t \in SuperTokens, NEW n \in Amounts, NEW h \in Holders,
             TransferSuper(u, t, h, n)
      PROVE  Harmless
  <2>1. n \in Nat /\ u \in Holders \ {App}
    BY Members
  <2>2. UNCHANGED <<agent, under, flow>>
    BY <1>2 DEF TransferSuper, config
  <2> QED BY <1>2, <2>1, <2>2, PayHarmless DEF TransferSuper
<1>3. ASSUME NEW u \in Users, NEW t \in SuperTokens, NEW n \in Amounts, ConvertOwn(u, t, n)
      PROVE  Harmless
  <2>1. n \in Nat /\ Converts(t, u, u, n)
    BY <1>3, ConvertOwnConverts
  <2>2. UNCHANGED <<agent, flow>>
    BY <1>3 DEF ConvertOwn, config
  <2> QED BY <2>1, <2>2, ConvertHarmless
<1>4. ASSUME NEW t \in SuperTokens, NEW s \in Holders, NEW r \in Holders, Stream(t, s, r)
      PROVE  Harmless
  <2>1. flow[t][s][r] \in Nat
    BY DEF Inv, TypeOK
  <2>2. s # App
    BY <1>4 DEF Inv, AppSendsNothing, Stream
  <2>3. UNCHANGED <<agent, under, flow>>
    BY <1>4 DEF Stream, config
  <2> QED BY <1>4, <2>1, <2>2, <2>3, PayHarmless DEF Stream
<1>5. ASSUME NEW u \in Users, NEW t \in SuperTokens, NEW h \in Holders, NEW rate \in Rates,
             OwnFlow(u, t, h, rate)
      PROVE  Harmless
  <2>1. u \in Holders /\ rate \in Nat /\ 0 \in Nat
    BY Members
  <2>2. UNCHANGED <<agent, under>>
    BY <1>5 DEF OwnFlow, config
  <2>3. \/ CfaSetRate(t, u, h, rate) \/ CfaSetRate(t, u, h, 0) \/ CfaSetRate(t, h, u, 0)
    BY <1>5 DEF OwnFlow, CfaCreate, CfaUpdate, CfaDelete
  <2> QED BY <2>1, <2>2, <2>3, RateHarmless
<1>6. ASSUME NEW c \in OtherContracts, NEW t \in SuperTokens, NEW n \in Amounts, Collect(c, t, n)
      PROVE  T!TNext
  <2>1. n \in Nat /\ c # App
    BY Members
  <2>2. /\ MovesSuper(t, App, c, n) \/ MovesUnder(t, App, c, n)
        /\ UNCHANGED <<agent, flow>>
    BY <1>6, <2>1 DEF Collect, MovesSuper, MovesUnder, Entered, config
  <2> QED BY <2>1, <2>2, HandedOver
<1> QED
  BY <1>1, <1>2, <1>3, <1>4, <1>5, <1>6, TransferUnderHarmless, LiquidateHarmless, HarmlessIsWorld
  DEF WorldNext

\* The contract implements the treasury: deposit, withdraw, upgrade, downgrade and the flow
\* calls each amount to one authorised move of the agent's funds or change of its streams,
\* also when the token or the agent that a call names is a contract of another kind.
THEOREM ContractIsTreasury == Spec => ImplementsTreasury
<1>1. Inv /\ [Next]_vars => [T!TNext]_(T!tvars)
  <2>1. ASSUME UNCHANGED vars PROVE UNCHANGED T!tvars
    BY <2>1 DEF vars, config, ledger, T!tvars
  <2> QED BY <2>1, InvStep, AppRefines, WorldRefines DEF Next
<1> QED BY <1>1, InitRefines, InvAlways, PTL DEF Spec, ImplementsTreasury, T!TSpec
=============================================================================
