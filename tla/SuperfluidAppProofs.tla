------------------------ MODULE SuperfluidAppProofs ------------------------
(***************************************************************************)
(* Proofs about SuperfluidApp, for any sets of accounts, agents and tokens *)
(* and any amounts.                                                        *)
(***************************************************************************)
EXTENDS SuperfluidApp, TLAPS

\* A book of balances after a transfer, and after one balance is set.
AfterTransfer(T0, H, book, t, from, to, n) ==
  [x \in T0 |-> [h \in H |->
     IF x # t \/ from = to THEN book[x][h]
     ELSE IF h = from THEN book[x][h] - n
     ELSE IF h = to THEN book[x][h] + n
     ELSE book[x][h]]]

AfterSet(T0, H, book, t, h, v) ==
  [x \in T0 |-> [y \in H |-> IF x = t /\ y = h THEN v ELSE book[x][y]]]

\* A transfer that the payer can afford changes two balances of one token.
LEMMA TransferIs ==
  ASSUME NEW T0, NEW H, NEW book \in [T0 -> [H -> Nat]], NEW t \in T0,
         NEW from \in H, NEW to \in H, NEW n \in Nat, n <= book[t][from]
  PROVE  Transfer(book, t, from, to, n) = AfterTransfer(T0, H, book, t, from, to, n)
<1> DEFINE paid == [book EXCEPT ![t][from] = @ - n]
<1>1. book[t][from] \in Nat /\ book[t][from] - n \in Nat /\ book[t][to] \in Nat  OBVIOUS
<1>2. paid = AfterSet(T0, H, book, t, from, book[t][from] - n)
  BY DEF AfterSet
<1> HIDE DEF paid
<1>3. paid \in [T0 -> [H -> Nat]]
  BY <1>1, <1>2 DEF AfterSet
<1>4. Transfer(book, t, from, to, n) = AfterSet(T0, H, paid, t, to, paid[t][to] + n)
  <2>1. Transfer(book, t, from, to, n) = [paid EXCEPT ![t][to] = paid[t][to] + n]
    BY DEF Transfer, paid
  <2> QED BY <1>3, <2>1 DEF AfterSet
<1> QED BY <1>1, <1>2, <1>4 DEF AfterSet, AfterTransfer

LEMMA TransferType ==
  ASSUME NEW T0, NEW H, NEW book \in [T0 -> [H -> Nat]], NEW t \in T0,
         NEW from \in H, NEW to \in H, NEW n \in Nat, n <= book[t][from]
  PROVE  AfterTransfer(T0, H, book, t, from, to, n) \in [T0 -> [H -> Nat]]
  BY DEF AfterTransfer

\* Funds that travel through the app end up as if they had been sent directly.
LEMMA ThroughApp ==
  ASSUME NEW T0, NEW H, NEW book \in [T0 -> [H -> Nat]], NEW t \in T0, NEW mid \in H,
         NEW from \in H \ {mid}, NEW to \in H \ {mid}, NEW n \in Nat, n <= book[t][from]
  PROVE  /\ Transfer(Transfer(book, t, from, mid, n), t, mid, to, n)
              = AfterTransfer(T0, H, book, t, from, to, n)
         /\ n <= Transfer(book, t, from, mid, n)[t][mid]
<1> DEFINE half == AfterTransfer(T0, H, book, t, from, mid, n)
<1>1. Transfer(book, t, from, mid, n) = half
  BY TransferIs
<1>2. half \in [T0 -> [H -> Nat]]
  BY TransferType
<1>3. half[t][mid] = book[t][mid] + n /\ book[t][mid] \in Nat
  BY DEF AfterTransfer
<1>4. n <= half[t][mid]
  BY <1>3
<1>5. Transfer(half, t, mid, to, n) = AfterTransfer(T0, H, half, t, mid, to, n)
  <2> HIDE DEF half
  <2> QED BY <1>2, <1>4, TransferIs
<1>6. AfterTransfer(T0, H, half, t, mid, to, n) = AfterTransfer(T0, H, book, t, from, to, n)
  BY DEF AfterTransfer
<1> QED BY <1>1, <1>4, <1>5, <1>6

\* Tokens minted to the app and sent on are minted to the receiver.
LEMMA MintThroughApp ==
  ASSUME NEW T0, NEW H, NEW book \in [T0 -> [H -> Nat]], NEW t \in T0, NEW mid \in H,
         NEW to \in H \ {mid}, NEW n \in Nat
  PROVE  Transfer(AfterSet(T0, H, book, t, mid, book[t][mid] + n), t, mid, to, n)
           = AfterSet(T0, H, book, t, to, book[t][to] + n)
<1> DEFINE minted == AfterSet(T0, H, book, t, mid, book[t][mid] + n)
<1>1. book[t][mid] \in Nat  OBVIOUS
<1>2. minted \in [T0 -> [H -> Nat]] /\ minted[t][mid] = book[t][mid] + n
  BY <1>1 DEF AfterSet
<1>3. AfterTransfer(T0, H, minted, t, mid, to, n) = AfterSet(T0, H, book, t, to, book[t][to] + n)
  BY <1>1 DEF AfterTransfer, AfterSet
<1> HIDE DEF minted
<1>4. n <= minted[t][mid]
  BY <1>1, <1>2
<1>5. Transfer(minted, t, mid, to, n) = AfterTransfer(T0, H, minted, t, mid, to, n)
  BY <1>2, <1>4, TransferIs
<1> QED BY <1>3, <1>5 DEF minted

\* Tokens sent to the app and burnt there are burnt at their sender.
LEMMA BurnThroughApp ==
  ASSUME NEW T0, NEW H, NEW book \in [T0 -> [H -> Nat]], NEW t \in T0, NEW mid \in H,
         NEW from \in H \ {mid}, NEW n \in Nat, n <= book[t][from]
  PROVE  AfterSet(T0, H, Transfer(book, t, from, mid, n), t, mid,
                  Transfer(book, t, from, mid, n)[t][mid] - n)
           = AfterSet(T0, H, book, t, from, book[t][from] - n)
<1> DEFINE half == AfterTransfer(T0, H, book, t, from, mid, n)
<1>1. Transfer(book, t, from, mid, n) = half
  BY TransferIs
<1>2. half \in [T0 -> [H -> Nat]]
  BY TransferType
<1>3. half[t][mid] = book[t][mid] + n /\ book[t][mid] \in Nat
  BY DEF AfterTransfer
<1>4. AfterSet(T0, H, half, t, mid, half[t][mid] - n)
        = AfterSet(T0, H, book, t, from, book[t][from] - n)
  BY <1>3 DEF AfterTransfer, AfterSet
<1> QED BY <1>1, <1>2, <1>4

\* What the app was left with, after a transfer.
Entered(rest, t, from, to, n) ==
  [rest EXCEPT ![t] = IF to = App THEN @ + n ELSE IF from = App THEN @ - n ELSE @]

\* The inductive invariant: a non-external deposit lowers `left`, which stays a natural
\* number only because the app holds exactly what was left with it.
\* And no flow leaves the app, so nothing is streamed out of it.
AppSendsNothing == \A t \in SuperTokens, r \in Holders : flow[t][App][r] = 0

Inv == TypeOK /\ PassThrough /\ NoStandingAllowance /\ AppSendsNothing

LEMMA SuperMoves ==
  ASSUME Inv, NEW t \in SuperTokens, NEW from \in Holders, NEW to \in Holders, from # to,
         NEW n \in Nat, n <= super[t][from], super' = Transfer(super, t, from, to, n),
         left' = Entered(left, t, from, to, n)
  PROVE  /\ super' \in [SuperTokens -> [Holders -> Nat]] /\ left' \in [SuperTokens -> Nat]
         /\ \A x \in SuperTokens : super'[x][App] = left'[x]
<1>1. /\ super \in [SuperTokens -> [Holders -> Nat]] /\ left \in [SuperTokens -> Nat]
      /\ App \in Holders /\ \A x \in SuperTokens : super[x][App] = left[x]
  BY DEF Inv, TypeOK, PassThrough, Holders
<1>2. super' = AfterTransfer(SuperTokens, Holders, super, t, from, to, n)
  BY <1>1, TransferIs
<1>3. super' \in [SuperTokens -> [Holders -> Nat]]
  <2>1. AfterTransfer(SuperTokens, Holders, super, t, from, to, n) \in [SuperTokens -> [Holders -> Nat]]
    BY <1>1, TransferType
  <2> QED BY <1>2, <2>1
<1>4. ASSUME NEW x \in SuperTokens PROVE super'[x][App] = left'[x]
  <2>1. super[t][App] \in Nat /\ super[t][App] = left[t]
    BY <1>1
  <2>2. CASE x = t
    BY <1>1, <1>2, <2>1, <2>2 DEF AfterTransfer, Entered
  <2>3. CASE x # t
    BY <1>1, <1>2, <2>3 DEF AfterTransfer, Entered
  <2> QED BY <2>2, <2>3
<1>5. left' \in [SuperTokens -> Nat]
  <2>1. \A x \in SuperTokens : left'[x] \in Nat
    BY <1>1, <1>3, <1>4
  <2>2. left' = [x \in SuperTokens |-> left'[x]]
    BY <1>1 DEF Entered
  <2> QED BY <2>1, <2>2
<1> QED BY <1>3, <1>4, <1>5

LEMMA UnderMoves ==
  ASSUME Inv, NEW t \in SuperTokens, NEW from \in Holders, NEW to \in Holders, from # to,
         NEW n \in Nat, n <= under[t][from], under' = Transfer(under, t, from, to, n),
         leftUnder' = Entered(leftUnder, t, from, to, n)
  PROVE  /\ under' \in [SuperTokens -> [Holders \cup SuperTokens -> Nat]]
         /\ leftUnder' \in [SuperTokens -> Nat]
         /\ \A x \in SuperTokens : under'[x][App] = leftUnder'[x]
<1> DEFINE H == Holders \cup SuperTokens
<1>1. /\ under \in [SuperTokens -> [H -> Nat]] /\ leftUnder \in [SuperTokens -> Nat]
      /\ App \in H /\ from \in H /\ to \in H
      /\ \A x \in SuperTokens : under[x][App] = leftUnder[x]
  BY DEF Inv, TypeOK, PassThrough, Holders
<1> HIDE DEF H
<1>2. under' = AfterTransfer(SuperTokens, H, under, t, from, to, n)
  BY <1>1, TransferIs
<1>3. under' \in [SuperTokens -> [H -> Nat]]
  <2>1. AfterTransfer(SuperTokens, H, under, t, from, to, n) \in [SuperTokens -> [H -> Nat]]
    BY <1>1, TransferType
  <2> QED BY <1>2, <2>1
<1>4. ASSUME NEW x \in SuperTokens PROVE under'[x][App] = leftUnder'[x]
  <2>1. under[t][App] \in Nat /\ under[t][App] = leftUnder[t]
    BY <1>1
  <2>2. CASE x = t
    BY <1>1, <1>2, <2>1, <2>2 DEF AfterTransfer, Entered
  <2>3. CASE x # t
    BY <1>1, <1>2, <2>3 DEF AfterTransfer, Entered
  <2> QED BY <2>2, <2>3
<1>5. leftUnder' \in [SuperTokens -> Nat]
  <2>1. \A x \in SuperTokens : leftUnder'[x] \in Nat
    BY <1>1, <1>3, <1>4
  <2>2. leftUnder' = [x \in SuperTokens |-> leftUnder'[x]]
    BY <1>1 DEF Entered
  <2> QED BY <2>1, <2>2
<1> QED BY <1>3, <1>4, <1>5 DEF H

LEMMA InitInv == Init => Inv
<1> SUFFICES ASSUME Init PROVE Inv
  OBVIOUS
<1>1. App \in Holders /\ App \notin Accounts /\ App \notin Agents /\ App \notin SuperTokens
  BY AddressAssumption DEF Holders, Users
<1>2. super \in [SuperTokens -> [Holders -> Nat]]
  BY NumberAssumption DEF Init
<1>3. under \in [SuperTokens -> [Holders \cup SuperTokens -> Nat]]
  BY NumberAssumption DEF Init
<1>4. TypeOK
  BY <1>2, <1>3 DEF Init, TypeOK
<1>5. PassThrough
  BY <1>1 DEF Init, PassThrough
<1>6. NoStandingAllowance
  BY DEF Init, NoStandingAllowance, Spenders, Contracts
<1>7. AppSendsNothing
  BY <1>1 DEF Init, AppSendsNothing
<1> QED BY <1>4, <1>5, <1>6, <1>7 DEF Inv

\* initialize and setAgent touch no balance.
LEMMA InitializeStep ==
  ASSUME Inv, NEW a \in Contracts \cup Accounts,
         NEW h \in {Host} \cup Accounts, NEW f \in {Cfa} \cup Accounts, initialize(a, h, f)
  PROVE  Inv'
<1> USE DEF Inv
<1>1. UNCHANGED <<super, under, approved, allowance, underAllowance, left, leftUnder, flow>>
  BY DEF initialize, ledger
<1>2. TypeOK'
  BY <1>1, AddressAssumption DEF TypeOK, initialize, isContract, Contracts
<1> QED BY <1>1, <1>2 DEF PassThrough, NoStandingAllowance, AppSendsNothing

LEMMA SetAgentStep ==
  ASSUME Inv, NEW c \in Users, NEW a \in Contracts \cup Accounts, setAgent(c, a)
  PROVE  Inv'
<1> USE DEF Inv
<1>1. UNCHANGED <<super, under, approved, allowance, underAllowance, left, leftUnder, flow>>
  BY DEF setAgent, ledger
<1>2. TypeOK'
  BY <1>1, AddressAssumption DEF TypeOK, setAgent, auth, isContract, Contracts
<1> QED BY <1>1, <1>2 DEF PassThrough, NoStandingAllowance, AppSendsNothing

\* Who and what a call can name.
LEMMA Members ==
  /\ App \in Holders /\ App \notin Users /\ App \notin Agents /\ App \notin SuperTokens
  /\ \A a \in Agents : /\ a \in Holders /\ a # App /\ a \notin Users /\ a \notin SuperTokens
                       /\ a \in Contracts /\ a \in Spenders
  /\ \A u \in Users : u \in Holders /\ u # App
  /\ \A c \in OtherContracts : /\ c \in Users /\ c \in Contracts /\ c \in Spenders
                              /\ c \notin Agents /\ c \notin SuperTokens
  /\ \A t \in SuperTokens : t \in Spenders
  /\ \A n \in Amounts : n \in Nat
  /\ \A r \in Rates : r \in Nat
  BY NumberAssumption, AddressAssumption
  DEF Holders, Users, Contracts, Spenders, Amounts, Rates

\* A token that the app accepts and that is no Super Token is one of the other contracts.
LEMMA Accepted ==
  ASSUME NEW t, isValidSuperToken(t)
  PROVE  Booked(t) \/ t \in OtherContracts
  BY AddressAssumption DEF isValidSuperToken, Booked

\* Deposits with an Agent move the funds on and use the approval up.
LEMMA DepositMoves ==
  ASSUME Inv, NEW c \in Users, NEW t \in Tokens, NEW n \in Amounts, NEW ext \in BOOLEAN,
         deposit(c, t, n, ext), agent \in Agents
  PROVE  /\ t \in SuperTokens
         /\ allowance' = allowance
         /\ ext => /\ n <= super[t][c] /\ super' = Transfer(super, t, c, agent, n)
                   /\ left' = left
         /\ ~ext => /\ n <= super[t][App] /\ super' = Transfer(super, t, App, agent, n)
                    /\ left' = [left EXCEPT ![t] = @ - n]
<1> USE DEF Inv
<1>1. /\ t \in SuperTokens /\ n \in Nat /\ agent \in Holders \ {App}
      /\ c \in Holders \ {App} /\ App \in Holders /\ agent \in Spenders
      /\ agent \notin OtherContracts
  BY Members DEF deposit, Booked
<1>2. super \in [SuperTokens -> [Holders -> Nat]] /\ left \in [SuperTokens -> Nat]
      /\ left[t] \in Nat
  BY <1>1 DEF TypeOK
<1>3. allowance' = allowance
  <2>1. allowance[t][agent] = 0 BY <1>1 DEF NoStandingAllowance
  <2>2. allowance' = [[allowance EXCEPT ![t][agent] = n] EXCEPT ![t][agent] = n - n]
    BY <1>1 DEF deposit, TypeOK, AgentUnknown
  <2> QED BY <1>1, <2>1, <2>2 DEF TypeOK
<1>4. CASE ext
  <2>1. n <= super[t][c] /\ super' = Transfer(Transfer(super, t, c, App, n), t, App, agent, n)
    BY <1>1, <1>4 DEF deposit, AgentUnknown
  <2>2. super' = AfterTransfer(SuperTokens, Holders, super, t, c, agent, n)
    BY <1>1, <1>2, <2>1, ThroughApp
  <2>3. Transfer(super, t, c, agent, n)
          = AfterTransfer(SuperTokens, Holders, super, t, c, agent, n)
    BY <1>1, <1>2, <2>1, TransferIs
  <2>4. left' = [left EXCEPT ![t] = left[t] + n - n]
    BY <1>1, <1>2, <1>4 DEF deposit, AgentUnknown
  <2>5. left' = left
    BY <1>1, <1>2, <2>4
  <2> QED BY <1>1, <1>3, <1>4, <2>1, <2>2, <2>3, <2>5
<1>5. CASE ~ext
  <2>1. n <= super[t][App] /\ super' = Transfer(super, t, App, agent, n)
    BY <1>1, <1>5 DEF deposit, AgentUnknown
  <2>2. left' = [left EXCEPT ![t] = left[t] - n]
    BY <1>1, <1>2, <1>5 DEF deposit, AgentUnknown
  <2> QED BY <1>1, <1>3, <1>5, <2>1, <2>2
<1> QED BY <1>4, <1>5

LEMMA DepositStep ==
  ASSUME Inv, NEW c \in Users, NEW t \in Tokens, NEW n \in Amounts, NEW ext \in BOOLEAN,
         deposit(c, t, n, ext)
  PROVE  Inv'
<1> USE DEF Inv
<1>1. /\ t \in SuperTokens /\ n \in Nat /\ c \in Holders \ {App} /\ App \in Holders
  BY Members DEF deposit, Booked
<1>2. super \in [SuperTokens -> [Holders -> Nat]] /\ left \in [SuperTokens -> Nat]
      /\ \A x \in SuperTokens : super[x][App] = left[x]
  BY DEF TypeOK, PassThrough
<1>3. approved' \in [SuperTokens -> [Users -> Nat]]
  <2>1. CASE ext
    <3>1. approved[t][c] - n \in Nat BY <1>1, <2>1 DEF deposit, TypeOK
    <3> QED BY <1>1, <2>1, <3>1 DEF deposit, TypeOK
  <2>2. CASE ~ext
    BY <1>1, <2>2 DEF deposit, TypeOK
  <2> QED BY <2>1, <2>2
<1>4. /\ super' \in [SuperTokens -> [Holders -> Nat]] /\ left' \in [SuperTokens -> Nat]
      /\ \A x \in SuperTokens : super'[x][App] = left'[x]
      /\ allowance' \in [SuperTokens -> [Spenders -> Nat]]
      /\ \A x \in SuperTokens, a \in Agents \cup SuperTokens : allowance'[x][a] = 0
  <2>1. CASE agent \in Agents
    <3> DEFINE from == IF ext THEN c ELSE App
    <3>1. /\ n <= super[t][from] /\ super' = Transfer(super, t, from, agent, n)
          /\ allowance' = allowance
          /\ ext => left' = left
          /\ ~ext => left' = [left EXCEPT ![t] = @ - n]
      BY <2>1, DepositMoves
    <3>2. from \in Holders /\ from # agent /\ agent \in Holders /\ agent # App
      BY <1>1, <2>1, Members
    <3>3. left' = Entered(left, t, from, agent, n)
      <4>1. CASE ext
        BY <1>1, <1>2, <3>1, <3>2, <4>1 DEF Entered
      <4>2. CASE ~ext
        BY <1>1, <1>2, <3>1, <3>2, <4>2 DEF Entered
      <4> QED BY <4>1, <4>2
    <3> HIDE DEF from
    <3>4. /\ super' \in [SuperTokens -> [Holders -> Nat]] /\ left' \in [SuperTokens -> Nat]
          /\ \A x \in SuperTokens : super'[x][App] = left'[x]
      BY <1>1, <3>1, <3>2, <3>3, SuperMoves
    <3> QED BY <3>1, <3>4 DEF TypeOK, NoStandingAllowance
  <2>2. CASE agent \notin Agents
    <3>1. agent \in OtherContracts /\ agent \in Spenders /\ agent \notin Agents \cup SuperTokens
      BY <2>2, Members DEF deposit, AgentUnknown
    <3>2. allowance' = [allowance EXCEPT ![t][agent] = n]
      BY <2>2 DEF deposit
    <3>3. allowance' \in [SuperTokens -> [Spenders -> Nat]]
      BY <1>1, <3>1, <3>2 DEF TypeOK
    <3>4. \A x \in SuperTokens, a \in Agents \cup SuperTokens : allowance'[x][a] = 0
      <4>1. ASSUME NEW x \in SuperTokens, NEW a \in Agents \cup SuperTokens
            PROVE  allowance'[x][a] = 0
        <5>1. a # agent /\ a \in Spenders
          BY <3>1, Members
        <5>2. allowance'[x][a] = allowance[x][a]
          BY <1>1, <3>1, <3>2, <5>1 DEF TypeOK
        <5> QED BY <5>2 DEF NoStandingAllowance
      <4> QED BY <4>1
    <3>5. CASE ext
      <4>1. /\ n <= super[t][c] /\ super' = Transfer(super, t, c, App, n)
            /\ left' = [left EXCEPT ![t] = @ + n]
        BY <2>2, <3>5 DEF deposit
      <4>2. left' = Entered(left, t, c, App, n)
        BY <4>1 DEF Entered
      <4>3. /\ super' \in [SuperTokens -> [Holders -> Nat]] /\ left' \in [SuperTokens -> Nat]
            /\ \A x \in SuperTokens : super'[x][App] = left'[x]
        BY <1>1, <4>1, <4>2, SuperMoves
      <4> QED BY <3>3, <3>4, <4>3
    <3>6. CASE ~ext
      <4>1. super' = super /\ left' = [left EXCEPT ![t] = @]
        BY <2>2, <3>6 DEF deposit
      <4>2. left' = left
        BY <1>2, <4>1
      <4> QED BY <1>2, <3>3, <3>4, <4>1, <4>2
    <3> QED BY <3>5, <3>6
  <2> QED BY <2>1, <2>2
<1>5. TypeOK'
  BY <1>3, <1>4 DEF TypeOK, deposit, config
<1>6. PassThrough' /\ NoStandingAllowance' /\ AppSendsNothing'
  BY <1>4 DEF PassThrough, NoStandingAllowance, AppSendsNothing, deposit
<1> QED BY <1>5, <1>6

\* withdraw, and what others pay: the payer is not the app.
LEMMA PayStep ==
  ASSUME Inv, NEW t \in SuperTokens, NEW from \in Holders \ {App}, NEW to \in Holders,
         NEW n \in Nat, n <= super[t][from],
         super' = Transfer(super, t, from, to, n),
         left' = [left EXCEPT ![t] = IF to = App THEN @ + n ELSE @],
         UNCHANGED <<config, under, approved, allowance, underAllowance, leftUnder, flow>>
  PROVE  Inv'
<1> USE DEF Inv
<1>1. App \in Holders  BY DEF Holders
<1>2. super \in [SuperTokens -> [Holders -> Nat]] /\ left \in [SuperTokens -> Nat]
      /\ \A x \in SuperTokens : super[x][App] = left[x]
  BY DEF TypeOK, PassThrough
<1>3. /\ super' \in [SuperTokens -> [Holders -> Nat]]
      /\ left' \in [SuperTokens -> Nat]
      /\ \A x \in SuperTokens : super'[x][App] = left'[x]
  <2>1. CASE from = to
    <3>1. super' = AfterTransfer(SuperTokens, Holders, super, t, from, to, n)
      BY <1>2, TransferIs
    <3>2. super' = super
      BY <1>2, <2>1, <3>1 DEF AfterTransfer
    <3>3. left' = left
      BY <1>2, <2>1
    <3> QED BY <1>2, <3>2, <3>3
  <2>2. CASE from # to
    <3>1. left' = Entered(left, t, from, to, n)
      BY DEF Entered
    <3> QED BY <2>2, <3>1, SuperMoves
  <2> QED BY <2>1, <2>2
<1>4. TypeOK'
  BY <1>3 DEF TypeOK, config
<1> QED BY <1>3, <1>4 DEF PassThrough, NoStandingAllowance, AppSendsNothing

LEMMA TransferUnderStep ==
  ASSUME Inv, NEW u \in Users, NEW t \in SuperTokens, NEW to \in Holders, NEW n \in Amounts,
         TransferUnder(u, t, to, n)
  PROVE  Inv'
<1> USE DEF Inv
<1> DEFINE H == Holders \cup SuperTokens
<1>1. App \in H /\ u \in H \ {App} /\ to \in H /\ n \in Nat
  BY Members
<1>2. under \in [SuperTokens -> [H -> Nat]] /\ leftUnder \in [SuperTokens -> Nat]
  BY DEF TypeOK
<1> HIDE DEF H
<1>3. under' = AfterTransfer(SuperTokens, H, under, t, u, to, n)
  BY <1>1, <1>2, TransferIs DEF TransferUnder
<1>4. /\ under' \in [SuperTokens -> [H -> Nat]]
      /\ leftUnder' \in [SuperTokens -> Nat]
      /\ \A x \in SuperTokens : under'[x][App] = leftUnder'[x]
  <2>1. AfterTransfer(SuperTokens, H, under, t, u, to, n) \in [SuperTokens -> [H -> Nat]]
    BY <1>1, <1>2, TransferType DEF TransferUnder
  <2>2. leftUnder' \in [SuperTokens -> Nat]
    BY <1>1, <1>2 DEF TransferUnder
  <2>3. \A x \in SuperTokens : under'[x][App] = leftUnder'[x]
    BY <1>1, <1>2, <1>3 DEF AfterTransfer, PassThrough, TransferUnder
  <2> QED BY <1>3, <2>1, <2>2, <2>3
<1>5. TypeOK'
  BY <1>4 DEF TypeOK, TransferUnder, config, H
<1> QED BY <1>4, <1>5 DEF PassThrough, NoStandingAllowance, AppSendsNothing, TransferUnder

\* Holder s wraps or unwraps n of what it holds of t for holder h, itself unless s is the app.
Converts(t, s, h, n) ==
  LET H == Holders \cup SuperTokens
  IN  \/ /\ n <= under[t][s]
         /\ under' = AfterTransfer(SuperTokens, H, under, t, s, t, n)
         /\ super' = AfterSet(SuperTokens, Holders, super, t, h, super[t][h] + n)
         /\ leftUnder' = [leftUnder EXCEPT ![t] = IF s = App THEN @ - n ELSE @]
         /\ UNCHANGED left
      \/ /\ n <= super[t][s] /\ n <= under[t][t]
         /\ under' = AfterTransfer(SuperTokens, H, under, t, t, h, n)
         /\ super' = AfterSet(SuperTokens, Holders, super, t, s, super[t][s] - n)
         /\ left' = [left EXCEPT ![t] = IF s = App THEN @ - n ELSE @]
         /\ UNCHANGED leftUnder

LEMMA ConvertStep ==
  ASSUME Inv, NEW t \in SuperTokens, NEW s \in Holders, NEW h \in Holders \ {App},
         NEW n \in Nat, Converts(t, s, h, n),
         UNCHANGED <<config, approved, allowance, underAllowance, flow>>
  PROVE  Inv'
<1> USE DEF Inv
<1> DEFINE H == Holders \cup SuperTokens
<1>1. /\ App \in Holders /\ App \in H /\ h \in H /\ s \in H /\ t \in H /\ t # App
  BY Members
<1>2. /\ under \in [SuperTokens -> [H -> Nat]] /\ super \in [SuperTokens -> [Holders -> Nat]]
      /\ left \in [SuperTokens -> Nat] /\ leftUnder \in [SuperTokens -> Nat]
      /\ \A x \in SuperTokens : super[x][App] = left[x] /\ under[x][App] = leftUnder[x]
  BY DEF TypeOK, PassThrough
<1>3. super[t][h] \in Nat /\ super[t][s] \in Nat  BY <1>2
<1> HIDE DEF H
<1>4. /\ under' \in [SuperTokens -> [H -> Nat]] /\ leftUnder' \in [SuperTokens -> Nat]
      /\ \A x \in SuperTokens : under'[x][App] = leftUnder'[x]
  <2>1. CASE /\ n <= under[t][s] /\ under' = AfterTransfer(SuperTokens, H, under, t, s, t, n)
             /\ leftUnder' = [leftUnder EXCEPT ![t] = IF s = App THEN @ - n ELSE @]
    <3>1. under' \in [SuperTokens -> [H -> Nat]]
      BY <1>1, <1>2, <2>1, TransferType
    <3>2. ASSUME NEW x \in SuperTokens PROVE under'[x][App] = leftUnder'[x]
      BY <1>1, <1>2, <2>1 DEF AfterTransfer
    <3>3. \A x \in SuperTokens : leftUnder'[x] \in Nat
      BY <1>1, <3>1, <3>2
    <3> QED BY <1>2, <2>1, <3>1, <3>2, <3>3
  <2>2. CASE /\ n <= under[t][t] /\ under' = AfterTransfer(SuperTokens, H, under, t, t, h, n)
             /\ leftUnder' = leftUnder
    <3>1. under' \in [SuperTokens -> [H -> Nat]]
      BY <1>1, <1>2, <2>2, TransferType
    <3>2. ASSUME NEW x \in SuperTokens PROVE under'[x][App] = leftUnder'[x]
      BY <1>1, <1>2, <2>2 DEF AfterTransfer
    <3> QED BY <1>2, <2>2, <3>1, <3>2
  <2> QED BY <2>1, <2>2 DEF Converts, H
<1>5. /\ super' \in [SuperTokens -> [Holders -> Nat]] /\ left' \in [SuperTokens -> Nat]
      /\ \A x \in SuperTokens : super'[x][App] = left'[x]
  <2>1. CASE /\ super' = AfterSet(SuperTokens, Holders, super, t, h, super[t][h] + n)
             /\ left' = left
    BY <1>1, <1>2, <1>3, <2>1 DEF AfterSet
  <2>2. CASE /\ n <= super[t][s]
             /\ super' = AfterSet(SuperTokens, Holders, super, t, s, super[t][s] - n)
             /\ left' = [left EXCEPT ![t] = IF s = App THEN @ - n ELSE @]
    <3>1. super' \in [SuperTokens -> [Holders -> Nat]]
      BY <1>2, <1>3, <2>2 DEF AfterSet
    <3>2. ASSUME NEW x \in SuperTokens PROVE super'[x][App] = left'[x]
      BY <1>1, <1>2, <2>2 DEF AfterSet
    <3>3. \A x \in SuperTokens : left'[x] \in Nat
      BY <1>1, <3>1, <3>2
    <3> QED BY <1>2, <2>2, <3>1, <3>2, <3>3
  <2> QED BY <2>1, <2>2 DEF Converts
<1>6. TypeOK'
  BY <1>4, <1>5 DEF TypeOK, config, H
<1> QED BY <1>4, <1>5, <1>6 DEF PassThrough, NoStandingAllowance, AppSendsNothing

\* The app converts what an Agent sent it, or else what it was left with.
Payer == IF AgentObeys THEN agent ELSE App

LEMMA PayerIs ==
  ASSUME AgentObeys \/ AgentUnknown
  PROVE  /\ agent \in Holders \ {App} /\ agent \in Users \cup Agents /\ Payer \in Holders
         /\ AgentObeys => agent \in Agents /\ Payer = agent
         /\ ~AgentObeys => agent \in OtherContracts /\ Payer = App
  BY Members, AddressAssumption DEF AgentObeys, AgentUnknown, Payer

LEMMA UpgradeConverts ==
  ASSUME Inv, NEW t, NEW n \in Nat, AgentObeys \/ AgentUnknown, UpgradeBooked(t, n)
  PROVE  t \in SuperTokens /\ Converts(t, Payer, agent, n) /\ underAllowance' = underAllowance
<1> USE DEF Inv
<1> DEFINE H == Holders \cup SuperTokens
<1>1. t \in SuperTokens
  BY DEF UpgradeBooked, Booked
<1>2. /\ App \in Holders /\ App \in H /\ agent \in Holders \ {App} /\ agent \in H \ {App}
      /\ t \in H \ {App} /\ t \in Spenders /\ Payer \in H
  BY <1>1, Members, PayerIs
<1>3. under \in [SuperTokens -> [H -> Nat]] /\ super \in [SuperTokens -> [Holders -> Nat]]
      /\ leftUnder \in [SuperTokens -> Nat]
  BY DEF TypeOK
<1>4. super' = Transfer(AfterSet(SuperTokens, Holders, super, t, App, super[t][App] + n),
                        t, App, agent, n)
  <2>1. [super EXCEPT ![t][App] = @ + n]
          = AfterSet(SuperTokens, Holders, super, t, App, super[t][App] + n)
    BY <1>1, <1>2, <1>3 DEF AfterSet
  <2> QED BY <2>1 DEF UpgradeBooked
<1> HIDE DEF H
<1>5. n <= under[t][Payer] /\ under' = AfterTransfer(SuperTokens, H, under, t, Payer, t, n)
  <2>1. CASE AgentObeys
    <3>1. n <= under[t][agent] /\ Payer = agent
          /\ under' = Transfer(Transfer(under, t, agent, App, n), t, App, t, n)
      BY <2>1 DEF UpgradeBooked, Payer
    <3> QED BY <1>1, <1>2, <1>3, <3>1, ThroughApp
  <2>2. CASE ~AgentObeys
    <3>1. n <= under[t][App] /\ Payer = App /\ under' = Transfer(under, t, App, t, n)
      BY <2>2 DEF UpgradeBooked, Payer
    <3> QED BY <1>1, <1>2, <1>3, <3>1, TransferIs
  <2> QED BY <2>1, <2>2
<1>6. super' = AfterSet(SuperTokens, Holders, super, t, agent, super[t][agent] + n)
  BY <1>1, <1>2, <1>3, <1>4, MintThroughApp
<1>7. underAllowance' = underAllowance
  <2>1. underAllowance[t][t] = 0 BY <1>1 DEF NoStandingAllowance
  <2>2. underAllowance' = [[underAllowance EXCEPT ![t][t] = n] EXCEPT ![t][t] = n - n]
    BY <1>1, <1>2 DEF UpgradeBooked, TypeOK
  <2> QED BY <1>1, <1>2, <2>1, <2>2 DEF TypeOK
<1>8. leftUnder' = [leftUnder EXCEPT ![t] = IF Payer = App THEN @ - n ELSE @] /\ UNCHANGED left
  <2>1. AgentObeys <=> Payer # App
    BY PayerIs
  <2> QED BY <1>1, <1>3, <2>1 DEF UpgradeBooked
<1> QED BY <1>1, <1>5, <1>6, <1>7, <1>8 DEF Converts, H

LEMMA DowngradeConverts ==
  ASSUME Inv, NEW t, NEW n \in Nat, AgentObeys \/ AgentUnknown, DowngradeBooked(t, n)
  PROVE  t \in SuperTokens /\ Converts(t, Payer, agent, n)
<1> USE DEF Inv
<1> DEFINE H == Holders \cup SuperTokens
<1>1. t \in SuperTokens
  BY DEF DowngradeBooked, Booked
<1>2. /\ App \in Holders /\ App \in H /\ agent \in Holders \ {App} /\ agent \in H \ {App}
      /\ t \in H \ {App}
  BY <1>1, Members, PayerIs
<1>3. under \in [SuperTokens -> [H -> Nat]] /\ super \in [SuperTokens -> [Holders -> Nat]]
      /\ left \in [SuperTokens -> Nat]
  BY DEF TypeOK
<1>4. n <= under[t][t] /\ under' = Transfer(Transfer(under, t, t, App, n), t, App, agent, n)
  BY DEF DowngradeBooked
<1> HIDE DEF H
<1>5. under' = AfterTransfer(SuperTokens, H, under, t, t, agent, n)
  BY <1>1, <1>2, <1>3, <1>4, ThroughApp
<1>6. n <= super[t][Payer]
      /\ super' = AfterSet(SuperTokens, Holders, super, t, Payer, super[t][Payer] - n)
  <2>1. CASE AgentObeys
    <3> DEFINE half == Transfer(super, t, agent, App, n)
    <3>1. Payer = agent /\ n <= super[t][agent] /\ super' = [half EXCEPT ![t][App] = @ - n]
      BY <2>1 DEF DowngradeBooked, Payer
    <3>2. half \in [SuperTokens -> [Holders -> Nat]]
      <4>1. half = AfterTransfer(SuperTokens, Holders, super, t, agent, App, n)
        BY <1>1, <1>2, <1>3, <3>1, TransferIs
      <4>2. AfterTransfer(SuperTokens, Holders, super, t, agent, App, n)
              \in [SuperTokens -> [Holders -> Nat]]
        BY <1>1, <1>2, <1>3, <3>1, TransferType
      <4> QED BY <4>1, <4>2
    <3>3. AfterSet(SuperTokens, Holders, half, t, App, half[t][App] - n)
            = AfterSet(SuperTokens, Holders, super, t, agent, super[t][agent] - n)
      BY <1>1, <1>2, <1>3, <3>1, BurnThroughApp
    <3> HIDE DEF half
    <3>4. super' = AfterSet(SuperTokens, Holders, half, t, App, half[t][App] - n)
      BY <1>1, <1>2, <3>1, <3>2 DEF AfterSet
    <3> QED BY <3>1, <3>3, <3>4
  <2>2. CASE ~AgentObeys
    <3>1. Payer = App /\ n <= super[t][App] /\ super' = [super EXCEPT ![t][App] = @ - n]
      BY <2>2 DEF DowngradeBooked, Payer
    <3> QED BY <1>1, <1>2, <1>3, <3>1 DEF AfterSet
  <2> QED BY <2>1, <2>2
<1>7. left' = [left EXCEPT ![t] = IF Payer = App THEN @ - n ELSE @] /\ UNCHANGED leftUnder
  <2>1. AgentObeys <=> Payer # App
    BY PayerIs
  <2> QED BY <1>1, <1>3, <2>1 DEF DowngradeBooked
<1> QED BY <1>1, <1>4, <1>5, <1>6, <1>7 DEF Converts, H

LEMMA ConvertOwnConverts ==
  ASSUME Inv, NEW u \in Users, NEW t \in SuperTokens, NEW n \in Amounts, ConvertOwn(u, t, n)
  PROVE  u \in Holders \ {App} /\ n \in Nat /\ Converts(t, u, u, n)
<1> USE DEF Inv
<1> DEFINE H == Holders \cup SuperTokens
<1>1. u \in Holders /\ u # App /\ n \in Nat /\ u \in H /\ t \in H
  BY Members
<1>2. /\ under \in [SuperTokens -> [H -> Nat]] /\ super \in [SuperTokens -> [Holders -> Nat]]
      /\ left \in [SuperTokens -> Nat] /\ leftUnder \in [SuperTokens -> Nat]
  BY DEF TypeOK
<1> HIDE DEF H
<1>3. /\ left' = left /\ leftUnder' = leftUnder
      /\ left = [left EXCEPT ![t] = IF u = App THEN @ - n ELSE @]
      /\ leftUnder = [leftUnder EXCEPT ![t] = IF u = App THEN @ - n ELSE @]
  BY <1>1, <1>2 DEF ConvertOwn
<1>4. super[t][u] \in Nat  BY <1>1, <1>2
<1>5. CASE /\ n <= under[t][u]
           /\ under' = Transfer(under, t, u, t, n)
           /\ super' = [super EXCEPT ![t][u] = @ + n]
  <2>1. under' = AfterTransfer(SuperTokens, H, under, t, u, t, n)
    BY <1>1, <1>2, <1>5, TransferIs
  <2>2. super' = AfterSet(SuperTokens, Holders, super, t, u, super[t][u] + n)
    BY <1>1, <1>2, <1>4, <1>5 DEF AfterSet
  <2> QED BY <1>1, <1>3, <1>5, <2>1, <2>2 DEF Converts, H
<1>6. CASE /\ n <= super[t][u] /\ n <= under[t][t]
           /\ super' = [super EXCEPT ![t][u] = @ - n]
           /\ under' = Transfer(under, t, t, u, n)
  <2>1. under' = AfterTransfer(SuperTokens, H, under, t, t, u, n)
    BY <1>1, <1>2, <1>6, TransferIs
  <2>2. super' = AfterSet(SuperTokens, Holders, super, t, u, super[t][u] - n)
    BY <1>1, <1>2, <1>4, <1>6 DEF AfterSet
  <2> QED BY <1>1, <1>3, <1>6, <2>1, <2>2 DEF Converts, H
<1> QED BY <1>5, <1>6 DEF ConvertOwn

\* Funds are lent to the app, returned by it or collected from it, and entered in its books.
MovesSuper(t, from, to, n) ==
  /\ n <= super[t][from] /\ super' = Transfer(super, t, from, to, n)
  /\ left' = Entered(left, t, from, to, n)
  /\ UNCHANGED <<under, leftUnder>>

MovesUnder(t, from, to, n) ==
  /\ n <= under[t][from] /\ under' = Transfer(under, t, from, to, n)
  /\ leftUnder' = Entered(leftUnder, t, from, to, n)
  /\ UNCHANGED <<super, left>>

LEMMA MovesStep ==
  ASSUME Inv, NEW t \in SuperTokens, NEW from \in Holders, NEW to \in Holders, from # to,
         NEW n \in Nat, MovesSuper(t, from, to, n) \/ MovesUnder(t, from, to, n)
  PROVE  /\ super' \in [SuperTokens -> [Holders -> Nat]]
         /\ under' \in [SuperTokens -> [Holders \cup SuperTokens -> Nat]]
         /\ left' \in [SuperTokens -> Nat] /\ leftUnder' \in [SuperTokens -> Nat]
         /\ PassThrough'
<1>1. CASE MovesSuper(t, from, to, n)
  <2>1. /\ super' \in [SuperTokens -> [Holders -> Nat]] /\ left' \in [SuperTokens -> Nat]
        /\ \A x \in SuperTokens : super'[x][App] = left'[x]
    BY <1>1, SuperMoves DEF MovesSuper
  <2> QED BY <1>1, <2>1 DEF MovesSuper, Inv, TypeOK, PassThrough
<1>2. CASE MovesUnder(t, from, to, n)
  <2>1. /\ under' \in [SuperTokens -> [Holders \cup SuperTokens -> Nat]]
        /\ leftUnder' \in [SuperTokens -> Nat]
        /\ \A x \in SuperTokens : under'[x][App] = leftUnder'[x]
    BY <1>2, UnderMoves DEF MovesUnder
  <2> QED BY <1>2, <2>1 DEF MovesUnder, Inv, TypeOK, PassThrough
<1> QED BY <1>1, <1>2

\* The approvals that a token which is no Super Token gets are its own.
LEMMA GrantsStep ==
  ASSUME Inv, NEW t \in OtherContracts, NEW y \in SuperTokens, NEW n \in Nat, Grants(t, y, n)
  PROVE  /\ allowance' \in [SuperTokens -> [Spenders -> Nat]]
         /\ underAllowance' \in [SuperTokens -> [Spenders -> Nat]]
         /\ NoStandingAllowance'
<1>1. /\ allowance \in [SuperTokens -> [Spenders -> Nat]]
      /\ underAllowance \in [SuperTokens -> [Spenders -> Nat]]
      /\ \A x \in SuperTokens, a \in Agents \cup SuperTokens :
           allowance[x][a] = 0 /\ underAllowance[x][a] = 0
  BY DEF Inv, TypeOK, NoStandingAllowance
<1>2. t \in Spenders /\ \A a \in Agents \cup SuperTokens : a # t /\ a \in Spenders
  BY Members
<1>3. CASE allowance' = [allowance EXCEPT ![y][t] = n] /\ UNCHANGED underAllowance
  BY <1>1, <1>2, <1>3 DEF NoStandingAllowance
<1>4. CASE underAllowance' = [underAllowance EXCEPT ![y][t] = n] /\ UNCHANGED allowance
  BY <1>1, <1>2, <1>4 DEF NoStandingAllowance
<1>5. CASE UNCHANGED <<allowance, underAllowance>>
  BY <1>1, <1>5 DEF NoStandingAllowance
<1> QED BY <1>3, <1>4, <1>5 DEF Grants

LEMMA UpgradeStep ==
  ASSUME Inv, NEW c \in Users, NEW t \in Tokens, NEW n \in Amounts, upgrade(c, t, n)
  PROVE  Inv'
<1>1. /\ n \in Nat /\ (AgentObeys \/ AgentUnknown) /\ isValidSuperToken(t)
      /\ UNCHANGED <<config, approved, flow>>
  BY Members DEF upgrade
<1>2. agent \in Holders \ {App} /\ Payer \in Holders /\ App \in Holders
  BY <1>1, PayerIs, Members
<1>3. CASE UpgradeBooked(t, n)
  <2>1. t \in SuperTokens /\ Converts(t, Payer, agent, n) /\ underAllowance' = underAllowance
    BY <1>1, <1>3, UpgradeConverts
  <2>2. UNCHANGED <<config, approved, allowance, underAllowance, flow>>
    BY <1>1, <1>3, <2>1 DEF UpgradeBooked
  <2> QED BY <1>1, <1>2, <2>1, <2>2, ConvertStep
<1>4. ASSUME ~Booked(t), NEW x \in SuperTokens, NEW y \in SuperTokens,
             Lends(x, n), Grants(t, y, n)
      PROVE  Inv'
  <2>1. t \in OtherContracts
    BY <1>1, <1>4, Accepted
  <2>2. /\ allowance' \in [SuperTokens -> [Spenders -> Nat]]
        /\ underAllowance' \in [SuperTokens -> [Spenders -> Nat]]
        /\ NoStandingAllowance'
    BY <1>1, <1>4, <2>1, GrantsStep
  <2>3. /\ super' \in [SuperTokens -> [Holders -> Nat]]
        /\ under' \in [SuperTokens -> [Holders \cup SuperTokens -> Nat]]
        /\ left' \in [SuperTokens -> Nat] /\ leftUnder' \in [SuperTokens -> Nat]
        /\ PassThrough'
    <3>1. CASE UNCHANGED <<super, under, left, leftUnder>>
      BY <3>1 DEF Inv, TypeOK, PassThrough
    <3>2. CASE MovesSuper(x, agent, App, n) \/ MovesUnder(x, agent, App, n)
      BY <1>1, <1>2, <3>2, MovesStep
    <3> QED BY <1>4, <3>1, <3>2 DEF Lends, MovesSuper, MovesUnder, Entered
  <2>4. TypeOK' /\ AppSendsNothing'
    BY <1>1, <2>2, <2>3 DEF Inv, TypeOK, AppSendsNothing, config
  <2> QED BY <2>2, <2>3, <2>4 DEF Inv
<1> QED BY <1>3, <1>4 DEF upgrade

LEMMA DowngradeStep ==
  ASSUME Inv, NEW c \in Users, NEW t \in Tokens, NEW n \in Amounts, downgrade(c, t, n)
  PROVE  Inv'
<1>1. /\ n \in Nat /\ (AgentObeys \/ AgentUnknown)
      /\ UNCHANGED <<config, approved, allowance, underAllowance, flow>>
  BY Members DEF downgrade
<1>2. agent \in Holders \ {App} /\ Payer \in Holders /\ App \in Holders
  BY <1>1, PayerIs, Members
<1>3. CASE DowngradeBooked(t, n)
  <2>1. t \in SuperTokens /\ Converts(t, Payer, agent, n)
    BY <1>1, <1>3, DowngradeConverts
  <2> QED BY <1>1, <1>2, <2>1, ConvertStep
<1>4. ASSUME NEW x \in SuperTokens, Returns(x, n)
      PROVE  Inv'
  <2>1. /\ super' \in [SuperTokens -> [Holders -> Nat]]
        /\ under' \in [SuperTokens -> [Holders \cup SuperTokens -> Nat]]
        /\ left' \in [SuperTokens -> Nat] /\ leftUnder' \in [SuperTokens -> Nat]
        /\ PassThrough'
    <3>1. MovesSuper(x, App, agent, n) \/ MovesUnder(x, App, agent, n)
      BY <1>2, <1>4 DEF Returns, MovesSuper, MovesUnder, Entered
    <3> QED BY <1>1, <1>2, <3>1, MovesStep
  <2>2. TypeOK' /\ AppSendsNothing' /\ NoStandingAllowance'
    BY <1>1, <2>1 DEF Inv, TypeOK, AppSendsNothing, NoStandingAllowance, config
  <2> QED BY <2>1, <2>2 DEF Inv
<1> QED BY <1>3, <1>4 DEF downgrade

LEMMA CollectStep ==
  ASSUME Inv, NEW c \in OtherContracts, NEW t \in SuperTokens, NEW n \in Amounts,
         Collect(c, t, n)
  PROVE  Inv'
<1>1. /\ n \in Nat /\ c \in Holders /\ c # App /\ App \in Holders /\ c \in Spenders
      /\ \A a \in Agents \cup SuperTokens : a # c /\ a \in Spenders
  BY Members
<1>2. /\ super' \in [SuperTokens -> [Holders -> Nat]]
      /\ under' \in [SuperTokens -> [Holders \cup SuperTokens -> Nat]]
      /\ left' \in [SuperTokens -> Nat] /\ leftUnder' \in [SuperTokens -> Nat]
      /\ PassThrough'
  <2>1. MovesSuper(t, App, c, n) \/ MovesUnder(t, App, c, n)
    BY <1>1 DEF Collect, MovesSuper, MovesUnder, Entered
  <2> QED BY <1>1, <2>1, MovesStep
<1>3. /\ allowance \in [SuperTokens -> [Spenders -> Nat]]
      /\ underAllowance \in [SuperTokens -> [Spenders -> Nat]]
      /\ \A x \in SuperTokens, a \in Agents \cup SuperTokens :
           allowance[x][a] = 0 /\ underAllowance[x][a] = 0
  BY DEF Inv, TypeOK, NoStandingAllowance
<1>4. /\ allowance' \in [SuperTokens -> [Spenders -> Nat]]
      /\ underAllowance' \in [SuperTokens -> [Spenders -> Nat]]
      /\ NoStandingAllowance'
  <2>1. CASE /\ n <= allowance[t][c] /\ allowance' = [allowance EXCEPT ![t][c] = @ - n]
             /\ UNCHANGED underAllowance
    <3>1. allowance[t][c] - n \in Nat BY <1>1, <1>3, <2>1
    <3> QED BY <1>1, <1>3, <2>1, <3>1 DEF NoStandingAllowance
  <2>2. CASE /\ n <= underAllowance[t][c]
             /\ underAllowance' = [underAllowance EXCEPT ![t][c] = @ - n]
             /\ UNCHANGED allowance
    <3>1. underAllowance[t][c] - n \in Nat BY <1>1, <1>3, <2>2
    <3> QED BY <1>1, <1>3, <2>2, <3>1 DEF NoStandingAllowance
  <2> QED BY <2>1, <2>2 DEF Collect
<1>5. TypeOK' /\ AppSendsNothing'
  BY <1>2, <1>4 DEF Inv, TypeOK, AppSendsNothing, Collect, config
<1> QED BY <1>2, <1>4, <1>5 DEF Inv

\* A rate is set on a flow that does not leave the app.
LEMMA RateStep ==
  ASSUME Inv, NEW t \in SuperTokens, NEW s \in Holders \ {App}, NEW r \in Holders,
         NEW rate \in Nat, CfaSetRate(t, s, r, rate),
         UNCHANGED <<config, under, approved, allowance, underAllowance, left, leftUnder>>
  PROVE  Inv'
<1> USE DEF Inv
<1>1. App \in Holders  BY DEF Holders
<1>2. super \in [SuperTokens -> [Holders -> Nat]]
      /\ flow \in [SuperTokens -> [Holders -> [Holders -> Nat]]]
  BY DEF TypeOK
<1>3. Lock(rate) \in Nat /\ Lock(flow[t][s][r]) \in Nat /\ super[t][s] \in Nat
  <2>1. flow[t][s][r] \in Nat  BY <1>2
  <2> QED BY <1>2, <2>1, NumberAssumption DEF Lock
<1>4. super' = AfterSet(SuperTokens, Holders, super, t, s,
                        super[t][s] + Lock(flow[t][s][r]) - Lock(rate))
  BY <1>2, <1>3 DEF CfaSetRate, AfterSet
<1>5. \E v \in Nat : super' = AfterSet(SuperTokens, Holders, super, t, s, v)
  BY <1>3, <1>4 DEF CfaSetRate
<1>6. /\ super' \in [SuperTokens -> [Holders -> Nat]]
      /\ \A x \in SuperTokens : super'[x][App] = super[x][App]
  BY <1>1, <1>2, <1>5 DEF AfterSet
<1>7. flow' \in [SuperTokens -> [Holders -> [Holders -> Nat]]]
  BY <1>2 DEF CfaSetRate
<1>8. AppSendsNothing'
  BY <1>1, <1>2 DEF AppSendsNothing, CfaSetRate
<1>9. TypeOK'
  BY <1>6, <1>7 DEF TypeOK, config
<1> QED BY <1>6, <1>8, <1>9 DEF PassThrough, NoStandingAllowance

LEMMA LiquidateStep ==
  ASSUME Inv, NEW u \in Users, NEW t \in SuperTokens, NEW s \in Holders, NEW r \in Holders,
         Liquidate(u, t, s, r)
  PROVE  Inv'
<1> USE DEF Inv
<1>1. App \in Holders /\ u \in Holders \ {App}
  BY Members
<1>2. super \in [SuperTokens -> [Holders -> Nat]]
      /\ flow \in [SuperTokens -> [Holders -> [Holders -> Nat]]]
  BY DEF TypeOK
<1>3. Lock(flow[t][s][r]) \in Nat /\ super[t][u] \in Nat
  <2>1. flow[t][s][r] \in Nat  BY <1>2
  <2> QED BY <1>1, <1>2, <2>1, NumberAssumption DEF Lock
<1>4. super' = AfterSet(SuperTokens, Holders, super, t, u, super[t][u] + Lock(flow[t][s][r]))
  BY <1>1, <1>2, <1>3 DEF Liquidate, AfterSet
<1>5. \E v \in Nat : super' = AfterSet(SuperTokens, Holders, super, t, u, v)
  BY <1>3, <1>4
<1>6. /\ super' \in [SuperTokens -> [Holders -> Nat]]
      /\ \A x \in SuperTokens : super'[x][App] = super[x][App]
  BY <1>1, <1>2, <1>5 DEF AfterSet
<1>7. flow' \in [SuperTokens -> [Holders -> [Holders -> Nat]]]
  BY <1>2 DEF Liquidate
<1>8. AppSendsNothing'
  BY <1>1, <1>2 DEF AppSendsNothing, Liquidate
<1>9. TypeOK'
  BY <1>6, <1>7 DEF TypeOK, Liquidate, config
<1> QED BY <1>6, <1>8, <1>9 DEF PassThrough, NoStandingAllowance, Liquidate

\* A CFA call names a flow between different parties, so for the agent's calls and
\* an account's own ones the sender is not the app.
LEMMA FlowStep ==
  ASSUME Inv, NEW c \in Users, NEW t \in Tokens, NEW h \in Holders, NEW rate \in Rates,
         \/ createFlow(c, t, h, rate) \/ updateFlow(c, t, h, rate)
         \/ deleteFlow(c, t, h) \/ deleteOwnFlow(c, t)
  PROVE  Inv'
<1>1. /\ t \in SuperTokens /\ agent \in Holders \ {App} /\ rate \in Nat /\ 0 \in Nat
      /\ c \in Holders
  BY Members, PayerIs
  DEF createFlow, updateFlow, deleteFlow, deleteOwnFlow, Booked, callAgreement
<1>2. UNCHANGED <<config, under, approved, allowance, underAllowance, left, leftUnder>>
  BY DEF createFlow, updateFlow, deleteFlow, deleteOwnFlow, callAgreement
<1>3. \/ CfaSetRate(t, agent, h, rate) \/ CfaSetRate(t, agent, h, 0)
      \/ CfaSetRate(t, agent, c, 0)
  BY DEF createFlow, updateFlow, deleteFlow, deleteOwnFlow, CfaCreate, CfaUpdate, CfaDelete
<1> QED BY <1>1, <1>2, <1>3, RateStep

LEMMA OwnFlowStep ==
  ASSUME Inv, NEW u \in Users, NEW t \in SuperTokens, NEW h \in Holders, NEW rate \in Rates,
         OwnFlow(u, t, h, rate)
  PROVE  Inv'
<1>1. u \in Holders \ {App} /\ rate \in Nat /\ 0 \in Nat
  BY Members
<1>2. UNCHANGED <<config, under, approved, allowance, underAllowance, left, leftUnder>>
  BY DEF OwnFlow
<1>3. \/ CfaSetRate(t, u, h, rate) \/ CfaSetRate(t, u, h, 0)
      \/ h \in Holders \ {App} /\ CfaSetRate(t, h, u, 0)
  <2>1. ASSUME h = App PROVE ~CfaDelete(t, h, u)
    BY <1>1, <2>1 DEF Inv, AppSendsNothing, CfaDelete
  <2> QED BY <2>1 DEF OwnFlow, CfaCreate, CfaUpdate, CfaDelete
<1> QED BY <1>1, <1>2, <1>3, RateStep

LEMMA AppStep == Inv /\ AppNext => Inv'
<1> SUFFICES ASSUME Inv, AppNext PROVE Inv'
  OBVIOUS
<1>1. CASE \E a \in Contracts \cup Accounts, h \in {Host} \cup Accounts,
                f \in {Cfa} \cup Accounts : initialize(a, h, f)
  BY <1>1, InitializeStep
<1>2. CASE \E c \in Users, a \in Contracts \cup Accounts : setAgent(c, a)
  BY <1>2, SetAgentStep
<1>3. ASSUME NEW c \in Users, NEW t \in Tokens, NEW n \in Amounts,
             \E ext \in BOOLEAN : deposit(c, t, n, ext)
      PROVE  Inv'
  BY <1>3, DepositStep
<1>4. ASSUME NEW c \in Users, NEW t \in Tokens, NEW n \in Amounts,
             NEW h \in Holders, withdraw(c, t, h, n)
      PROVE  Inv'
  <2>1. t \in SuperTokens /\ n \in Nat /\ agent \in Holders \ {App}
    BY <1>4, Members, PayerIs DEF withdraw, Booked
  <2> QED BY <1>4, <2>1, PayStep DEF withdraw
<1>5. ASSUME NEW c \in Users, NEW t \in Tokens, NEW n \in Amounts,
             upgrade(c, t, n) \/ downgrade(c, t, n)
      PROVE  Inv'
  BY <1>5, UpgradeStep, DowngradeStep
<1>7. ASSUME NEW c \in Users, NEW t \in Tokens, NEW h \in Holders, NEW rate \in Rates,
             \/ createFlow(c, t, h, rate) \/ updateFlow(c, t, h, rate)
             \/ deleteFlow(c, t, h) \/ deleteOwnFlow(c, t)
      PROVE  Inv'
  BY <1>7, FlowStep
<1>8. 0 \in Rates /\ App \in Holders
  BY NumberAssumption DEF Rates, Holders
<1> QED BY <1>1, <1>2, <1>3, <1>4, <1>5, <1>7, <1>8 DEF AppNext

LEMMA WorldStep == Inv /\ WorldNext => Inv'
<1> SUFFICES ASSUME Inv, WorldNext PROVE Inv'
  OBVIOUS
<1>1. ASSUME NEW u \in Users, NEW t \in SuperTokens, NEW n \in Amounts, Approve(u, t, n)
      PROVE  Inv'
  <2>1. n \in Nat  BY NumberAssumption DEF Amounts
  <2>2. TypeOK'
    BY <1>1, <2>1 DEF Inv, TypeOK, Approve, config
  <2> QED BY <1>1, <2>2 DEF Inv, PassThrough, NoStandingAllowance, AppSendsNothing, Approve
<1>2. ASSUME NEW u \in Users, NEW t \in SuperTokens, NEW n \in Amounts, NEW h \in Holders,
             TransferSuper(u, t, h, n)
      PROVE  Inv'
  <2>1. n \in Nat /\ u \in Holders \ {App}
    BY Members
  <2> QED BY <1>2, <2>1, PayStep DEF TransferSuper
<1>3. ASSUME NEW u \in Users, NEW t \in SuperTokens, NEW n \in Amounts, ConvertOwn(u, t, n)
      PROVE  Inv'
  <2>1. u \in Holders \ {App} /\ n \in Nat /\ Converts(t, u, u, n)
    BY <1>3, ConvertOwnConverts
  <2>2. UNCHANGED <<config, approved, allowance, underAllowance, flow>>
    BY <1>3 DEF ConvertOwn
  <2> QED BY <2>1, <2>2, ConvertStep
<1>4. ASSUME NEW t \in SuperTokens, NEW s \in Holders, NEW r \in Holders, Stream(t, s, r)
      PROVE  Inv'
  <2>1. flow[t][s][r] \in Nat
    BY DEF Inv, TypeOK
  <2>2. s # App
    BY <1>4 DEF Inv, AppSendsNothing, Stream
  <2> QED BY <1>4, <2>1, <2>2, PayStep DEF Stream
<1> QED
  BY <1>1, <1>2, <1>3, <1>4, TransferUnderStep, CollectStep, OwnFlowStep, LiquidateStep
  DEF WorldNext

LEMMA InvStep == Inv /\ [Next]_vars => Inv'
<1>1. ASSUME Inv, UNCHANGED vars PROVE Inv'
  <2>1. UNCHANGED <<initialized, agent, host, cfa>>
    BY <1>1 DEF vars, config
  <2>2. UNCHANGED <<super, under, approved, allowance, underAllowance, left, leftUnder, flow>>
    BY <1>1 DEF vars, ledger
  <2>3. TypeOK'
    BY <1>1, <2>1, <2>2 DEF Inv, TypeOK
  <2>4. PassThrough' /\ NoStandingAllowance' /\ AppSendsNothing'
    BY <1>1, <2>2 DEF Inv, PassThrough, NoStandingAllowance, AppSendsNothing
  <2> QED BY <2>3, <2>4 DEF Inv
<1> QED BY <1>1, AppStep, WorldStep DEF Next

LEMMA InvAlways == Spec => []Inv
  BY InitInv, InvStep, PTL DEF Spec

\* Every balance, allowance, rate and remainder stays a natural number, and the app has
\* an agent exactly when it is initialized, whatever sequence of calls is made.
THEOREM TypeCorrect == Spec => []TypeOK
<1>1. Inv => TypeOK  BY DEF Inv
<1> QED BY <1>1, InvAlways, PTL

\* Between transactions the app holds exactly what was left with it: deposit, upgrade,
\* downgrade and withdraw of a Super Token pass everything on to or from an Agent, and
\* what calls that name other contracts leave with the app is all that they leave.
THEOREM NothingKept == Spec => []PassThrough
<1>1. Inv => PassThrough  BY DEF Inv
<1> QED BY <1>1, InvAlways, PTL

\* The approvals that deposit gives an Agent and upgrade a Super Token are used up in the
\* same transaction, also after calls that left other contracts with an approval.
THEOREM NothingApproved == Spec => []NoStandingAllowance
<1>1. Inv => NoStandingAllowance  BY DEF Inv
<1> QED BY <1>1, InvAlways, PTL

\* Only the current agent's flows are set by a call, and only an account's own flows by
\* others; a flow of another agent changes by being ended.
LEMMA OthersFrozen ==
  ASSUME Inv, [Next]_vars,
         NEW t \in SuperTokens, NEW a \in Agents \ {agent}, NEW r \in Holders
  PROVE  flow'[t][a][r] \in {flow[t][a][r], 0}
<1>1. flow \in [SuperTokens -> [Holders -> [Holders -> Nat]]] /\ a \in Holders /\ a \notin Users
  BY Members DEF Inv, TypeOK
<1>2. ASSUME NEW x \in Tokens, NEW s \in Holders, NEW y \in Holders, NEW rate,
             CfaSetRate(x, s, y, rate), x \in SuperTokens, s # a \/ rate = 0
      PROVE  flow'[t][a][r] \in {flow[t][a][r], 0}
  BY <1>1, <1>2 DEF CfaSetRate
<1>3. ASSUME NEW c \in Users, NEW x \in Tokens, NEW h \in Holders, NEW rate \in Rates,
             \/ createFlow(c, x, h, rate) \/ updateFlow(c, x, h, rate)
             \/ deleteFlow(c, x, h) \/ deleteOwnFlow(c, x)
      PROVE  flow'[t][a][r] \in {flow[t][a][r], 0}
  <2>1. x \in SuperTokens /\ agent \in Holders /\ c \in Holders
    BY <1>3, Members, PayerIs
    DEF createFlow, updateFlow, deleteFlow, deleteOwnFlow, Booked, callAgreement
  <2>2. \/ CfaSetRate(x, agent, h, rate) \/ CfaSetRate(x, agent, h, 0)
        \/ CfaSetRate(x, agent, c, 0)
    BY <1>3 DEF createFlow, updateFlow, deleteFlow, deleteOwnFlow,
                CfaCreate, CfaUpdate, CfaDelete
  <2> QED BY <1>2, <2>1, <2>2
<1>4. ASSUME NEW u \in Users, NEW x \in SuperTokens, NEW h \in Holders, NEW rate \in Rates,
             OwnFlow(u, x, h, rate)
      PROVE  flow'[t][a][r] \in {flow[t][a][r], 0}
  <2>1. u \in Holders /\ u # a /\ x \in Tokens
    BY <1>1, Members DEF Tokens
  <2>2. \/ CfaSetRate(x, u, h, rate) \/ CfaSetRate(x, u, h, 0) \/ CfaSetRate(x, h, u, 0)
    BY <1>4 DEF OwnFlow, CfaCreate, CfaUpdate, CfaDelete
  <2> QED BY <1>2, <2>1, <2>2
<1>5. ASSUME NEW u \in Users, NEW x \in SuperTokens, NEW s \in Holders, NEW y \in Holders,
             Liquidate(u, x, s, y)
      PROVE  flow'[t][a][r] \in {flow[t][a][r], 0}
  BY <1>1, <1>5 DEF Liquidate
<1>6. CASE UNCHANGED flow
  BY <1>6
<1>7. CASE AppNext
  <2>1. 0 \in Rates /\ App \in Holders
    BY NumberAssumption DEF Rates, Holders
  <2>2. CASE \E c \in Users, x \in Tokens :
               \/ \E h \in Holders, rate \in Rates :
                    createFlow(c, x, h, rate) \/ updateFlow(c, x, h, rate)
               \/ \E h \in Holders : deleteFlow(c, x, h)
               \/ deleteOwnFlow(c, x)
    BY <1>3, <2>1, <2>2
  <2>3. CASE \E c \in Users, x \in Tokens, n \in Amounts :
               \/ \E ext \in BOOLEAN : deposit(c, x, n, ext)
               \/ \E h \in Holders : withdraw(c, x, h, n)
               \/ upgrade(c, x, n)
               \/ downgrade(c, x, n)
    <3>1. UNCHANGED flow
      BY <2>3 DEF deposit, withdraw, upgrade, downgrade
    <3> QED BY <1>6, <3>1
  <2>4. CASE \E c \in Users, y \in Contracts \cup Accounts : setAgent(c, y)
    BY <1>6, <2>4 DEF setAgent
  <2>5. CASE \E y \in Contracts \cup Accounts, h \in {Host} \cup Accounts,
                f \in {Cfa} \cup Accounts : initialize(y, h, f)
    BY <1>6, <2>5 DEF initialize
  <2> QED BY <1>7, <2>2, <2>3, <2>4, <2>5 DEF AppNext
<1>8. CASE WorldNext
  <2>1. \/ \E u \in Users, x \in SuperTokens, h \in Holders, rate \in Rates :
             OwnFlow(u, x, h, rate)
        \/ \E u \in Users, x \in SuperTokens, s \in Holders, y \in Holders :
             Liquidate(u, x, s, y)
        \/ UNCHANGED flow
    BY <1>8 DEF WorldNext, Approve, TransferSuper, TransferUnder, ConvertOwn, Collect, Stream
  <2> QED BY <1>4, <1>5, <1>6, <2>1
<1> QED BY <1>6, <1>7, <1>8 DEF Next, vars

\* After setAgent the streams of the agent that was replaced are never opened, raised or
\* lowered again: they run on or are ended.
THEOREM ReplacedFrozen == Spec => ReplacedAgentFrozen
<1>1. Inv /\ [Next]_vars =>
        [\A t \in SuperTokens : \A a \in Agents \ {agent} : \A r \in Holders :
           flow'[t][a][r] \in {flow[t][a][r], 0}]_vars
  BY OthersFrozen
<1> QED BY <1>1, InvAlways, PTL DEF Spec, ReplacedAgentFrozen
=============================================================================
