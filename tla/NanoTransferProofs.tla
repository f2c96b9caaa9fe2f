------------------------ MODULE NanoTransferProofs ------------------------
EXTENDS NanoTransfer, SequenceTheorems, TLAPS

Call == InfoCall \cup WorkCall \cup ListCall \cup PostCall

(* What a call of each kind is made of.                                    *)
LEMMA CallKinds ==
    ASSUME NEW c \in Call
    PROVE  /\ c.session \in Sessions /\ c.lane \in Lanes
           /\ c.rpc = "account_info"  => c \in InfoCall
           /\ c.rpc = "work_generate" => c \in WorkCall
           /\ c.rpc = "pending"       => c \in ListCall
           /\ c.rpc = "process"       => c \in PostCall
BY DEF Call, InfoCall, WorkCall, ListCall, PostCall

(* An accepted block adds one entry, the head of its chain grows with it.  *)
LEMMA AcceptedType ==
    ASSUME NEW ch \in [Accounts -> Seq(Entry)], NEW b \in Block, NEW type,
           Accepts(ch, b, type)
    PROVE  /\ b.account \in Accounts
           /\ Len(ch[b.account]) \in Nat \ {0}
           /\ b.previous = Len(ch[b.account])
           /\ Recorded(b, type) \in Entry
<1>1. b.account \in Accounts /\ b.previous \in Heights
  BY DEF Block
<1>2. b.previous = Len(ch[b.account]) /\ ch[b.account] \in Seq(Entry)
  BY <1>1 DEF Accepts
<1>3. ch[b.account][b.previous] \in Entry
  BY <1>1, <1>2 DEF Heights
<1>4. b.balance \in Nat
  <2>1. CASE type = "send" BY <1>3, <2>1 DEF Accepts, IsSend, Entry
  <2>2. CASE type = "receive" BY <1>3, <2>2 DEF Accepts, IsReceive, Entry, Block
  <2> QED BY <2>1, <2>2 DEF Accepts
<1>5. type \in {"send", "receive"}
  BY DEF Accepts
<1>6. Recorded(b, type) \in Entry
  BY <1>4, <1>5 DEF Recorded, Entry, Block
<1> QED BY <1>1, <1>2, <1>6 DEF Heights

(* Whatever is published, the ledger stays a ledger.                       *)
LEMMA ProcessType ==
    ASSUME NEW ch \in [Accounts -> Seq(Entry)], NEW b \in Block, NEW type
    PROVE  Process(ch, b, type) \in [Accounts -> Seq(Entry)]
<1>1. CASE Accepts(ch, b, type)
  BY <1>1, AcceptedType DEF Process
<1> QED BY <1>1 DEF Process

(* The answer to account_info is well formed.                              *)
LEMMA AccountInfoType ==
    ASSUME NEW ch \in [Accounts -> Seq(Entry)], NEW a \in Accounts, ch[a] # << >>
    PROVE  /\ AccountInfo(ch, a) \in Info
           /\ AccountInfo(ch, a).frontier \in DOMAIN ch[a]
<1>1. ch[a] \in Seq(Entry) /\ Len(ch[a]) \in Nat \ {0}
  BY EmptySeq
<1>2. ch[a][Len(ch[a])] \in Entry
  BY <1>1
<1> QED BY <1>1, <1>2 DEF AccountInfo, Info, Entry, Heights

(* The first block of a chain opens it, so every send has a predecessor.   *)
OpenFirst ==
    \A a \in Accounts : chain[a] # << >> => chain[a][1].kind = "open"

TypeInv == TypeOK /\ OpenFirst

(* Pending items name blocks and integral amounts.                         *)
LEMMA PendingType ==
    ASSUME TypeInv, NEW a \in Accounts
    PROVE  PendingOf(chain, a) \subseteq PendingItem
<1> SUFFICES ASSUME NEW x \in Receivable(chain, a)
             PROVE  x \in Hashes /\ Sent(chain, x) \in Int
  BY DEF PendingOf, PendingItem
<1>1. PICK src \in Accounts : x \in {src} \X DOMAIN chain[src]
  BY DEF Receivable, Positions
<1>2. x = <<src, x[2]>> /\ x[1] = src /\ x[2] \in DOMAIN chain[src]
  BY <1>1
<1>3. chain[src] \in Seq(Entry) /\ chain[src][x[2]].kind = "send"
  BY <1>2 DEF Receivable, At, TypeInv, TypeOK
<1>4. x[2] \in Nat \ {0} /\ x[2] <= Len(chain[src])
  BY <1>2, <1>3
<1>5. x[2] # 1
  BY <1>3, <1>4 DEF TypeInv, OpenFirst
<1>6. chain[src][x[2]] \in Entry /\ chain[src][x[2] - 1] \in Entry
  BY <1>3, <1>4, <1>5
<1> QED BY <1>2, <1>4, <1>6 DEF Hashes, Sent, Entry

(* The first state is well typed: a chain is empty or one open block.      *)
LEMMA InitType == Init => TypeInv
<1> SUFFICES ASSUME Init PROVE TypeInv
  OBVIOUS
<1> DEFINE first(a) == [kind |-> "open", representative |-> Rep0,
                        balance |-> Opening[a], link |-> NoLink, order |-> 0]
<1>1. \A a \in Accounts : Opening[a] # -1 => first(a) \in Entry
  BY ConstantsOK DEF Entry, Links
<1>2. ASSUME NEW a \in Accounts
      PROVE  chain[a] \in Seq(Entry) /\ (chain[a] # << >> => chain[a][1].kind = "open")
  <2>1. CASE Opening[a] = -1
    BY <2>1 DEF Init
  <2>2. CASE Opening[a] # -1
    <3>1. first(a) \in Entry BY <1>1, <2>2
    <3>2. chain[a] = <<first(a)>> BY <2>2 DEF Init
    <3> HIDE DEF first
    <3>3. chain[a] \in Seq(Entry) /\ chain[a][1] = first(a) BY <3>1, <3>2
    <3> QED BY <3>3 DEF first
  <2> QED BY <2>1, <2>2
<1>3. chain \in [Accounts -> Seq(Entry)]
  BY <1>2 DEF Init
<1>4. OpenFirst
  BY <1>2 DEF OpenFirst
<1>5. {} \in Optional(Info) /\ {} \in Optional(Block)
  BY DEF Optional
<1> QED BY <1>3, <1>4, <1>5 DEF Init, TypeInv, TypeOK

(* The three places a block can be.                                        *)
LEMMA OutIff ==
    ASSUME NEW b
    PROVE  b \in BlocksOut <=> \/ \E s \in Sessions : b \in held[s]
                               \/ \E c \in calls : c.rpc = "process" /\ b = c.what.block
                               \/ \E x \in late : b = x.block
<1> DEFINE H == {held[s] : s \in Sessions}
           C == {c.what.block : c \in Posts}
           L == {x.block : x \in late}
<1>1. b \in UNION H <=> \E s \in Sessions : b \in held[s]
  <2>1. b \in UNION H <=> \E h \in H : b \in h OBVIOUS
  <2> QED BY <2>1
<1>2. b \in C <=> \E c \in calls : c.rpc = "process" /\ b = c.what.block
  BY DEF Posts
<1>3. b \in L <=> \E x \in late : b = x.block
  OBVIOUS
<1>4. b \in BlocksOut <=> b \in UNION H \/ b \in C \/ b \in L
  BY DEF BlocksOut
<1> HIDE DEF H, C, L
<1> QED BY <1>1, <1>2, <1>3, <1>4

OutPlaces ==
    \A b : b \in BlocksOut <=>
              \/ \E s \in Sessions : b \in held[s]
              \/ \E c \in calls : c.rpc = "process" /\ b = c.what.block
              \/ \E x \in late : b = x.block

(* The same of the next state.                                             *)
LEMMA OutPlacesNext == OutPlaces'
<1>1. OutPlaces
  <2> SUFFICES ASSUME NEW b
               PROVE  b \in BlocksOut <=>
                         \/ \E s \in Sessions : b \in held[s]
                         \/ \E c \in calls : c.rpc = "process" /\ b = c.what.block
                         \/ \E x \in late : b = x.block
    BY DEF OutPlaces
  <2> QED BY OutIff
<1> QED BY <1>1, PTL

(***************************************************************************)
(* What a step does to the ledger.                                         *)
(***************************************************************************)
Adds(a, e) == chain' = [chain EXCEPT ![a] = Append(@, e)]

(* The library adds a block by publishing one that a session holds, waits  *)
(* for or gave up on; another wallet adds a change of representative.      *)
LEMMA LedgerSteps ==
    ASSUME TypeInv, [Next]_vars
    PROVE  \/ chain' = chain
           \/ \E b \in BlocksOut, type \in TransactionTypes :
                /\ b \in Block
                /\ Accepts(chain, b, type)
                /\ Adds(b.account, Recorded(b, type))
           \/ \E a \in Accounts, rep \in Reps :
                /\ chain[a] # << >>
                /\ Adds(a, [kind |-> "change", representative |-> rep,
                            balance |-> chain[a][Len(chain[a])].balance,
                            link |-> NoLink, order |-> 0])
<1>1. ASSUME NEW x \in Submission, x.block \in BlocksOut,
             chain' = Process(chain, x.block, x.subtype)
      PROVE  \/ chain' = chain
             \/ \E b \in BlocksOut, type \in TransactionTypes :
                  /\ b \in Block
                  /\ Accepts(chain, b, type)
                  /\ Adds(b.account, Recorded(b, type))
  BY <1>1 DEF Process, Adds, Submission
<1>2. ASSUME NEW c \in calls, NodeProcesses(c)
      PROVE  /\ c.what \in Submission /\ c.what.block \in BlocksOut
             /\ chain' = Process(chain, c.what.block, c.what.subtype)
  <2>1. c \in PostCall
    BY <1>2, CallKinds DEF NodeProcesses, TypeInv, TypeOK, Call
  <2>2. c.what.block \in BlocksOut
    BY <1>2, OutIff DEF NodeProcesses
  <2> QED BY <1>2, <2>1, <2>2 DEF NodeProcesses, PostCall
<1>3. ASSUME NEW x \in late, NodeProcessesLate(x)
      PROVE  /\ x \in Submission /\ x.block \in BlocksOut
             /\ chain' = Process(chain, x.block, x.subtype)
  <2>1. x.block \in BlocksOut
    BY OutIff
  <2> QED BY <1>3, <2>1 DEF NodeProcessesLate, TypeInv, TypeOK
<1>4. CASE \E a \in Accounts, rep \in Reps : ChangeElsewhere(a, rep)
  BY <1>4 DEF ChangeElsewhere, Adds, TypeInv, TypeOK
<1>5. CASE \E s \in Sessions : Builds(s)
  BY <1>5 DEF Builds, SendBlock, ReceiveBlock
<1>6. CASE \E s \in Sessions, l \in Lanes : Starts(s, l)
  BY <1>6 DEF Starts, GetAccountInfo, GetPendingBlocks, GenerateWork, Publish, Start
<1>7. CASE \E c \in calls : Serves(c)
  BY <1>7, <1>1, <1>2 DEF Serves, NodeAnswersInfo, NodeAnswersPending
<1>8. CASE \E c \in calls : Returns(c)
  BY <1>8 DEF Returns, AccountInfoReturns, WorkReturns, PendingReturns,
              PublishReturns, Fails
<1>9. CASE \E x \in late : NodeProcessesLate(x)
  BY <1>9, <1>1, <1>3
<1>10. CASE UNCHANGED vars
  BY <1>10 DEF vars
<1> QED BY <1>4, <1>5, <1>6, <1>7, <1>8, <1>9, <1>10 DEF Next

(* Every step leaves a ledger, and chains that begin with an open block.   *)
LEMMA LedgerType ==
    ASSUME TypeInv, [Next]_vars
    PROVE  chain' \in [Accounts -> Seq(Entry)] /\ OpenFirst'
<1> USE DEF TypeInv, TypeOK
<1>1. ASSUME NEW a \in Accounts, NEW e \in Entry, chain[a] # << >>, Adds(a, e)
      PROVE  chain' \in [Accounts -> Seq(Entry)] /\ OpenFirst'
  <2>1. \A d \in Accounts : chain[d] \in Seq(Entry)
    OBVIOUS
  <2>2. Len(chain[a]) \in Nat \ {0} /\ chain'[a][1] = chain[a][1]
    BY <1>1, <2>1, EmptySeq DEF Adds
  <2>3. \A d \in Accounts \ {a} : chain'[d] = chain[d]
    BY <1>1 DEF Adds
  <2> QED BY <1>1, <2>1, <2>2, <2>3 DEF Adds, OpenFirst
<1>2. CASE \E b \in BlocksOut, type \in TransactionTypes :
             /\ b \in Block
             /\ Accepts(chain, b, type)
             /\ Adds(b.account, Recorded(b, type))
  <2>1. PICK b \in Block, type \in TransactionTypes :
             Accepts(chain, b, type) /\ Adds(b.account, Recorded(b, type))
    BY <1>2
  <2>2. b.account \in Accounts /\ chain[b.account] # << >> /\ Recorded(b, type) \in Entry
    BY <2>1, AcceptedType
  <2> QED BY <1>1, <2>1, <2>2
<1>3. CASE \E a \in Accounts, rep \in Reps :
             /\ chain[a] # << >>
             /\ Adds(a, [kind |-> "change", representative |-> rep,
                         balance |-> chain[a][Len(chain[a])].balance,
                         link |-> NoLink, order |-> 0])
  <2>1. PICK a \in Accounts, rep \in Reps :
             /\ chain[a] # << >>
             /\ Adds(a, [kind |-> "change", representative |-> rep,
                         balance |-> chain[a][Len(chain[a])].balance,
                         link |-> NoLink, order |-> 0])
    BY <1>3
  <2>2. chain[a][Len(chain[a])] \in Entry
    BY <2>1, EmptySeq
  <2>3. [kind |-> "change", representative |-> rep,
         balance |-> chain[a][Len(chain[a])].balance,
         link |-> NoLink, order |-> 0] \in Entry
    BY <2>2 DEF Entry, Links
  <2> QED BY <1>1, <2>1, <2>3
<1>4. CASE chain' = chain
  BY <1>4 DEF OpenFirst
<1> QED BY <1>2, <1>3, <1>4, LedgerSteps

(***************************************************************************)
(* Types, one step per action.                                             *)
(***************************************************************************)
(* Every step preserves the types.                                         *)
LEMMA NextType ==
    ASSUME TypeInv, [Next]_vars
    PROVE  TypeInv'
<1> DEFINE Rest == /\ orders' \in Seq(Order)
                   /\ info'   \in [Sessions -> Optional(Info)]
                   /\ held'   \in [Sessions -> Optional(Block)]
                   /\ found'  \in [Sessions -> SUBSET PendingItem]
                   /\ calls'  \subseteq Call
                   /\ late'   \subseteq Submission
<1>t. /\ orders \in Seq(Order)
      /\ info   \in [Sessions -> Optional(Info)]
      /\ held   \in [Sessions -> Optional(Block)]
      /\ found  \in [Sessions -> SUBSET PendingItem]
      /\ calls  \subseteq Call
      /\ late   \subseteq Submission
      /\ chain  \in [Accounts -> Seq(Entry)]
  BY DEF TypeInv, TypeOK, Call
<1>i. \A s \in Sessions : \A i \in info[s] : i \in Info
  BY <1>t DEF Optional
<1>b. \A s \in Sessions : \A b \in held[s] : b \in Block
  BY <1>t DEF Optional
<1>o. \A S : \A x \in S : {x} \in Optional(S)
  BY DEF Optional
<1>f. \A a \in Accounts, i \in Info, balance \in Int, link \in Links, order \in Nat :
         BlockFrom(a, i, balance, link, order) \in Block
  BY DEF BlockFrom, Block, Info
<1>c. Owner \in [Sessions -> Accounts]
  BY ConstantsOK
<1>1. ASSUME NEW s \in Sessions, NEW to \in Payees, NEW amount \in Amounts,
             SendBlock(s, to, amount)
      PROVE  Rest
  <2>1. PICK i \in info[s] :
           /\ orders' = Append(orders, [account |-> Owner[s], dest |-> to, amount |-> amount])
           /\ held' = [held EXCEPT ![s] =
                {BlockFrom(Owner[s], i, i.balance - amount, to, Len(orders) + 1)}]
           /\ UNCHANGED <<chain, info, found, calls, late>>
    BY <1>1 DEF SendBlock
  <2>2. amount \in Int /\ to \in Links /\ to \in Accounts
    BY ConstantsOK DEF Links
  <2>3. [account |-> Owner[s], dest |-> to, amount |-> amount] \in Order
    BY <1>c, <2>2 DEF Order
  <2>4. i \in Info /\ i.balance - amount \in Int
    BY <1>i, <2>2 DEF Info
  <2>5. BlockFrom(Owner[s], i, i.balance - amount, to, Len(orders) + 1) \in Block
    BY <1>c, <1>f, <1>t, <2>2, <2>4
  <2> QED BY <1>t, <1>o, <2>1, <2>3, <2>5
<1>2. ASSUME NEW s \in Sessions, NEW p \in found[s], ReceiveBlock(s, p.hash, p.amount)
      PROVE  Rest
  <2>1. PICK i \in info[s] :
           /\ held' = [held EXCEPT ![s] =
                {BlockFrom(Owner[s], i, i.balance + p.amount, p.hash, 0)}]
           /\ UNCHANGED <<chain, orders, info, found, calls, late>>
    BY <1>2 DEF ReceiveBlock
  <2>2. p \in PendingItem
    BY <1>t
  <2>3. p.amount \in Int /\ p.hash \in Links
    BY <2>2 DEF PendingItem, Links
  <2>4. i \in Info /\ i.balance + p.amount \in Int
    BY <1>i, <2>3 DEF Info
  <2>5. BlockFrom(Owner[s], i, i.balance + p.amount, p.hash, 0) \in Block
    BY <1>c, <1>f, <2>3, <2>4
  <2> QED BY <1>t, <1>o, <2>1, <2>5
<1>3. ASSUME NEW c \in Call, Start(c)
      PROVE  Rest
  BY <1>3, <1>t DEF Start
<1>4. ASSUME NEW s \in Sessions, NEW l \in Lanes, Starts(s, l)
      PROVE  Rest
  <2>1. CASE GetAccountInfo(s, l)
    BY <2>1, <1>3 DEF GetAccountInfo, Call, InfoCall, Optional
  <2>2. CASE GetPendingBlocks(s, l)
    BY <2>2, <1>3 DEF GetPendingBlocks, Call, ListCall, Optional
  <2>3. CASE \E type \in WorkTypes : GenerateWork(s, l, type)
    <3>1. PICK type \in WorkTypes, i \in info[s] :
             Start([rpc |-> "work_generate", session |-> s, lane |-> l,
                    work |-> [root |-> i.frontier, difficulty |-> Difficulty(type)]])
      BY <2>3 DEF GenerateWork
    <3>2. Difficulty(type) \in {1, 2, 3}
      BY ConstantsOK DEF Difficulty
    <3>3. [root |-> i.frontier, difficulty |-> Difficulty(type)] \in Work
      BY <1>i, <3>2 DEF Work, Info
    <3> QED BY <3>1, <3>3, <1>3 DEF Call, WorkCall
  <2>4. CASE \E type \in TransactionTypes : Publish(s, l, type)
    <3>1. PICK type \in TransactionTypes, b \in held[s] :
             Start([rpc |-> "process", session |-> s, lane |-> l,
                    what |-> [block |-> b, subtype |-> type], answered |-> FALSE])
      BY <2>4 DEF Publish
    <3>2. [block |-> b, subtype |-> type] \in Submission
      BY <1>b DEF Submission
    <3> QED BY <3>1, <3>2, <1>3 DEF Call, PostCall
  <2> QED BY <1>4, <2>1, <2>2, <2>3, <2>4 DEF Starts
<1>5. ASSUME NEW c \in calls, NodeAnswersInfo(c)
      PROVE  Rest
  <2>1. c \in InfoCall /\ Owner[c.session] \in Accounts
    BY <1>5, <1>t, <1>c, CallKinds DEF NodeAnswersInfo
  <2>2. AccountInfo(chain, Owner[c.session]) \in Info
    BY <1>5, <1>t, <2>1, AccountInfoType DEF NodeAnswersInfo
  <2>3. [c EXCEPT !.answer = {AccountInfo(chain, Owner[c.session])}] \in Call
    BY <2>1, <2>2, <1>o DEF InfoCall, Call
  <2> QED BY <1>5, <1>t, <2>3 DEF NodeAnswersInfo, Replace
<1>6. ASSUME NEW c \in calls, NodeAnswersPending(c)
      PROVE  Rest
  <2>1. c \in ListCall /\ Owner[c.session] \in Accounts
    BY <1>6, <1>t, <1>c, CallKinds DEF NodeAnswersPending
  <2>2. PICK list \in SUBSET PendingOf(chain, Owner[c.session]) :
           Replace(c, [c EXCEPT !.answer = {list}])
    BY <1>6 DEF NodeAnswersPending
  <2>3. list \in SUBSET PendingItem
    BY <2>1, PendingType
  <2>4. {list} \in Optional(SUBSET PendingItem)
    BY <1>o, <2>3
  <2>5. [c EXCEPT !.answer = {list}] \in Call
    BY <2>1, <2>4 DEF ListCall, Call
  <2> QED BY <1>t, <2>2, <2>5 DEF Replace
<1>7. ASSUME NEW c \in calls, NodeProcesses(c)
      PROVE  Rest
  <2>1. c \in PostCall
    BY <1>7, <1>t, CallKinds DEF NodeProcesses
  <2>2. [c EXCEPT !.answered = TRUE] \in Call
    BY <2>1 DEF PostCall, Call
  <2> QED BY <1>7, <1>t, <2>2 DEF NodeProcesses, Replace
<1>8. ASSUME NEW c \in calls, AccountInfoReturns(c)
      PROVE  Rest
  <2>1. c \in InfoCall
    BY <1>8, <1>t, CallKinds DEF AccountInfoReturns
  <2> QED BY <1>8, <1>t, <2>1 DEF AccountInfoReturns, InfoCall
<1>9. ASSUME NEW c \in calls, WorkReturns(c)
      PROVE  Rest
  <2>1. c \in WorkCall
    BY <1>9, <1>t, CallKinds DEF WorkReturns
  <2> DEFINE new == {[b EXCEPT !.work = {c.work}] : b \in held[c.session]}
  <2>2. \A b \in held[c.session] : [b EXCEPT !.work = {c.work}] \in Block
    BY <2>1, <1>b DEF WorkCall, Block
  <2>3. \A b, d \in held[c.session] : b = d
    BY <2>1, <1>t DEF WorkCall, Optional
  <2>4. new \in Optional(Block)
    BY <2>2, <2>3 DEF Optional
  <2> QED BY <1>9, <1>t, <2>4 DEF WorkReturns
<1>10. ASSUME NEW c \in calls, PendingReturns(c)
       PROVE  Rest
  <2>1. c \in ListCall
    BY <1>10, <1>t, CallKinds DEF PendingReturns
  <2>2. UNION c.answer \in SUBSET PendingItem
    BY <2>1 DEF ListCall, Optional
  <2> QED BY <1>10, <1>t, <2>2 DEF PendingReturns
<1>11. ASSUME NEW c \in calls, PublishReturns(c)
       PROVE  Rest
  BY <1>11, <1>t DEF PublishReturns
<1>12. ASSUME NEW c \in calls, Fails(c)
       PROVE  Rest
  <2>1. CASE c.rpc = "process" /\ ~ c.answered
    <3>1. c.what \in Submission
      BY <2>1, <1>t, CallKinds DEF PostCall
    <3> QED BY <1>12, <1>t, <2>1, <3>1 DEF Fails
  <2>2. CASE ~ (c.rpc = "process" /\ ~ c.answered)
    BY <1>12, <1>t, <2>2 DEF Fails
  <2> QED BY <2>1, <2>2
<1>13. ASSUME NEW x \in late, NodeProcessesLate(x)
       PROVE  Rest
  BY <1>13, <1>t DEF NodeProcessesLate
<1>14. ASSUME NEW a \in Accounts, NEW rep \in Reps, ChangeElsewhere(a, rep)
       PROVE  Rest
  BY <1>14, <1>t DEF ChangeElsewhere
<1>15. ASSUME UNCHANGED vars PROVE Rest
  BY <1>15, <1>t DEF vars
<1>16. chain' \in [Accounts -> Seq(Entry)] /\ OpenFirst'
  BY LedgerType
<1>17. Rest
  <2> HIDE DEF Rest
  <2>1. ASSUME NEW s \in Sessions, Builds(s) PROVE Rest
    BY <2>1, <1>1, <1>2 DEF Builds
  <2>2. ASSUME NEW c \in calls, Serves(c) PROVE Rest
    BY <2>2, <1>5, <1>6, <1>7 DEF Serves
  <2>3. ASSUME NEW c \in calls, Returns(c) PROVE Rest
    BY <2>3, <1>8, <1>9, <1>10, <1>11, <1>12 DEF Returns
  <2> QED BY <2>1, <1>4, <2>2, <2>3, <1>13, <1>14, <1>15 DEF Next
<1> QED BY <1>16, <1>17 DEF TypeInv, TypeOK, Call

(* The records and functions of the model stay what they are declared to   *)
(* be, in particular a balance in the ledger is never negative.            *)
THEOREM TypeCorrect == Spec => []TypeOK
<1>1. TypeInv /\ [Next]_vars => TypeInv'
  BY NextType
<1>2. TypeInv => TypeOK
  BY DEF TypeInv
<1> QED BY InitType, <1>1, <1>2, PTL DEF Spec

(***************************************************************************)
(* What was true of the past stays true: chains and orders only grow.      *)
(***************************************************************************)
(* A block once in the ledger stays where it is.                           *)
LEMMA ChainsGrow ==
    ASSUME TypeInv, [Next]_vars, NEW a \in Accounts, NEW h \in DOMAIN chain[a]
    PROVE  h \in DOMAIN chain'[a] /\ chain'[a][h] = chain[a][h]
<1>1. \A d \in Accounts : chain[d] \in Seq(Entry)
  BY DEF TypeInv, TypeOK
<1>2. ASSUME NEW d \in Accounts, NEW e, Adds(d, e)
      PROVE  h \in DOMAIN chain'[a] /\ chain'[a][h] = chain[a][h]
  <2>1. CASE a = d
    <3>1. chain'[a] = Append(chain[a], e)
      BY <1>2, <2>1 DEF Adds, TypeInv, TypeOK
    <3> QED BY <1>1, <3>1
  <2>2. CASE a # d
    BY <1>2, <2>2 DEF Adds, TypeInv, TypeOK
  <2> QED BY <2>1, <2>2
<1> QED BY <1>2, LedgerSteps DEF Block

(* What a sendBlock call was asked is not forgotten.                       *)
LEMMA OrdersGrow ==
    ASSUME TypeInv, [Next]_vars, NEW n \in DOMAIN orders
    PROVE  n \in DOMAIN orders' /\ orders'[n] = orders[n]
<1>1. orders \in Seq(Order)
  BY DEF TypeInv, TypeOK
<1>2. CASE \E s \in Sessions, to \in Payees, amount \in Amounts : SendBlock(s, to, amount)
  <2>1. PICK o : orders' = Append(orders, o)
    BY <1>2 DEF SendBlock
  <2> QED BY <1>1, <2>1
<1>3. CASE orders' = orders
  BY <1>3
<1>4. \/ \E s \in Sessions, to \in Payees, amount \in Amounts : SendBlock(s, to, amount)
      \/ orders' = orders
  BY DEF Next, vars, Builds, ReceiveBlock, Starts, GetAccountInfo, GetPendingBlocks,
         GenerateWork, Publish, Start, Serves, NodeAnswersInfo, NodeAnswersPending,
         NodeProcesses, Replace, Returns, AccountInfoReturns, WorkReturns,
         PendingReturns, PublishReturns, Fails, NodeProcessesLate, ChangeElsewhere
<1> QED BY <1>2, <1>3, <1>4

(* A past state of an account remains one.                                 *)
LEMMA SnapshotStable ==
    ASSUME TypeInv, [Next]_vars, NEW a \in Accounts, NEW i, Snapshot(a, i)
    PROVE  Snapshot(a, i)'
BY ChainsGrow DEF Snapshot

(* A send is never the first block of its chain.                           *)
LEMMA SendPosition ==
    ASSUME TypeInv, NEW x \in Positions(chain), At(chain, x).kind = "send"
    PROVE  /\ x[1] \in Accounts /\ x = <<x[1], x[2]>>
           /\ x[2] \in DOMAIN chain[x[1]] /\ x[2] - 1 \in DOMAIN chain[x[1]]
<1>1. PICK src \in Accounts : x \in {src} \X DOMAIN chain[src]
  BY DEF Positions
<1>2. x = <<src, x[2]>> /\ x[1] = src /\ x[2] \in DOMAIN chain[src]
  BY <1>1
<1>3. chain[src] \in Seq(Entry) /\ chain[src][x[2]].kind = "send"
  BY <1>2 DEF At, TypeInv, TypeOK
<1>4. x[2] \in Nat \ {0} /\ x[2] <= Len(chain[src])
  BY <1>2, <1>3
<1>5. x[2] # 1
  BY <1>3, <1>4 DEF TypeInv, OpenFirst
<1> QED BY <1>2, <1>3, <1>4, <1>5

(* The positions of an account are those of its chain.                     *)
LEMMA PositionsIff ==
    ASSUME NEW ch, NEW a \in Accounts, NEW h
    PROVE  <<a, h>> \in Positions(ch) <=> h \in DOMAIN ch[a]
<1>1. ASSUME h \in DOMAIN ch[a] PROVE <<a, h>> \in Positions(ch)
  BY <1>1 DEF Positions
<1>2. ASSUME <<a, h>> \in Positions(ch) PROVE h \in DOMAIN ch[a]
  BY <1>2 DEF Positions
<1> QED BY <1>1, <1>2

(* A send stays a send to the same account of the same amount.             *)
LEMMA SentToStable ==
    ASSUME TypeInv, [Next]_vars, NEW a, NEW x, NEW amount, SentTo(a, x, amount)
    PROVE  SentTo(a, x, amount)'
<1>1. /\ x[1] \in Accounts /\ x = <<x[1], x[2]>>
      /\ x[2] \in DOMAIN chain[x[1]] /\ x[2] - 1 \in DOMAIN chain[x[1]]
  BY SendPosition DEF SentTo
<1>2. /\ x[2] \in DOMAIN chain'[x[1]] /\ chain'[x[1]][x[2]] = chain[x[1]][x[2]]
      /\ chain'[x[1]][x[2] - 1] = chain[x[1]][x[2] - 1]
  BY <1>1, ChainsGrow
<1>3. x \in Positions(chain')
  BY <1>1, <1>2, PositionsIff
<1> QED BY <1>2, <1>3 DEF SentTo, At, Sent

(* A block that does as asked still does when the ledger has grown.        *)
LEMMA AsAskedStable ==
    ASSUME TypeInv, [Next]_vars, NEW b, b.account \in Accounts, AsAsked(b)
    PROVE  AsAsked(b)'
<1>1. /\ b.previous \in DOMAIN chain'[b.account]
      /\ chain'[b.account][b.previous] = chain[b.account][b.previous]
  BY ChainsGrow DEF AsAsked
<1>2. b.order \in DOMAIN orders =>
        b.order \in DOMAIN orders' /\ orders'[b.order] = orders[b.order]
  BY OrdersGrow
<1>3. \A amount : SentTo(b.account, b.link, amount) => SentTo(b.account, b.link, amount)'
  BY SentToStable
<1> QED BY <1>1, <1>2, <1>3 DEF AsAsked

(***************************************************************************)
(* Snapshots.  Everything a step puts into info, found or an answer was    *)
(* read from the ledger before the step or was consistent before it.       *)
(***************************************************************************)
InfoFine(a, S) == \A i \in S : Snapshot(a, i)
ListFine(a, S) == \A p \in S : SentTo(a, p.hash, p.amount)

(* What the node reads from the ledger is consistent.                      *)
LEMMA AnswersFine ==
    ASSUME TypeInv, NEW a \in Accounts
    PROVE  /\ chain[a] # << >> => Snapshot(a, AccountInfo(chain, a))
           /\ \A list \in SUBSET PendingOf(chain, a) : ListFine(a, list)
<1>1. ASSUME chain[a] # << >> PROVE Snapshot(a, AccountInfo(chain, a))
  BY <1>1, AccountInfoType DEF Snapshot, AccountInfo, TypeInv, TypeOK
<1>2. \A p \in PendingOf(chain, a) : SentTo(a, p.hash, p.amount)
  BY DEF PendingOf, Receivable, SentTo
<1> QED BY <1>1, <1>2 DEF ListFine

(* Where the snapshots and lists of the next state come from.              *)
LEMMA CallSteps ==
    ASSUME TypeInv, SnapshotsConsistent, [Next]_vars, NEW c \in calls'
    PROVE  /\ c.rpc = "account_info" => InfoFine(Owner[c.session], c.answer)
           /\ c.rpc = "pending" => \A list \in c.answer : ListFine(Owner[c.session], list)
<1> DEFINE Fine == /\ c.rpc = "account_info" => InfoFine(Owner[c.session], c.answer)
                   /\ c.rpc = "pending" =>
                        \A list \in c.answer : ListFine(Owner[c.session], list)
<1>1. c \in calls => Fine
  BY DEF SnapshotsConsistent, InfoFine, ListFine
<1>2. calls \subseteq Call /\ Owner \in [Sessions -> Accounts]
  BY ConstantsOK DEF TypeInv, TypeOK, Call
<1>3. ASSUME NEW s \in Sessions, NEW l \in Lanes, Starts(s, l) PROVE Fine
  <2>1. CASE GetAccountInfo(s, l)
    BY <2>1, <1>1 DEF GetAccountInfo, Start, InfoFine
  <2>2. CASE GetPendingBlocks(s, l)
    BY <2>2, <1>1 DEF GetPendingBlocks, Start
  <2>3. CASE \E type \in WorkTypes : GenerateWork(s, l, type)
    BY <2>3, <1>1 DEF GenerateWork, Start
  <2>4. CASE \E type \in TransactionTypes : Publish(s, l, type)
    BY <2>4, <1>1 DEF Publish, Start
  <2> QED BY <1>3, <2>1, <2>2, <2>3, <2>4 DEF Starts
<1>4. ASSUME NEW d \in calls, NodeAnswersInfo(d) PROVE Fine
  <2>1. d \in InfoCall /\ Owner[d.session] \in Accounts
    BY <1>4, <1>2, CallKinds DEF NodeAnswersInfo
  <2>2. Snapshot(Owner[d.session], AccountInfo(chain, Owner[d.session]))
    BY <1>4, <2>1, AnswersFine DEF NodeAnswersInfo
  <2>3. CASE c = [d EXCEPT !.answer = {AccountInfo(chain, Owner[d.session])}]
    <3>1. /\ c.rpc = "account_info" /\ c.session = d.session
          /\ c.answer = {AccountInfo(chain, Owner[d.session])}
      BY <2>1, <2>3 DEF InfoCall
    <3> QED BY <2>2, <3>1 DEF InfoFine
  <2> QED BY <1>1, <1>4, <2>3 DEF NodeAnswersInfo, Replace
<1>5. ASSUME NEW d \in calls, NodeAnswersPending(d) PROVE Fine
  <2>1. d \in ListCall /\ Owner[d.session] \in Accounts
    BY <1>5, <1>2, CallKinds DEF NodeAnswersPending
  <2>2. PICK list \in SUBSET PendingOf(chain, Owner[d.session]) :
           Replace(d, [d EXCEPT !.answer = {list}])
    BY <1>5 DEF NodeAnswersPending
  <2>3. ListFine(Owner[d.session], list)
    BY <2>1, AnswersFine
  <2>4. CASE c = [d EXCEPT !.answer = {list}]
    <3>1. c.rpc = "pending" /\ c.session = d.session /\ c.answer = {list}
      BY <2>1, <2>4 DEF ListCall
    <3> QED BY <2>3, <3>1
  <2> QED BY <1>1, <2>2, <2>4 DEF Replace
<1>6. ASSUME NEW d \in calls, NodeProcesses(d) PROVE Fine
  <2>1. d \in PostCall
    BY <1>6, <1>2, CallKinds DEF NodeProcesses
  <2>2. [d EXCEPT !.answered = TRUE].rpc = "process"
    BY <2>1 DEF PostCall
  <2> QED BY <1>1, <1>6, <2>2 DEF NodeProcesses, Replace
<1>7. ASSUME calls' \subseteq calls PROVE Fine
  BY <1>1, <1>7
<1>8. ASSUME NEW d \in calls, Returns(d) PROVE calls' \subseteq calls
  BY <1>8 DEF Returns, AccountInfoReturns, WorkReturns, PendingReturns, PublishReturns, Fails
<1>9. ASSUME NEW s \in Sessions, Builds(s) PROVE calls' \subseteq calls
  BY <1>9 DEF Builds, SendBlock, ReceiveBlock
<1>10. ASSUME \/ \E x \in late : NodeProcessesLate(x)
              \/ \E a \in Accounts, rep \in Reps : ChangeElsewhere(a, rep)
              \/ UNCHANGED vars
       PROVE  calls' \subseteq calls
  BY <1>10 DEF NodeProcessesLate, ChangeElsewhere, vars
<1>11. Fine
  <2> HIDE DEF Fine
  <2> QED BY <1>3, <1>4, <1>5, <1>6, <1>7, <1>8, <1>9, <1>10 DEF Next, Serves
<1> QED BY <1>11

(* Account info and lists a session holds came from its calls.             *)
LEMMA SessionSteps ==
    ASSUME TypeInv, SnapshotsConsistent, [Next]_vars, NEW s \in Sessions
    PROVE  InfoFine(Owner[s], info'[s]) /\ ListFine(Owner[s], found'[s])
<1> DEFINE Fine == InfoFine(Owner[s], info'[s]) /\ ListFine(Owner[s], found'[s])
<1>1. InfoFine(Owner[s], info[s]) /\ ListFine(Owner[s], found[s])
  BY DEF SnapshotsConsistent, InfoFine, ListFine
<1>2. /\ info \in [Sessions -> Optional(Info)]
      /\ found \in [Sessions -> SUBSET PendingItem]
      /\ calls \subseteq Call
  BY DEF TypeInv, TypeOK, Call
<1>3. ASSUME NEW c \in calls, AccountInfoReturns(c) PROVE Fine
  <2>1. InfoFine(Owner[c.session], c.answer)
    BY <1>3 DEF AccountInfoReturns, SnapshotsConsistent, InfoFine
  <2>2. info'[s] = info[s] \/ (s = c.session /\ info'[s] = c.answer)
    BY <1>2, <1>3 DEF AccountInfoReturns
  <2> QED BY <1>1, <1>3, <2>1, <2>2 DEF AccountInfoReturns
<1>4. ASSUME NEW c \in calls, PendingReturns(c) PROVE Fine
  <2>1. \A list \in c.answer : ListFine(Owner[c.session], list)
    BY <1>4 DEF PendingReturns, SnapshotsConsistent, ListFine
  <2>2. ListFine(Owner[c.session], UNION c.answer)
    BY <2>1 DEF ListFine
  <2>3. found'[s] = found[s] \/ (s = c.session /\ found'[s] = UNION c.answer)
    BY <1>2, <1>4 DEF PendingReturns
  <2> QED BY <1>1, <1>4, <2>2, <2>3 DEF PendingReturns
<1>5. ASSUME UNCHANGED <<info, found>> PROVE Fine
  BY <1>1, <1>5
<1>6. ASSUME NEW t \in Sessions, NEW l \in Lanes, Starts(t, l)
      PROVE  UNCHANGED <<info, found>>
  BY <1>6 DEF Starts, GetAccountInfo, GetPendingBlocks, GenerateWork, Publish, Start
<1>7. ASSUME NEW c \in calls, Serves(c) PROVE UNCHANGED <<info, found>>
  BY <1>7 DEF Serves, NodeAnswersInfo, NodeAnswersPending, NodeProcesses, Replace
<1>8. ASSUME NEW c \in calls, WorkReturns(c) \/ PublishReturns(c) \/ Fails(c)
      PROVE  UNCHANGED <<info, found>>
  BY <1>8 DEF WorkReturns, PublishReturns, Fails
<1>9. ASSUME \/ \E x \in late : NodeProcessesLate(x)
             \/ \E a \in Accounts, rep \in Reps : ChangeElsewhere(a, rep)
             \/ UNCHANGED vars
      PROVE  UNCHANGED <<info, found>>
  BY <1>9 DEF NodeProcessesLate, ChangeElsewhere, vars
<1>10. ASSUME NEW t \in Sessions, Builds(t) PROVE UNCHANGED <<info, found>>
  BY <1>10 DEF Builds, SendBlock, ReceiveBlock
<1>11. Fine
  <2> HIDE DEF Fine
  <2> QED BY <1>3, <1>4, <1>5, <1>6, <1>7, <1>8, <1>9, <1>10 DEF Next, Returns
<1> QED BY <1>11

(* Every step preserves SnapshotsConsistent.                               *)
LEMMA SnapshotsStep ==
    ASSUME TypeInv, SnapshotsConsistent, [Next]_vars
    PROVE  SnapshotsConsistent'
<1> USE ConstantsOK
<1>c. \A c \in calls' : c.session \in Sessions
  BY NextType, CallKinds DEF TypeInv, TypeOK, Call
<1>1. \A a \in Accounts : \A S : InfoFine(a, S) => \A i \in S : Snapshot(a, i)'
  BY SnapshotStable DEF InfoFine
<1>2. \A a, S : ListFine(a, S) => \A p \in S : SentTo(a, p.hash, p.amount)'
  BY SentToStable DEF ListFine
<1>3. \A s \in Sessions : \A i \in info'[s] : Snapshot(Owner[s], i)'
  BY <1>1, SessionSteps
<1>4. \A s \in Sessions : \A p \in found'[s] : SentTo(Owner[s], p.hash, p.amount)'
  BY <1>2, SessionSteps
<1>5. \A c \in calls' : c.rpc = "account_info" =>
         \A i \in c.answer : Snapshot(Owner[c.session], i)'
  BY <1>1, <1>c, CallSteps
<1>6. \A c \in calls' : c.rpc = "pending" =>
         \A list \in c.answer : \A p \in list : SentTo(Owner[c.session], p.hash, p.amount)'
  BY <1>2, CallSteps
<1> QED BY <1>3, <1>4, <1>5, <1>6 DEF SnapshotsConsistent

(***************************************************************************)
(* Blocks.  A block of the next state is a block of this one, up to its    *)
(* work, or was built in this step.                                        *)
(***************************************************************************)
SameBlock(b, d) ==
    /\ b.account = d.account /\ b.previous = d.previous
    /\ b.representative = d.representative /\ b.balance = d.balance
    /\ b.link = d.link /\ b.order = d.order

BuiltToSend(b) ==
    \E s \in Sessions, to \in Payees, amount \in Amounts : \E i \in info[s] :
        /\ b = BlockFrom(Owner[s], i, i.balance - amount, to, Len(orders) + 1)
        /\ orders' = Append(orders, [account |-> Owner[s], dest |-> to, amount |-> amount])

BuiltToReceive(b) ==
    \E s \in Sessions : \E p \in found[s], i \in info[s] :
        b = BlockFrom(Owner[s], i, i.balance + p.amount, p.hash, 0)

FromBefore(b) == \E d \in BlocksOut : SameBlock(b, d)

(* Every block of the next state is an old one, possibly with new work, or *)
(* the one this step built.                                                *)
LEMMA BlockSteps ==
    ASSUME TypeInv, [Next]_vars
    PROVE  \/ \A b \in BlocksOut' : FromBefore(b)
           \/ \E new :
                /\ BuiltToSend(new) \/ BuiltToReceive(new)
                /\ \A b \in BlocksOut' : FromBefore(b) \/ b = new
<1> DEFINE OldOnly == \A b \in BlocksOut' : FromBefore(b)
           OneNew == \E new : /\ BuiltToSend(new) \/ BuiltToReceive(new)
                              /\ \A b \in BlocksOut' : FromBefore(b) \/ b = new
<1>t. held \in [Sessions -> Optional(Block)] /\ calls \subseteq Call
  BY DEF TypeInv, TypeOK, Call
<1>o. \A b \in BlocksOut : FromBefore(b)
  BY DEF FromBefore, SameBlock
<1>n. \A b : b \in BlocksOut' <=>
         \/ \E s \in Sessions : b \in held'[s]
         \/ \E c \in calls' : c.rpc = "process" /\ b = c.what.block
         \/ \E x \in late' : b = x.block
  BY OutPlacesNext DEF OutPlaces
<1>1. ASSUME \A s \in Sessions : \A b \in held'[s] : FromBefore(b),
             \A c \in calls' : c.rpc = "process" => FromBefore(c.what.block),
             \A x \in late' : FromBefore(x.block)
      PROVE  OldOnly
  BY <1>1, <1>n
<1>h. \A s \in Sessions : \A b \in held[s] : FromBefore(b)
  BY <1>o, OutIff
<1>c. \A c \in calls : c.rpc = "process" => FromBefore(c.what.block)
  BY <1>o, OutIff
<1>l. \A x \in late : FromBefore(x.block)
  BY <1>o, OutIff
<1>2. ASSUME NEW s \in Sessions, NEW new, held' = [held EXCEPT ![s] = {new}],
             BuiltToSend(new) \/ BuiltToReceive(new), UNCHANGED <<calls, late>>
      PROVE  OneNew
  <2>1. \A r \in Sessions : \A b \in held'[r] : FromBefore(b) \/ b = new
    BY <1>2, <1>h, <1>t
  <2>2. \A b \in BlocksOut' : FromBefore(b) \/ b = new
    BY <1>2, <1>n, <1>c, <1>l, <2>1
  <2> QED BY <1>2, <2>2
<1>3. ASSUME NEW s \in Sessions, Builds(s) PROVE OneNew
  <2>1. ASSUME NEW to \in Payees, NEW amount \in Amounts, SendBlock(s, to, amount)
        PROVE  OneNew
    <3>1. PICK i \in info[s] :
             /\ orders' = Append(orders, [account |-> Owner[s], dest |-> to,
                                          amount |-> amount])
             /\ held' = [held EXCEPT ![s] =
                  {BlockFrom(Owner[s], i, i.balance - amount, to, Len(orders) + 1)}]
             /\ UNCHANGED <<calls, late>>
      BY <2>1 DEF SendBlock
    <3>2. BuiltToSend(BlockFrom(Owner[s], i, i.balance - amount, to, Len(orders) + 1))
      BY <3>1 DEF BuiltToSend
    <3> QED BY <1>2, <3>1, <3>2
  <2>2. ASSUME NEW p \in found[s], ReceiveBlock(s, p.hash, p.amount) PROVE OneNew
    <3>1. PICK i \in info[s] :
             /\ held' = [held EXCEPT ![s] =
                  {BlockFrom(Owner[s], i, i.balance + p.amount, p.hash, 0)}]
             /\ UNCHANGED <<calls, late>>
      BY <2>2 DEF ReceiveBlock
    <3>2. BuiltToReceive(BlockFrom(Owner[s], i, i.balance + p.amount, p.hash, 0))
      BY DEF BuiltToReceive
    <3> QED BY <1>2, <3>1, <3>2
  <2> QED BY <1>3, <2>1, <2>2 DEF Builds
<1>4. ASSUME NEW s \in Sessions, NEW l \in Lanes, Starts(s, l) PROVE OldOnly
  <2>1. UNCHANGED <<held, late>>
    BY <1>4 DEF Starts, GetAccountInfo, GetPendingBlocks, GenerateWork, Publish, Start
  <2>2. \A c \in calls' : c.rpc = "process" => FromBefore(c.what.block)
    <3>1. CASE GetAccountInfo(s, l)
      BY <3>1, <1>c DEF GetAccountInfo, Start
    <3>2. CASE GetPendingBlocks(s, l)
      BY <3>2, <1>c DEF GetPendingBlocks, Start
    <3>3. CASE \E type \in WorkTypes : GenerateWork(s, l, type)
      BY <3>3, <1>c DEF GenerateWork, Start
    <3>4. CASE \E type \in TransactionTypes : Publish(s, l, type)
      BY <3>4, <1>c, <1>h DEF Publish, Start
    <3> QED BY <1>4, <3>1, <3>2, <3>3, <3>4 DEF Starts
  <2> QED BY <1>1, <1>h, <1>l, <2>1, <2>2
<1>5. ASSUME NEW c \in calls, NEW d, Replace(c, d),
             d.rpc = "process" => FromBefore(d.what.block)
      PROVE  OldOnly
  BY <1>1, <1>5, <1>h, <1>c, <1>l DEF Replace
<1>6. ASSUME NEW c \in calls, Serves(c) PROVE OldOnly
  <2>1. CASE NodeAnswersInfo(c)
    <3>1. c \in InfoCall
      BY <2>1, <1>t, CallKinds DEF NodeAnswersInfo
    <3>2. \A v : [c EXCEPT !.answer = v].rpc # "process"
      BY <3>1 DEF InfoCall
    <3> QED BY <2>1, <1>5, <3>2 DEF NodeAnswersInfo
  <2>2. CASE NodeAnswersPending(c)
    <3>1. c \in ListCall
      BY <2>2, <1>t, CallKinds DEF NodeAnswersPending
    <3>2. \A v : [c EXCEPT !.answer = v].rpc # "process"
      BY <3>1 DEF ListCall
    <3> QED BY <2>2, <1>5, <3>2 DEF NodeAnswersPending
  <2>3. CASE NodeProcesses(c)
    <3>1. c \in PostCall
      BY <2>3, <1>t, CallKinds DEF NodeProcesses
    <3>2. [c EXCEPT !.answered = TRUE].what = c.what /\ c.rpc = "process"
      BY <3>1 DEF PostCall
    <3> QED BY <2>3, <1>5, <1>c, <3>2 DEF NodeProcesses
  <2> QED BY <1>6, <2>1, <2>2, <2>3 DEF Serves
<1>7. ASSUME NEW c \in calls, Returns(c) PROVE OldOnly
  <2>1. calls' \subseteq calls
    BY <1>7 DEF Returns, AccountInfoReturns, WorkReturns, PendingReturns,
                PublishReturns, Fails
  <2>2. CASE WorkReturns(c)
    <3>1. c \in WorkCall
      BY <2>2, <1>t, CallKinds DEF WorkReturns
    <3>2. ASSUME NEW s \in Sessions, NEW b \in held'[s] PROVE FromBefore(b)
      <4>1. CASE b \in held[s]
        BY <4>1, <1>h
      <4>2. CASE b \notin held[s]
        <5>1. PICK d \in held[s] : b = [d EXCEPT !.work = {c.work}]
          BY <2>2, <3>2, <4>2, <1>t DEF WorkReturns
        <5>2. d \in Block /\ d \in BlocksOut
          BY <1>t, OutIff DEF Optional
        <5>3. SameBlock(b, d)
          BY <5>1, <5>2 DEF SameBlock, Block
        <5> QED BY <5>2, <5>3 DEF FromBefore
      <4> QED BY <4>1, <4>2
    <3> QED BY <1>1, <1>c, <1>l, <2>1, <2>2, <3>2 DEF WorkReturns
  <2>3. CASE AccountInfoReturns(c) \/ PendingReturns(c) \/ PublishReturns(c)
    BY <2>3, <1>1, <1>h, <1>c, <1>l, <2>1
       DEF AccountInfoReturns, PendingReturns, PublishReturns
  <2>4. CASE Fails(c)
    <3>1. \A x \in late' : FromBefore(x.block)
      BY <2>4, <1>c, <1>l DEF Fails
    <3> QED BY <1>1, <1>h, <1>c, <2>1, <2>4, <3>1 DEF Fails
  <2> QED BY <1>7, <2>2, <2>3, <2>4 DEF Returns
<1>8. ASSUME NEW x \in late, NodeProcessesLate(x) PROVE OldOnly
  BY <1>8, <1>1, <1>h, <1>c, <1>l DEF NodeProcessesLate
<1>9. ASSUME NEW a \in Accounts, NEW rep \in Reps, ChangeElsewhere(a, rep) PROVE OldOnly
  BY <1>9, <1>1, <1>h, <1>c, <1>l DEF ChangeElsewhere
<1>10. ASSUME UNCHANGED vars PROVE OldOnly
  BY <1>10, <1>1, <1>h, <1>c, <1>l DEF vars
<1>11. OldOnly \/ OneNew
  <2> HIDE DEF OldOnly, OneNew
  <2> QED BY <1>3, <1>4, <1>6, <1>7, <1>8, <1>9, <1>10 DEF Next
<1> QED BY <1>11

(***************************************************************************)
(* The inductive invariant.                                                *)
(***************************************************************************)
(* An order number in the ledger is the number of a sendBlock call.        *)
OrdersKnown ==
    \A x \in Positions(chain) :
        At(chain, x).order # 0 => At(chain, x).order \in DOMAIN orders

IInv == /\ TypeInv
        /\ SnapshotsConsistent
        /\ BlocksAsAsked
        /\ LedgerAsAsked
        /\ OrdersKnown
        /\ PaidOnce
        /\ OnePosition

(* The blocks that are held or out are well formed.                        *)
LEMMA OutBlocks ==
    ASSUME TypeInv, NEW b \in BlocksOut
    PROVE  b \in Block
<1>1. ASSUME NEW s \in Sessions, b \in held[s] PROVE b \in Block
  BY <1>1 DEF TypeInv, TypeOK, Optional
<1>2. ASSUME NEW c \in calls, c.rpc = "process" PROVE c.what.block \in Block
  <2>1. c \in PostCall
    BY <1>2, CallKinds DEF TypeInv, TypeOK, Call
  <2> QED BY <2>1 DEF PostCall, Submission
<1>3. \A x \in late : x.block \in Block
  BY DEF TypeInv, TypeOK, Submission
<1> QED BY <1>1, <1>2, <1>3, OutIff

(* Building from a consistent snapshot gives a block that does as asked.   *)
LEMMA BuildsAsAsked ==
    ASSUME IInv, [Next]_vars, NEW b
    PROVE  /\ BuiltToSend(b) => AsAsked(b)' /\ b.order = Len(orders) + 1
           /\ BuiltToReceive(b) => AsAsked(b)' /\ b.order = 0
<1> USE ConstantsOK
<1>t. /\ info \in [Sessions -> Optional(Info)] /\ orders \in Seq(Order)
      /\ found \in [Sessions -> SUBSET PendingItem]
  BY DEF IInv, TypeInv, TypeOK
<1>s. \A s \in Sessions : \A i \in info[s] :
        /\ i \in Info
        /\ i.frontier \in DOMAIN chain'[Owner[s]]
        /\ i.balance = chain'[Owner[s]][i.frontier].balance
        /\ i.representative = chain'[Owner[s]][i.frontier].representative
  BY <1>t, SnapshotStable DEF IInv, SnapshotsConsistent, Snapshot, Optional
<1>1. ASSUME BuiltToSend(b) PROVE AsAsked(b)' /\ b.order = Len(orders) + 1
  <2>0. PICK s \in Sessions, to \in Payees, amount \in Amounts : \E i \in info[s] :
           /\ b = BlockFrom(Owner[s], i, i.balance - amount, to, Len(orders) + 1)
           /\ orders' = Append(orders, [account |-> Owner[s], dest |-> to, amount |-> amount])
    BY <1>1 DEF BuiltToSend
  <2>1. PICK i \in info[s] :
           /\ b = BlockFrom(Owner[s], i, i.balance - amount, to, Len(orders) + 1)
           /\ orders' = Append(orders, [account |-> Owner[s], dest |-> to, amount |-> amount])
    BY <2>0
  <2>2. /\ b.order \in DOMAIN orders'
        /\ orders'[b.order] = [account |-> Owner[s], dest |-> to, amount |-> amount]
    BY <2>1, <1>t DEF BlockFrom, Order
  <2>3. i.balance - (i.balance - amount) = amount
    <3>1. i.balance \in Nat BY <1>s DEF Info
    <3>2. amount \in Int BY ConstantsOK
    <3> QED BY <3>1, <3>2
  <2> QED BY <1>s, <2>1, <2>2, <2>3 DEF AsAsked, BlockFrom
<1>2. ASSUME BuiltToReceive(b) PROVE AsAsked(b)' /\ b.order = 0
  <2>0. PICK s \in Sessions : \E p \in found[s], i \in info[s] :
           b = BlockFrom(Owner[s], i, i.balance + p.amount, p.hash, 0)
    BY <1>2 DEF BuiltToReceive
  <2>1. PICK p \in found[s], i \in info[s] :
           b = BlockFrom(Owner[s], i, i.balance + p.amount, p.hash, 0)
    BY <2>0
  <2>2. SentTo(Owner[s], p.hash, p.amount)'
    BY <2>1, SentToStable DEF IInv, SnapshotsConsistent
  <2>3. (i.balance + p.amount) - i.balance = p.amount
    BY <1>s, <1>t, <2>1 DEF Info, PendingItem
  <2> QED BY <1>s, <2>1, <2>2, <2>3 DEF AsAsked, BlockFrom
<1> QED BY <1>1, <1>2

(* Doing as asked does not depend on the work of a block.                  *)
LEMMA SameAsAsked ==
    ASSUME NEW b, NEW d, SameBlock(b, d), AsAsked(d)'
    PROVE  AsAsked(b)'
BY DEF SameBlock, AsAsked

(* Every step preserves BlocksAsAsked.                                     *)
LEMMA BlocksStep ==
    ASSUME IInv, [Next]_vars
    PROVE  BlocksAsAsked'
<1>1. ASSUME NEW b, FromBefore(b) PROVE AsAsked(b)'
  <2>1. PICK d \in BlocksOut : SameBlock(b, d)
    BY <1>1 DEF FromBefore
  <2>2. d.account \in Accounts /\ AsAsked(d)
    BY OutBlocks DEF IInv, BlocksAsAsked, Block
  <2> QED BY <2>1, <2>2, AsAskedStable, SameAsAsked DEF IInv
<1>2. \A b : BuiltToSend(b) \/ BuiltToReceive(b) => AsAsked(b)'
  BY BuildsAsAsked
<1> QED BY <1>1, <1>2, BlockSteps DEF BlocksAsAsked, IInv

(***************************************************************************)
(* The ledger.                                                             *)
(***************************************************************************)
EntryAsAsked(a, h) ==
    LET e == chain[a][h]  prev == chain[a][h - 1] IN
    /\ e.kind # "change" => e.representative = prev.representative
    /\ e.kind = "send" =>
         /\ e.order \in DOMAIN orders
         /\ orders[e.order] = [account |-> a, dest |-> e.link,
                               amount |-> prev.balance - e.balance]
         /\ orders[e.order].amount > 0
    /\ e.kind = "receive" => SentTo(a, e.link, e.balance - prev.balance)

(* What the ledger already did as asked stays so.                          *)
LEMMA OldEntries ==
    ASSUME TypeInv, LedgerAsAsked, [Next]_vars,
           NEW a \in Accounts, NEW h \in DOMAIN chain[a] \ {1}
    PROVE  EntryAsAsked(a, h)'
<1>1. EntryAsAsked(a, h)
  BY DEF LedgerAsAsked, EntryAsAsked
<1>2. h - 1 \in DOMAIN chain[a]
  BY DEF TypeInv, TypeOK
<1>3. chain'[a][h] = chain[a][h] /\ chain'[a][h - 1] = chain[a][h - 1]
  BY <1>2, ChainsGrow
<1>4. \A n \in DOMAIN orders : n \in DOMAIN orders' /\ orders'[n] = orders[n]
  BY OrdersGrow
<1>5. \A x, amount : SentTo(a, x, amount) => SentTo(a, x, amount)'
  BY SentToStable
<1> QED BY <1>1, <1>3, <1>4, <1>5 DEF EntryAsAsked

(* A block that does as asked is recorded as an entry that does as asked.  *)
LEMMA NewEntry ==
    ASSUME IInv, [Next]_vars, NEW b \in BlocksOut, NEW type,
           Accepts(chain, b, type), Adds(b.account, Recorded(b, type))
    PROVE  EntryAsAsked(b.account, b.previous + 1)'
<1> DEFINE a == b.account  h == b.previous
<1>1. /\ b \in Block /\ a \in Accounts /\ chain \in [Accounts -> Seq(Entry)]
      /\ h = Len(chain[a]) /\ h \in DOMAIN chain[a]
  BY OutBlocks, AcceptedType DEF IInv, TypeInv, TypeOK
<1>2. chain'[a] = Append(chain[a], Recorded(b, type))
  BY <1>1 DEF Adds
<1>3. /\ chain'[a][h + 1] = Recorded(b, type) /\ chain'[a][h] = chain[a][h]
      /\ (h + 1) - 1 = h
  BY <1>1, <1>2
<1>e. chain[a][h] \in Entry /\ chain[a][h].balance \in Nat /\ b.balance \in Int
  <2>1. chain[a] \in Seq(Entry)
    BY <1>1
  <2>2. chain[a][h] \in Entry
    BY <1>1, <2>1
  <2> QED BY <1>1, <2>2 DEF Entry, Block
<1>4. AsAsked(b)' /\ AsAsked(b)
  BY <1>1, AsAskedStable DEF IInv, BlocksAsAsked
<1>5. b.order \in DOMAIN orders => b.order # 0
  BY DEF IInv, TypeInv, TypeOK
<1>6. b.representative = chain[a][h].representative
  BY <1>4 DEF AsAsked
<1>7. CASE type = "send"
  <2>1. b.balance < chain[a][h].balance /\ b.link \in Accounts
    BY <1>7, <1>e DEF Accepts, IsSend
  <2>2. b.link \notin Positions(chain)
    <3>1. \A x \in Positions(chain) : x \in Hashes
      BY <1>1 DEF Positions, Hashes
    <3> QED BY <2>1, <3>1, LinksAreDistinct
  <2>3. /\ b.order \in DOMAIN orders
        /\ orders[b.order] = [account |-> a, dest |-> b.link,
                              amount |-> chain[a][h].balance - b.balance]
    BY <1>4, <2>2 DEF AsAsked, SentTo
  <2>4. b.order \in DOMAIN orders' /\ orders'[b.order] = orders[b.order]
    BY <2>3, OrdersGrow DEF IInv
  <2>5. chain[a][h].balance - b.balance > 0
    BY <1>e, <2>1
  <2>6. Recorded(b, type).kind = "send"
    BY <1>7 DEF Recorded
  <2> HIDE DEF a, h
  <2>7. EntryAsAsked(a, h + 1)'
    BY <1>3, <1>6, <2>3, <2>4, <2>5, <2>6 DEF EntryAsAsked, Recorded
  <2> QED BY <2>7 DEF a, h
<1>8. CASE type = "receive"
  <2>1. b.link \in Positions(chain)
    BY <1>8 DEF Accepts, IsReceive, Receivable
  <2>2. ~ \E dest \in Accounts : dest = b.link
    <3>1. b.link \in Hashes
      BY <1>1, <2>1 DEF Positions, Hashes
    <3> QED BY <3>1, LinksAreDistinct
  <2>3. b.order = 0 /\ SentTo(a, b.link, b.balance - chain[a][h].balance)
    <3>1. ASSUME b.order \in DOMAIN orders,
                 orders[b.order] = [account |-> a, dest |-> b.link,
                                    amount |-> chain[a][h].balance - b.balance]
          PROVE  FALSE
      <4>1. orders[b.order] \in Order
        BY <3>1 DEF IInv, TypeInv, TypeOK
      <4>2. b.link \in Payees
        BY <3>1, <4>1 DEF Order
      <4> QED BY <4>2, <2>2, ConstantsOK
    <3> QED BY <1>4, <3>1 DEF AsAsked
  <2>4. PICK amount : amount = b.balance - chain[a][h].balance
    OBVIOUS
  <2>5. SentTo(a, b.link, amount)'
    BY <2>3, <2>4, SentToStable DEF IInv
  <2>6. Recorded(b, type).kind = "receive"
    BY <1>8 DEF Recorded
  <2> HIDE DEF a, h
  <2>7. EntryAsAsked(a, h + 1)'
    BY <1>3, <1>6, <2>4, <2>5, <2>6 DEF EntryAsAsked, Recorded
  <2> QED BY <2>7 DEF a, h
<1> QED BY <1>7, <1>8 DEF Accepts

(* Every step preserves LedgerAsAsked.                                     *)
LEMMA LedgerStep ==
    ASSUME IInv, [Next]_vars
    PROVE  LedgerAsAsked'
<1> USE DEF IInv
<1>1. SUFFICES ASSUME NEW a \in Accounts, NEW h \in DOMAIN chain'[a] \ {1}
               PROVE  EntryAsAsked(a, h)'
  BY DEF LedgerAsAsked, EntryAsAsked
<1>t. \A d \in Accounts : chain[d] \in Seq(Entry)
  BY DEF TypeInv, TypeOK
<1>2. CASE h \in DOMAIN chain[a]
  BY <1>2, OldEntries
<1>n. ASSUME NEW d \in Accounts, NEW e, Adds(d, e), h \notin DOMAIN chain[a]
      PROVE  d = a /\ h = Len(chain[a]) + 1
  <2>1. d # a => chain'[a] = chain[a]
    BY <1>n DEF Adds, TypeInv, TypeOK
  <2>2. d = a => chain'[a] = Append(chain[a], e)
    BY <1>n DEF Adds, TypeInv, TypeOK
  <2> QED BY <1>n, <1>t, <1>1, <2>1, <2>2
<1>3. ASSUME NEW b \in BlocksOut, NEW type, h \notin DOMAIN chain[a],
             Accepts(chain, b, type), Adds(b.account, Recorded(b, type))
      PROVE  EntryAsAsked(a, h)'
  <2>1. b \in Block /\ b.account \in Accounts
    BY OutBlocks DEF Block
  <2>2. b.account = a /\ h = b.previous + 1
    BY <1>3, <1>n, <2>1 DEF Accepts
  <2>3. EntryAsAsked(b.account, b.previous + 1)'
    BY <1>3, NewEntry
  <2> QED BY <2>2, <2>3
<1>4. ASSUME NEW d \in Accounts, NEW rep \in Reps, h \notin DOMAIN chain[a],
             Adds(d, [kind |-> "change", representative |-> rep,
                      balance |-> chain[d][Len(chain[d])].balance,
                      link |-> NoLink, order |-> 0])
      PROVE  EntryAsAsked(a, h)'
  <2>1. d = a /\ h = Len(chain[a]) + 1
    BY <1>4, <1>n
  <2>2. chain'[a][h].kind = "change"
    BY <1>4, <2>1, <1>t DEF Adds, TypeInv, TypeOK
  <2> QED BY <2>2 DEF EntryAsAsked
<1>5. CASE chain' = chain
  BY <1>1, <1>2, <1>5
<1> QED BY <1>2, <1>3, <1>4, <1>5, LedgerSteps

(***************************************************************************)
(* Order numbers.                                                          *)
(***************************************************************************)
(* Where an order number of the next ledger comes from.                    *)
LEMMA OrderSteps ==
    ASSUME IInv, [Next]_vars, NEW x \in Positions(chain'), At(chain', x).order # 0
    PROVE  \/ x \in Positions(chain) /\ At(chain, x).order = At(chain', x).order
           \/ \E b \in BlocksOut :
                /\ b.order = At(chain', x).order
                /\ x = <<b.account, b.previous + 1>>
                /\ x \notin Positions(chain)
                /\ \A y \in Positions(chain') : y \in Positions(chain) \/ y = x
<1>t. \A d \in Accounts : chain[d] \in Seq(Entry)
  BY DEF IInv, TypeInv, TypeOK
<1>x. \A y \in Positions(chain') : /\ y[1] \in Accounts /\ y = <<y[1], y[2]>>
                                   /\ y[2] \in DOMAIN chain'[y[1]]
  BY DEF Positions
<1>1. CASE x[2] \in DOMAIN chain[x[1]]
  BY <1>1, <1>x, ChainsGrow, PositionsIff DEF IInv, At
<1>2. ASSUME NEW d \in Accounts, NEW e, Adds(d, e), NEW y \in Positions(chain'),
             y[2] \notin DOMAIN chain[y[1]]
      PROVE  /\ y = <<d, Len(chain[d]) + 1>>
             /\ At(chain', y) = e
  <2>1. d # y[1] => chain'[y[1]] = chain[y[1]]
    BY <1>2, <1>x DEF Adds, IInv, TypeInv, TypeOK
  <2>2. chain'[d] = Append(chain[d], e)
    BY <1>2 DEF Adds, IInv, TypeInv, TypeOK
  <2>3. d = y[1] /\ y[2] = Len(chain[d]) + 1
    BY <1>2, <1>x, <1>t, <2>1, <2>2
  <2>4. chain'[d][Len(chain[d]) + 1] = e
    BY <1>t, <2>2
  <2> QED BY <1>x, <2>3, <2>4 DEF At
<1>3. ASSUME NEW b \in BlocksOut, NEW type, x[2] \notin DOMAIN chain[x[1]],
             Accepts(chain, b, type), Adds(b.account, Recorded(b, type))
      PROVE  /\ b.order = At(chain', x).order
             /\ x = <<b.account, b.previous + 1>>
             /\ x \notin Positions(chain)
             /\ \A y \in Positions(chain') : y \in Positions(chain) \/ y = x
  <2>1. b.account \in Accounts /\ b.previous = Len(chain[b.account])
    BY <1>3, OutBlocks DEF Block, Accepts, IInv
  <2>2. \A y \in Positions(chain') : y[2] \notin DOMAIN chain[y[1]] =>
           y = <<b.account, b.previous + 1>> /\ At(chain', y) = Recorded(b, type)
    BY <1>2, <1>3, <2>1
  <2>3. x = <<b.account, b.previous + 1>> /\ At(chain', x) = Recorded(b, type)
    BY <1>3, <2>2
  <2>4. \A y \in Positions(chain') : y \in Positions(chain) \/ y = x
    BY <1>x, <2>2, <2>3, PositionsIff
  <2>5. x \notin Positions(chain)
    BY <1>3, <1>x, PositionsIff
  <2> QED BY <2>3, <2>4, <2>5 DEF Recorded
<1>4. ASSUME NEW d \in Accounts, NEW rep \in Reps, x[2] \notin DOMAIN chain[x[1]],
             Adds(d, [kind |-> "change", representative |-> rep,
                      balance |-> chain[d][Len(chain[d])].balance,
                      link |-> NoLink, order |-> 0])
      PROVE  FALSE
  BY <1>2, <1>4
<1>5. CASE chain' = chain
  BY <1>5
<1> QED BY <1>1, <1>3, <1>4, <1>5, LedgerSteps DEF IInv

(* Every order number in the ledger is that of a sendBlock call.           *)
LEMMA OrdersKnownStep ==
    ASSUME IInv, [Next]_vars
    PROVE  OrdersKnown'
<1> SUFFICES ASSUME NEW x \in Positions(chain'), At(chain', x).order # 0
             PROVE  At(chain', x).order \in DOMAIN orders'
  BY DEF OrdersKnown
<1>1. CASE x \in Positions(chain) /\ At(chain, x).order = At(chain', x).order
  BY <1>1, OrdersGrow DEF IInv, OrdersKnown
<1>2. ASSUME NEW b \in BlocksOut, b.order = At(chain', x).order
      PROVE  At(chain', x).order \in DOMAIN orders'
  BY <1>2, OrdersGrow DEF IInv, BlocksAsAsked, AsAsked
<1> QED BY <1>1, <1>2, OrderSteps

(* Every step preserves PaidOnce: a new entry claims the one position of   *)
(* its order, at which the ledger had nothing yet.                         *)
LEMMA PaidOnceStep ==
    ASSUME IInv, [Next]_vars
    PROVE  PaidOnce'
<1> SUFFICES ASSUME NEW x \in Positions(chain'), NEW y \in Positions(chain'),
                    At(chain', x).order = At(chain', y).order, At(chain', x).order # 0
             PROVE  x = y
  BY DEF PaidOnce
<1> DEFINE Old(z) == z \in Positions(chain) /\ At(chain, z).order = At(chain', z).order
           New(z) == \E b \in BlocksOut :
                        /\ b.order = At(chain', z).order
                        /\ z = <<b.account, b.previous + 1>>
                        /\ z \notin Positions(chain)
                        /\ \A v \in Positions(chain') : v \in Positions(chain) \/ v = z
<1>1. (Old(x) \/ New(x)) /\ (Old(y) \/ New(y))
  BY OrderSteps
<1>2. CASE Old(x) /\ Old(y)
  BY <1>2 DEF IInv, PaidOnce
<1>3. ASSUME NEW u \in Positions(chain), NEW z, New(z), At(chain, u).order # 0,
             At(chain, u).order = At(chain', z).order
      PROVE  u = z
  BY <1>3 DEF IInv, OnePosition
<1>4. CASE Old(x) /\ New(y)
  BY <1>3, <1>4
<1>5. CASE New(x) /\ Old(y)
  BY <1>3, <1>5
<1>6. CASE New(x) /\ New(y)
  BY <1>6
<1> QED BY <1>1, <1>2, <1>4, <1>5, <1>6

(* Every step preserves OnePosition: sendBlock takes a fresh number, and   *)
(* other blocks are copies.                                                *)
LEMMA OnePositionStep ==
    ASSUME IInv, [Next]_vars
    PROVE  OnePosition'
<1>k. Len(orders) + 1 \notin DOMAIN orders
  BY DEF IInv, TypeInv, TypeOK
<1>k0. 0 \notin DOMAIN orders
  BY DEF IInv, TypeInv, TypeOK
<1>o. \A d \in BlocksOut : d.order # 0 => d.order \in DOMAIN orders
  BY DEF IInv, BlocksAsAsked, AsAsked
<1>f. \A b : FromBefore(b) => \E d \in BlocksOut :
         d.order = b.order /\ d.account = b.account /\ d.previous = b.previous
  BY DEF FromBefore, SameBlock
<1>b. \A b, d \in BlocksOut' : b.order # 0 /\ b.order = d.order =>
         d.account = b.account /\ d.previous = b.previous
  <2>1. ASSUME NEW b, NEW d, FromBefore(b), FromBefore(d), b.order # 0, b.order = d.order
        PROVE  d.account = b.account /\ d.previous = b.previous
    BY <2>1, <1>f DEF IInv, OnePosition
  <2>2. ASSUME NEW b, NEW d, BuiltToSend(b) \/ BuiltToReceive(b), FromBefore(d),
               d.order # 0
        PROVE  b.order # d.order
    BY <2>2, <1>f, <1>o, <1>k, BuildsAsAsked
  <2> QED BY <2>1, <2>2, BlockSteps DEF IInv
<1>p. ASSUME NEW b \in BlocksOut', b.order # 0, NEW x \in Positions(chain'),
             At(chain', x).order = b.order
      PROVE  x = <<b.account, b.previous + 1>>
  <2>1. PICK n : n = At(chain', x).order
    OBVIOUS
  <2>2. CASE FromBefore(b)
    <3>1. PICK d \in BlocksOut :
             d.order = b.order /\ d.account = b.account /\ d.previous = b.previous
      BY <2>2, <1>f
    <3>2. CASE x \in Positions(chain) /\ At(chain, x).order = At(chain', x).order
      BY <1>p, <3>1, <3>2 DEF IInv, OnePosition
    <3>3. ASSUME NEW v \in BlocksOut, v.order = At(chain', x).order,
                 x = <<v.account, v.previous + 1>>
          PROVE  x = <<b.account, b.previous + 1>>
      <4>1. v.account = d.account /\ v.previous = d.previous
        BY <1>p, <3>1, <3>3 DEF IInv, OnePosition
      <4> QED BY <3>1, <3>3, <4>1
    <3> QED BY <1>p, <3>2, <3>3, OrderSteps
  <2>3. CASE BuiltToSend(b) \/ BuiltToReceive(b)
    <3>1. b.order = Len(orders) + 1
      BY <1>p, <2>3, BuildsAsAsked
    <3>2. \E v \in BlocksOut : v.order = b.order \/ b.order \in DOMAIN orders
      <4>1. CASE x \in Positions(chain) /\ At(chain, x).order = At(chain', x).order
        BY <1>p, <4>1, <3>1, <1>k DEF IInv, OrdersKnown
      <4>2. CASE \E v \in BlocksOut : v.order = At(chain', x).order
        BY <1>p, <4>2
      <4> QED BY <1>p, <4>1, <4>2, OrderSteps
    <3> QED BY <1>p, <1>o, <1>k, <3>1, <3>2
  <2> QED BY <1>p, <2>2, <2>3, BlockSteps DEF IInv
<1> QED BY <1>b, <1>p DEF OnePosition

(* The first state satisfies the invariant.                                *)
LEMMA InitIInv == Init => IInv
<1> SUFFICES ASSUME Init PROVE IInv
  OBVIOUS
<1>1. TypeInv
  BY InitType
<1>2. BlocksOut = {}
  BY OutIff DEF Init
<1>3. \A a \in Accounts : \A h \in DOMAIN chain[a] : h = 1 /\ chain[a][h].order = 0
  <2> TAKE a \in Accounts
  <2>1. CASE Opening[a] = -1
    BY <2>1 DEF Init
  <2>2. CASE Opening[a] # -1
    BY <2>2 DEF Init
  <2> QED BY <2>1, <2>2
<1>4. \A x \in Positions(chain) : At(chain, x).order = 0
  <2> TAKE x \in Positions(chain)
  <2>1. x[1] \in Accounts /\ x[2] \in DOMAIN chain[x[1]]
    BY DEF Positions
  <2> QED BY <1>3, <2>1 DEF At
<1>5. SnapshotsConsistent
  BY DEF Init, SnapshotsConsistent
<1>6. LedgerAsAsked
  BY <1>3 DEF LedgerAsAsked
<1> QED BY <1>1, <1>2, <1>4, <1>5, <1>6
        DEF IInv, BlocksAsAsked, OrdersKnown, PaidOnce, OnePosition

(* Every step preserves the invariant.                                     *)
LEMMA NextIInv == IInv /\ [Next]_vars => IInv'
<1> SUFFICES ASSUME IInv, [Next]_vars PROVE IInv'
  OBVIOUS
<1>1. TypeInv'
  BY NextType DEF IInv
<1>2. SnapshotsConsistent'
  BY SnapshotsStep DEF IInv
<1> QED BY <1>1, <1>2, BlocksStep, LedgerStep, OrdersKnownStep, PaidOnceStep,
           OnePositionStep DEF IInv

(* For any number of accounts, devices and outstanding calls: account info *)
(* that is held or on its way is one past state of its account.            *)
THEOREM SnapshotSafety == Spec => []SnapshotsConsistent
<1>1. IInv => SnapshotsConsistent
  BY DEF IInv
<1> QED BY InitIInv, NextIInv, <1>1, PTL DEF Spec

(* Every block that may still reach the ledger moves exactly the amount of *)
(* the call that built it, from the state it extends.                      *)
THEOREM BlockSafety == Spec => []BlocksAsAsked
<1>1. IInv => BlocksAsAsked
  BY DEF IInv
<1> QED BY InitIInv, NextIInv, <1>1, PTL DEF Spec

(* Every block in the ledger did: races, retries and late requests never   *)
(* change the amount, the receiver or the representative.                  *)
THEOREM LedgerSafety == Spec => []LedgerAsAsked
<1>1. IInv => LedgerAsAsked
  BY DEF IInv
<1> QED BY InitIInv, NextIInv, <1>1, PTL DEF Spec

(* All copies of one sendBlock call's block claim one position of one chain.*)
THEOREM OneClaim == Spec => []OnePosition
<1>1. IInv => OnePosition
  BY DEF IInv
<1> QED BY InitIInv, NextIInv, <1>1, PTL DEF Spec

(* No call of sendBlock is ever paid twice.                                *)
THEOREM NoDoublePayment == Spec => []PaidOnce
<1>1. IInv => PaidOnce
  BY DEF IInv
<1> QED BY InitIInv, NextIInv, <1>1, PTL DEF Spec

(***************************************************************************)
(* Awaited calls.  With one lane a session has one call out, so the answer *)
(* it takes was read after the account info it holds.                      *)
(***************************************************************************)
OneLane == \A k, l \in Lanes : k = l

OnePerLane ==
    \A c, d \in calls : c.session = d.session /\ c.lane = d.lane => c = d

NewerAnswers ==
    \A c \in calls : c.rpc = "account_info" =>
        \A i \in info[c.session], j \in c.answer : i.frontier <= j.frontier

AwaitInv == IInv /\ OnePerLane /\ NewerAnswers

(* What a step does to the calls and to the account info.                  *)
DropsCalls == UNCHANGED info /\ calls' \subseteq calls

StartsCall ==
    /\ UNCHANGED info
    /\ \E c : /\ ~ Waiting(c.session, c.lane)
              /\ c.rpc = "account_info" => c.answer = {}
              /\ calls' = calls \cup {c}

AnswersCall ==
    /\ UNCHANGED info
    /\ \E c \in calls : \E d :
         /\ d.session = c.session /\ d.lane = c.lane
         /\ d.rpc = "account_info" =>
              chain[Owner[c.session]] # << >>
                /\ d.answer = {AccountInfo(chain, Owner[c.session])}
         /\ calls' = (calls \ {c}) \cup {d}

TakesInfo ==
    \E c \in calls : /\ c.rpc = "account_info" /\ calls' = calls \ {c}
                     /\ info' = [info EXCEPT ![c.session] = c.answer]

(* Every step does one of these.                                           *)
LEMMA CallMoves ==
    ASSUME TypeInv, [Next]_vars
    PROVE  DropsCalls \/ StartsCall \/ AnswersCall \/ TakesInfo
<1>t. calls \subseteq Call
  BY DEF TypeInv, TypeOK, Call
<1>1. ASSUME NEW s \in Sessions, NEW l \in Lanes, Starts(s, l) PROVE StartsCall
  <2>1. ASSUME NEW c, c.rpc = "account_info" => c.answer = {}, Start(c) PROVE StartsCall
    BY <2>1 DEF Start, StartsCall
  <2>2. CASE GetAccountInfo(s, l)
    BY <2>1, <2>2 DEF GetAccountInfo
  <2>3. CASE GetPendingBlocks(s, l)
    BY <2>1, <2>3 DEF GetPendingBlocks
  <2>4. CASE \E type \in WorkTypes : GenerateWork(s, l, type)
    BY <2>1, <2>4 DEF GenerateWork
  <2>5. CASE \E type \in TransactionTypes : Publish(s, l, type)
    BY <2>1, <2>5 DEF Publish
  <2> QED BY <1>1, <2>2, <2>3, <2>4, <2>5 DEF Starts
<1>2. ASSUME NEW c \in calls, Serves(c) PROVE AnswersCall
  <2>1. CASE NodeAnswersInfo(c)
    <3>1. c \in InfoCall
      BY <1>t, <2>1, CallKinds DEF NodeAnswersInfo
    <3> DEFINE d == [c EXCEPT !.answer = {AccountInfo(chain, Owner[c.session])}]
    <3>2. /\ d.session = c.session /\ d.lane = c.lane
          /\ d.answer = {AccountInfo(chain, Owner[c.session])}
      BY <3>1 DEF InfoCall
    <3> QED BY <2>1, <3>2 DEF NodeAnswersInfo, Replace, AnswersCall
  <2>2. ASSUME NodeAnswersPending(c) PROVE AnswersCall
    <3>1. c \in ListCall
      BY <1>t, <2>2, CallKinds DEF NodeAnswersPending
    <3>2. PICK list : Replace(c, [c EXCEPT !.answer = {list}])
      BY <2>2 DEF NodeAnswersPending
    <3>3. LET d == [c EXCEPT !.answer = {list}] IN
          d.session = c.session /\ d.lane = c.lane /\ d.rpc = "pending"
      BY <3>1 DEF ListCall
    <3> QED BY <3>2, <3>3 DEF Replace, AnswersCall
  <2>3. ASSUME NodeProcesses(c) PROVE AnswersCall
    <3>1. c \in PostCall
      BY <1>t, <2>3, CallKinds DEF NodeProcesses
    <3>2. LET d == [c EXCEPT !.answered = TRUE] IN
          d.session = c.session /\ d.lane = c.lane /\ d.rpc = "process"
      BY <3>1 DEF PostCall
    <3> QED BY <2>3, <3>2 DEF NodeProcesses, Replace, AnswersCall
  <2> QED BY <1>2, <2>1, <2>2, <2>3 DEF Serves
<1>3. ASSUME NEW c \in calls, AccountInfoReturns(c) PROVE TakesInfo
  BY <1>3 DEF AccountInfoReturns, TakesInfo
<1>4. ASSUME NEW c \in calls, WorkReturns(c) \/ PendingReturns(c) \/ PublishReturns(c) \/ Fails(c)
      PROVE  DropsCalls
  BY <1>4 DEF WorkReturns, PendingReturns, PublishReturns, Fails, DropsCalls
<1>5. ASSUME NEW s \in Sessions, Builds(s) PROVE DropsCalls
  BY <1>5 DEF Builds, SendBlock, ReceiveBlock, DropsCalls
<1>6. ASSUME \/ \E x \in late : NodeProcessesLate(x)
             \/ \E a \in Accounts, rep \in Reps : ChangeElsewhere(a, rep)
             \/ UNCHANGED vars
      PROVE  DropsCalls
  BY <1>6 DEF NodeProcessesLate, ChangeElsewhere, vars, DropsCalls
<1> QED BY <1>1, <1>2, <1>3, <1>4, <1>5, <1>6 DEF Next, Returns

(* Every step keeps the calls of a lane apart, and the answers newer.      *)
LEMMA AwaitStep ==
    ASSUME OneLane, AwaitInv, [Next]_vars
    PROVE  AwaitInv'
<1>t. /\ info \in [Sessions -> Optional(Info)] /\ calls \subseteq Call
      /\ chain \in [Accounts -> Seq(Entry)] /\ Owner \in [Sessions -> Accounts]
  BY ConstantsOK DEF AwaitInv, IInv, TypeInv, TypeOK, Call
<1>l. \A c \in calls : c.session \in Sessions /\ c.lane \in Lanes
  BY <1>t, CallKinds
<1>1. ASSUME DropsCalls PROVE OnePerLane' /\ NewerAnswers'
  BY <1>1 DEF DropsCalls, AwaitInv, OnePerLane, NewerAnswers
<1>2. ASSUME StartsCall PROVE OnePerLane' /\ NewerAnswers'
  BY <1>2 DEF StartsCall, Waiting, AwaitInv, OnePerLane, NewerAnswers
<1>3. ASSUME AnswersCall PROVE OnePerLane' /\ NewerAnswers'
  <2>0. PICK c \in calls : \E d :
           /\ d.session = c.session /\ d.lane = c.lane
           /\ d.rpc = "account_info" =>
                chain[Owner[c.session]] # << >>
                  /\ d.answer = {AccountInfo(chain, Owner[c.session])}
           /\ calls' = (calls \ {c}) \cup {d}
    BY <1>3 DEF AnswersCall
  <2>1. PICK d :
           /\ d.session = c.session /\ d.lane = c.lane
           /\ d.rpc = "account_info" =>
                chain[Owner[c.session]] # << >>
                  /\ d.answer = {AccountInfo(chain, Owner[c.session])}
           /\ calls' = (calls \ {c}) \cup {d}
    BY <2>0
  <2>2. OnePerLane'
    BY <2>1 DEF AwaitInv, OnePerLane
  <2>3. \A i \in info[c.session] : i.frontier <= AccountInfo(chain, Owner[c.session]).frontier
    <3> TAKE i \in info[c.session]
    <3>1. Owner[c.session] \in Accounts /\ i.frontier \in DOMAIN chain[Owner[c.session]]
      BY <1>t, <1>l DEF AwaitInv, IInv, SnapshotsConsistent, Snapshot
    <3>2. chain[Owner[c.session]] \in Seq(Entry)
      BY <1>t, <3>1
    <3> QED BY <3>1, <3>2 DEF AccountInfo
  <2>4. NewerAnswers'
    BY <1>3, <2>1, <2>3 DEF AnswersCall, AwaitInv, NewerAnswers
  <2> QED BY <2>2, <2>4
<1>4. ASSUME TakesInfo PROVE OnePerLane' /\ NewerAnswers'
  <2>1. PICK c \in calls : /\ c.rpc = "account_info" /\ calls' = calls \ {c}
                           /\ info' = [info EXCEPT ![c.session] = c.answer]
    BY <1>4 DEF TakesInfo
  <2>2. \A d \in calls' : d \in calls /\ d.session # c.session
    BY <1>l, <2>1 DEF AwaitInv, OnePerLane, OneLane
  <2>3. \A d \in calls' : info'[d.session] = info[d.session]
    BY <1>t, <1>l, <2>1, <2>2
  <2> QED BY <2>2, <2>3 DEF AwaitInv, OnePerLane, NewerAnswers
<1>5. IInv'
  BY NextIInv DEF AwaitInv
<1>6. OnePerLane' /\ NewerAnswers'
  BY <1>1, <1>2, <1>3, <1>4, CallMoves DEF AwaitInv, IInv
<1> QED BY <1>5, <1>6 DEF AwaitInv

(* So a step never puts an older state into an account.                    *)
LEMMA InfoStep ==
    ASSUME AwaitInv, [Next]_vars, NEW s \in Sessions,
           NEW i \in info[s], NEW j \in info'[s]
    PROVE  i.frontier <= j.frontier
<1>t. info \in [Sessions -> Optional(Info)] /\ calls \subseteq Call
  BY DEF AwaitInv, IInv, TypeInv, TypeOK, Call
<1>1. CASE info' = info
  <2>1. i = j /\ i \in Info
    BY <1>t, <1>1 DEF Optional
  <2> QED BY <2>1 DEF Info, Heights
<1>2. CASE TakesInfo
  <2>1. PICK c \in calls : /\ c.rpc = "account_info"
                           /\ info' = [info EXCEPT ![c.session] = c.answer]
    BY <1>2 DEF TakesInfo
  <2>2. CASE s = c.session
    BY <1>t, <2>1, <2>2 DEF AwaitInv, NewerAnswers
  <2>3. CASE s # c.session
    <3>1. info'[s] = info[s]
      BY <1>t, <2>1, <2>3
    <3>2. i = j /\ i \in Info
      BY <1>t, <3>1 DEF Optional
    <3> QED BY <3>2 DEF Info, Heights
  <2> QED BY <2>2, <2>3
<1> QED BY <1>1, <1>2, CallMoves DEF AwaitInv, IInv, DropsCalls, StartsCall, AnswersCall

(* A device that awaits each call (the async methods of NanoNode) never    *)
(* gets older account info than it had, however the node, other devices    *)
(* and given up requests behave.                                           *)
THEOREM InfoGoesForward ==
    ASSUME OneLane
    PROVE  Spec => InfoMonotone
<1>1. Init => AwaitInv
  BY InitIInv DEF Init, AwaitInv, OnePerLane, NewerAnswers
<1>2. AwaitInv /\ [Next]_vars => AwaitInv'
  BY AwaitStep
<1>3. AwaitInv /\ [Next]_vars =>
        [\A s \in Sessions : \A i \in info[s], j \in info'[s] : i.frontier <= j.frontier]_vars
  BY InfoStep
<1> QED BY <1>1, <1>2, <1>3, PTL DEF Spec, InfoMonotone

----------------------------------------------------------------------------
(***************************************************************************)
(* NanoTransfer implements NanoPayments.  An accepted send block is a      *)
(* payment, an accepted receive block a collection, sendBlock an order;    *)
(* every other step leaves the abstract state alone.                       *)
(***************************************************************************)
(* The abstract state.                                                     *)
Balances   == [a \in Accounts |-> BalanceOf(a)]
PaidOrders == OrdersAt(Positions(chain))
Gathered   == OrdersAt({x \in Positions(chain) : Collected(chain, x)})

(***************************************************************************)
(* The ledger with one more block.                                         *)
(***************************************************************************)
Place(a) == <<a, Len(chain[a]) + 1>>

(* A position is an account and a height of its chain.                     *)
LEMMA PositionShape ==
    ASSUME NEW ch, NEW x \in Positions(ch)
    PROVE  x[1] \in Accounts /\ x = <<x[1], x[2]>> /\ x[2] \in DOMAIN ch[x[1]]
BY DEF Positions

(* A block that is added takes a new position and leaves the others alone. *)
LEMMA Grown ==
    ASSUME TypeInv, NEW d \in Accounts, NEW e, chain[d] # << >>, Adds(d, e)
    PROVE  /\ Place(d) \notin Positions(chain)
           /\ Positions(chain') = Positions(chain) \cup {Place(d)}
           /\ At(chain', Place(d)) = e
           /\ \A x \in Positions(chain) : At(chain', x) = At(chain, x)
           /\ Balances' = [Balances EXCEPT ![d] = e.balance]
<1>t. chain \in [Accounts -> Seq(Entry)] /\ \A a \in Accounts : chain[a] \in Seq(Entry)
  BY DEF TypeInv, TypeOK
<1>1. chain'[d] = Append(chain[d], e)
  BY <1>t DEF Adds
<1>2. \A a \in Accounts : a # d => chain'[a] = chain[a]
  BY <1>t DEF Adds
<1>3. /\ DOMAIN chain'[d] = DOMAIN chain[d] \cup {Len(chain[d]) + 1}
      /\ Len(chain[d]) + 1 \notin DOMAIN chain[d]
      /\ chain'[d][Len(chain[d]) + 1] = e
      /\ \A h \in DOMAIN chain[d] : chain'[d][h] = chain[d][h]
      /\ Len(chain'[d]) = Len(chain[d]) + 1
      /\ chain'[d] # << >>
  BY <1>t, <1>1
<1>4. Place(d) \notin Positions(chain) /\ Place(d) \in Positions(chain')
  BY <1>3, PositionsIff DEF Place
<1>5. ASSUME NEW x PROVE x \in Positions(chain') <=> x \in Positions(chain) \/ x = Place(d)
  <2>1. ASSUME x \in Positions(chain'), x # Place(d) PROVE x \in Positions(chain)
    <3>1. x[1] \in Accounts /\ x = <<x[1], x[2]>> /\ x[2] \in DOMAIN chain'[x[1]]
      BY <2>1, PositionShape
    <3>2. x[2] \in DOMAIN chain[x[1]]
      BY <1>2, <1>3, <2>1, <3>1 DEF Place
    <3> QED BY <3>1, <3>2, PositionsIff
  <2>2. ASSUME x \in Positions(chain) PROVE x \in Positions(chain')
    <3>1. x[1] \in Accounts /\ x = <<x[1], x[2]>> /\ x[2] \in DOMAIN chain[x[1]]
      BY <2>2, PositionShape
    <3>2. x[2] \in DOMAIN chain'[x[1]]
      BY <1>2, <1>3, <3>1
    <3> QED BY <3>1, <3>2, PositionsIff
  <2> QED BY <1>4, <2>1, <2>2
<1>6. ASSUME NEW x \in Positions(chain) PROVE At(chain', x) = At(chain, x)
  <2>1. x[1] \in Accounts /\ x[2] \in DOMAIN chain[x[1]]
    BY <1>6, PositionShape
  <2> QED BY <2>1, <1>2, <1>3 DEF At
<1>7. At(chain', Place(d)) = e
  BY <1>3 DEF At, Place
<1>8. \A a \in Accounts : BalanceOf(a)' = IF a = d THEN e.balance ELSE BalanceOf(a)
  BY <1>2, <1>3 DEF BalanceOf
<1>9. Balances' = [Balances EXCEPT ![d] = e.balance]
  BY <1>8 DEF Balances
<1> QED BY <1>4, <1>5, <1>6, <1>7, <1>9

(* The numbers of the paid orders.                                         *)
LEMMA PaidIff ==
    ASSUME NEW n
    PROVE  /\ n \in PaidOrders <=> n # 0 /\ \E x \in Positions(chain) : At(chain, x).order = n
           /\ n \in PaidOrders' <=> n # 0 /\ \E x \in Positions(chain') : At(chain', x).order = n
BY DEF PaidOrders, OrdersAt

(* The numbers of the collected ones.                                      *)
LEMMA GatheredIff ==
    ASSUME NEW n
    PROVE  /\ n \in Gathered <=>
                n # 0 /\ \E x \in Positions(chain) :
                            Collected(chain, x) /\ At(chain, x).order = n
           /\ n \in Gathered' <=>
                n # 0 /\ \E x \in Positions(chain') :
                            Collected(chain', x) /\ At(chain', x).order = n
<1>1. n \in Gathered <=>
        n # 0 /\ \E x \in {y \in Positions(chain) : Collected(chain, y)} : At(chain, x).order = n
  BY DEF Gathered, OrdersAt
<1>2. n \in Gathered' <=>
        n # 0 /\ \E x \in {y \in Positions(chain') : Collected(chain', y)} : At(chain', x).order = n
  BY DEF Gathered, OrdersAt
<1> QED BY <1>1, <1>2

(* What a receive block of the ledger takes in was in the ledger.          *)
LEMMA CollectedIsSend ==
    ASSUME TypeInv, LedgerAsAsked, NEW x, Collected(chain, x)
    PROVE  x \in Positions(chain) /\ At(chain, x).kind = "send"
<1>1. PICK y \in Positions(chain) : At(chain, y).kind = "receive" /\ At(chain, y).link = x
  BY DEF Collected
<1>2. y[1] \in Accounts /\ y[2] \in DOMAIN chain[y[1]]
  BY PositionShape
<1>3. y[2] # 1
  BY <1>1, <1>2 DEF At, TypeInv, OpenFirst
<1> QED BY <1>1, <1>2, <1>3 DEF LedgerAsAsked, At, SentTo

(* With a block more that collects nothing, the same is collected.         *)
LEMMA NothingGathered ==
    ASSUME TypeInv, LedgerAsAsked, NEW d \in Accounts, NEW e, chain[d] # << >>, Adds(d, e),
           e.kind # "receive"
    PROVE  Gathered' = Gathered
<1>1. \A x : Collected(chain', x) <=> Collected(chain, x)
  BY Grown DEF Collected
<1>2. \A n : n \in Gathered' <=> n \in Gathered
  BY <1>1, Grown, GatheredIff, CollectedIsSend
<1> QED BY <1>2

(***************************************************************************)
(* The steps.                                                              *)
(***************************************************************************)
(* What is known of an accepted block and the head it extends.             *)
LEMMA AcceptedHead ==
    ASSUME IInv, [Next]_vars, NEW b \in BlocksOut, NEW type, Accepts(chain, b, type)
    PROVE  /\ b \in Block /\ b.account \in Accounts /\ b.balance \in Int
           /\ chain[b.account] # << >> /\ b.previous = Len(chain[b.account])
           /\ b.previous + 1 = Place(b.account)[2]
           /\ chain[b.account][b.previous] \in Entry
           /\ Balances[b.account] = chain[b.account][b.previous].balance
           /\ Balances[b.account] \in Nat
<1>1. b \in Block /\ chain \in [Accounts -> Seq(Entry)]
  BY OutBlocks DEF IInv, TypeInv, TypeOK
<1>2. /\ b.account \in Accounts /\ b.balance \in Int
      /\ Len(chain[b.account]) \in Nat \ {0} /\ b.previous = Len(chain[b.account])
  BY <1>1, AcceptedType DEF Block
<1>3. chain[b.account] \in Seq(Entry)
  BY <1>1, <1>2
<1>4. chain[b.account] # << >> /\ chain[b.account][b.previous] \in Entry
  BY <1>2, <1>3
<1> QED BY <1>1, <1>2, <1>4 DEF Balances, BalanceOf, Place, Entry

(* An accepted send block pays its order.                                  *)
LEMMA SendPays ==
    ASSUME IInv, [Next]_vars, NEW b \in BlocksOut, Accepts(chain, b, "send"),
           Adds(b.account, Recorded(b, "send")), orders' = orders
    PROVE  b.order \in DOMAIN orders /\ Payments!Pay(b.order)
<1> DEFINE a == b.account
           prev == chain[a][b.previous]
           amount == prev.balance - b.balance
<1>1. /\ a \in Accounts /\ chain[a] # << >> /\ b.previous = Len(chain[a])
      /\ b.balance \in Int /\ Balances[a] = prev.balance /\ prev.balance \in Nat
  BY AcceptedHead
<1>2. /\ Place(a) \notin Positions(chain)
      /\ Positions(chain') = Positions(chain) \cup {Place(a)}
      /\ At(chain', Place(a)) = Recorded(b, "send")
      /\ \A x \in Positions(chain) : At(chain', x) = At(chain, x)
      /\ Balances' = [Balances EXCEPT ![a] = b.balance]
  BY <1>1, Grown DEF IInv, Recorded
<1>3. b.balance \in 0 .. prev.balance - 1 /\ b.link \in Accounts
  BY DEF Accepts, IsSend
<1>4. b.order \in DOMAIN orders /\ orders[b.order] = [account |-> a, dest |-> b.link,
                                                      amount |-> amount]
  <2>1. b.link \notin Positions(chain)
    <3>1. \A x \in Positions(chain) : x \in Hashes
      BY DEF Positions, Hashes, IInv, TypeInv, TypeOK
    <3> QED BY <1>3, <3>1, LinksAreDistinct
  <2> QED BY <2>1 DEF IInv, BlocksAsAsked, AsAsked, SentTo
<1>5. b.order # 0
  BY <1>4 DEF IInv, TypeInv, TypeOK
<1>6. b.order \notin PaidOrders
  <2>1. ASSUME NEW x \in Positions(chain), At(chain, x).order = b.order PROVE FALSE
    BY <1>1, <1>2, <1>5, <2>1 DEF IInv, OnePosition, Place
  <2> QED BY <2>1, PaidIff
<1>7. PaidOrders' = PaidOrders \cup {b.order}
  <2>1. \A n : n \in PaidOrders' <=> n \in PaidOrders \/ n = b.order
    BY <1>2, <1>5, PaidIff DEF Recorded
  <2> QED BY <2>1
<1>8. Gathered' = Gathered
  <2>1. Recorded(b, "send").kind # "receive"
    BY DEF Recorded
  <2> QED BY <1>1, <2>1, NothingGathered DEF IInv
<1>9. amount \in 1 .. Balances[a] /\ Balances[a] - amount = b.balance
  BY <1>1, <1>3
<1>10. Balances' = [Balances EXCEPT ![a] = Balances[a] - amount]
  BY <1>2, <1>9
<1> HIDE DEF a, prev, amount
<1> QED BY <1>4, <1>6, <1>7, <1>8, <1>9, <1>10 DEF Payments!Pay, Balances, PaidOrders, Gathered

(* An accepted receive block collects the order of the send it takes in.   *)
LEMMA ReceiveCollects ==
    ASSUME IInv, [Next]_vars, NEW b \in BlocksOut, Accepts(chain, b, "receive"),
           Adds(b.account, Recorded(b, "receive")), orders' = orders
    PROVE  \E i \in DOMAIN orders : Payments!Collect(i)
<1> DEFINE a == b.account
           x == b.link
           e == Recorded(b, "receive")
           i == At(chain, x).order
<1>1. /\ a \in Accounts /\ chain[a] # << >> /\ b.previous = Len(chain[a])
      /\ b.balance \in Int /\ Balances[a] = chain[a][b.previous].balance
      /\ Balances[a] \in Nat
  BY AcceptedHead
<1>2. /\ Place(a) \notin Positions(chain)
      /\ Positions(chain') = Positions(chain) \cup {Place(a)}
      /\ At(chain', Place(a)) = e
      /\ \A y \in Positions(chain) : At(chain', y) = At(chain, y)
      /\ Balances' = [Balances EXCEPT ![a] = b.balance]
  BY <1>1, Grown DEF IInv, Recorded
<1>3. /\ x \in Positions(chain) /\ At(chain, x).kind = "send"
      /\ At(chain, x).link = a /\ ~ Collected(chain, x)
      /\ b.balance = Balances[a] + Sent(chain, x)
  BY <1>1 DEF Accepts, IsReceive, Receivable
<1>4. i \in DOMAIN orders /\ orders[i].dest = a /\ orders[i].amount = Sent(chain, x)
  <2>1. x[1] \in Accounts /\ x[2] \in DOMAIN chain[x[1]] /\ x[2] # 1
    BY <1>3, SendPosition, PositionShape DEF IInv, At, TypeInv, OpenFirst
  <2>2. LET f == chain[x[1]][x[2]] IN
           /\ f.order \in DOMAIN orders
           /\ orders[f.order] = [account |-> x[1], dest |-> f.link,
                                 amount |-> chain[x[1]][x[2] - 1].balance - f.balance]
    BY <1>3, <2>1 DEF IInv, LedgerAsAsked, At
  <2> QED BY <1>3, <2>2 DEF At, Sent
<1>5. i # 0
  BY <1>4 DEF IInv, TypeInv, TypeOK
<1>6. b.order = 0
  <2>1. x \in Hashes
    BY <1>3 DEF Positions, Hashes, IInv, TypeInv, TypeOK
  <2>2. ASSUME b.order \in DOMAIN orders, NEW m,
               orders[b.order] = [account |-> a, dest |-> x, amount |-> m]
        PROVE  FALSE
    <3>1. orders[b.order] \in Order /\ orders[b.order].dest = x
      BY <2>2 DEF IInv, TypeInv, TypeOK
    <3>2. x \in Accounts
      BY <2>2, <3>1, ConstantsOK DEF Order
    <3> QED BY <2>1, <3>2, LinksAreDistinct
  <2>3. \/ b.order = 0
        \/ /\ b.order \in DOMAIN orders
           /\ \E m : orders[b.order] = [account |-> a, dest |-> x, amount |-> m]
    BY DEF IInv, BlocksAsAsked, AsAsked
  <2> QED BY <2>2, <2>3
<1>7. PaidOrders' = PaidOrders
  <2>1. \A n : n \in PaidOrders' <=> n \in PaidOrders
    BY <1>2, <1>6, PaidIff DEF Recorded
  <2> QED BY <2>1
<1>8. i \in PaidOrders \ Gathered
  <2>1. i \in PaidOrders
    BY <1>3, <1>5, PaidIff
  <2>2. ASSUME NEW y \in Positions(chain), Collected(chain, y), At(chain, y).order = i
        PROVE  FALSE
    <3>1. y = x
      BY <1>3, <1>5, <2>2 DEF IInv, PaidOnce
    <3> QED BY <1>3, <2>2, <3>1
  <2> QED BY <2>1, <2>2, GatheredIff
<1>9. Gathered' = Gathered \cup {i}
  <2>1. \A y : Collected(chain', y) <=> Collected(chain, y) \/ y = x
    <3>1. e.kind = "receive" /\ e.link = x
      BY DEF Recorded
    <3> QED BY <1>2, <3>1 DEF Collected
  <2>2. At(chain', Place(a)).order = 0
    BY <1>2, <1>6 DEF Recorded
  <2>3. At(chain', x).order = i
    BY <1>2, <1>3
  <2>4. ASSUME NEW n PROVE n \in Gathered' <=> n \in Gathered \/ n = i
    BY <1>2, <1>3, <1>5, <2>1, <2>2, <2>3, GatheredIff
  <2> QED BY <2>4
<1>10. Balances' = [Balances EXCEPT ![a] = Balances[a] + orders[i].amount]
  BY <1>2, <1>3, <1>4
<1> HIDE DEF a, x, e, i
<1> QED BY <1>4, <1>7, <1>8, <1>9, <1>10 DEF Payments!Collect, Balances, PaidOrders, Gathered

(* A change of representative changes nothing.                             *)
LEMMA ChangeStutters ==
    ASSUME IInv, NEW d \in Accounts, NEW rep \in Reps, chain[d] # << >>, orders' = orders,
           Adds(d, [kind |-> "change", representative |-> rep,
                    balance |-> chain[d][Len(chain[d])].balance,
                    link |-> NoLink, order |-> 0])
    PROVE  UNCHANGED <<Balances, orders, PaidOrders, Gathered>>
<1> DEFINE e == [kind |-> "change", representative |-> rep,
                 balance |-> chain[d][Len(chain[d])].balance, link |-> NoLink, order |-> 0]
<1>1. e.order = 0 /\ e.kind # "receive" /\ e.balance = Balances[d]
  BY DEF Balances, BalanceOf
<1> HIDE DEF e
<1>2. Adds(d, e)
  BY DEF e
<1>3. Gathered' = Gathered
  BY <1>1, <1>2, NothingGathered DEF IInv
<1>4. PaidOrders' = PaidOrders
  <2>1. \A n : n \in PaidOrders' <=> n \in PaidOrders
    BY <1>1, <1>2, Grown, PaidIff DEF IInv
  <2> QED BY <2>1
<1>5. Balances' = Balances
  <2>1. Balances' = [Balances EXCEPT ![d] = Balances[d]]
    BY <1>1, <1>2, Grown DEF IInv
  <2> QED BY <2>1 DEF Balances
<1> QED BY <1>3, <1>4, <1>5

(* Only sendBlock changes the orders, and it leaves the ledger alone.      *)
LEMMA OrdersOrLedger ==
    ASSUME TypeInv, [Next]_vars
    PROVE  \/ orders' = orders
           \/ chain' = chain /\ \E o \in Order : orders' = Append(orders, o)
<1>1. ASSUME NEW s \in Sessions, NEW to \in Payees, NEW amount \in Amounts,
             SendBlock(s, to, amount)
      PROVE  chain' = chain /\ \E o \in Order : orders' = Append(orders, o)
  <2>1. [account |-> Owner[s], dest |-> to, amount |-> amount] \in Order
    BY ConstantsOK DEF Order
  <2> QED BY <1>1, <2>1 DEF SendBlock
<1>2. \/ \E s \in Sessions, to \in Payees, amount \in Amounts : SendBlock(s, to, amount)
      \/ orders' = orders
  BY DEF Next, vars, Builds, ReceiveBlock, Starts, GetAccountInfo, GetPendingBlocks,
         GenerateWork, Publish, Start, Serves, NodeAnswersInfo, NodeAnswersPending,
         NodeProcesses, Replace, Returns, AccountInfoReturns, WorkReturns,
         PendingReturns, PublishReturns, Fails, NodeProcessesLate, ChangeElsewhere
<1> QED BY <1>1, <1>2

(***************************************************************************)
(* The refinement.                                                         *)
(***************************************************************************)
(* A step that leaves the ledger alone asks for a payment or does nothing. *)
LEMMA LedgerAlone ==
    ASSUME TypeInv, [Next]_vars, chain' = chain
    PROVE  [Payments!Next]_(Payments!vars)
<1>1. UNCHANGED <<Balances, PaidOrders, Gathered>>
  BY DEF Balances, BalanceOf, PaidOrders, Gathered, OrdersAt
<1>2. CASE orders' = orders
  BY <1>1, <1>2 DEF Payments!vars, Balances, PaidOrders, Gathered
<1>3. ASSUME NEW o \in Order, orders' = Append(orders, o)
      PROVE  Payments!Ask(o)
  BY <1>1, <1>3 DEF Payments!Ask, Balances, PaidOrders, Gathered
<1> QED BY <1>2, <1>3, OrdersOrLedger DEF Payments!Next

(* Every step implements an abstract one or none.                          *)
LEMMA StepImplements ==
    ASSUME IInv, [Next]_vars
    PROVE  [Payments!Next]_(Payments!vars)
<1>1. CASE chain' = chain
  BY <1>1, LedgerAlone DEF IInv
<1>2. ASSUME chain' # chain PROVE orders' = orders
  BY <1>2, OrdersOrLedger DEF IInv
<1>3. ASSUME chain' # chain, NEW b \in BlocksOut, NEW type, Accepts(chain, b, type),
             Adds(b.account, Recorded(b, type))
      PROVE  \E i \in DOMAIN orders : Payments!Pay(i) \/ Payments!Collect(i)
  <2>1. CASE type = "send"
    BY <1>2, <1>3, <2>1, SendPays
  <2>2. CASE type = "receive"
    BY <1>2, <1>3, <2>2, ReceiveCollects
  <2> QED BY <1>3, <2>1, <2>2 DEF Accepts
<1>4. ASSUME chain' # chain, NEW d \in Accounts, NEW rep \in Reps, chain[d] # << >>,
             Adds(d, [kind |-> "change", representative |-> rep,
                      balance |-> chain[d][Len(chain[d])].balance,
                      link |-> NoLink, order |-> 0])
      PROVE  UNCHANGED Payments!vars
  <2>1. UNCHANGED <<Balances, orders, PaidOrders, Gathered>>
    BY <1>2, <1>4, ChangeStutters
  <2> QED BY <2>1 DEF Payments!vars, Balances, PaidOrders, Gathered
<1> QED BY <1>1, <1>3, <1>4, LedgerSteps DEF Payments!Next, IInv

(* The first state is an abstract first state: nothing asked, nothing paid,*)
(* the opening balances.                                                   *)
LEMMA InitImplements == Init => Payments!Init
<1> SUFFICES ASSUME Init PROVE Payments!Init
  OBVIOUS
<1>1. \A d \in Accounts :
        BalanceOf(d) = IF Opening[d] = -1 THEN 0 ELSE Opening[d]
  <2> TAKE d \in Accounts
  <2>1. CASE Opening[d] = -1
    BY <2>1 DEF Init, BalanceOf
  <2>2. CASE Opening[d] # -1
    BY <2>2 DEF Init, BalanceOf
  <2> QED BY <2>1, <2>2
<1>2. \A x \in Positions(chain) : At(chain, x).order = 0
  <2> TAKE x \in Positions(chain)
  <2>1. x[1] \in Accounts /\ x[2] \in DOMAIN chain[x[1]]
    BY PositionShape
  <2>2. CASE Opening[x[1]] = -1
    BY <2>1, <2>2 DEF Init
  <2>3. CASE Opening[x[1]] # -1
    BY <2>1, <2>3 DEF Init, At
  <2> QED BY <2>2, <2>3
<1>3. PaidOrders = {} /\ Gathered = {}
  BY <1>2, PaidIff, GatheredIff
<1> QED BY <1>1, <1>3 DEF Init, Payments!Init, PaidOrders, Gathered

(* Blocks built from snapshots, raced, retried, delayed and dropped amount *)
(* to payments made at most once, whole, out of a balance that covers      *)
(* them, and collected at most once by whom they were addressed to, for    *)
(* any number of accounts, devices, outstanding calls and orders           *)
(* (NanoBlockManager.swift sendBlock, receiveBlock, NanoNode.swift).       *)
THEOREM PaymentsImplemented == Spec => ImplementsPayments
<1>1. Init => Payments!Init
  BY InitImplements
<1>2. IInv /\ [Next]_vars => [Payments!Next]_(Payments!vars)
  BY StepImplements
<1> QED BY InitIInv, NextIInv, <1>1, <1>2, PTL DEF Spec, ImplementsPayments, Payments!Spec
=============================================================================
