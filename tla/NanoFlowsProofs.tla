-------------------------- MODULE NanoFlowsProofs --------------------------
(***************************************************************************)
(* The two programs of the README are users of the API: every step of them *)
(* is a step of NanoTransfer, so that what is proved there holds of them.  *)
(* And where an account has one device and no other wallet, a send program *)
(* that ended without an error has paid, whatever calls failed elsewhere.  *)
(***************************************************************************)
EXTENDS NanoFlows, NanoTransferProofs

(* What a loop has still to receive, the session found.                    *)
TodoFound ==
    /\ todo \in [Sessions -> SUBSET PendingItem]
    /\ \A s \in Sessions : todo[s] \subseteq found[s]

(* A step of a session is a step of a session of NanoTransfer.             *)
LEMMA SessionMoves ==
    ASSUME TodoFound, NEW s \in Sessions, Session(s)
    PROVE  [Next]_vars
<1>1. CASE SendStep(s)
  BY <1>1, FlowConstants DEF SendStep, Next, Builds
<1>2. CASE LoopStep(s)
  BY <1>2 DEF LoopStep, TodoFound, Next, Builds
<1>3. ASSUME NEW l \in Lanes,
             \/ PutAccountInfo(s, l)
             \/ ListStep(s, l)
             \/ WorkStep(s, l)
             \/ PublishStep(s, l)
      PROVE  Starts(s, l)
  BY <1>3, FlowConstants DEF PutAccountInfo, ListStep, WorkStep, PublishStep, Starts
<1> QED BY <1>1, <1>2, <1>3 DEF Session, Next

(* So is every step of the programs and of the node under them.            *)
LEMMA FlowMoves == TodoFound /\ [FlowNext]_flowVars => [Next]_vars
<1> SUFFICES ASSUME TodoFound, [FlowNext]_flowVars PROVE [Next]_vars
  OBVIOUS
<1>1. ASSUME NEW c \in calls, Node(c) \/ Resume(c) \/ Throw(c)
      PROVE  Serves(c) \/ Returns(c)
  BY <1>1 DEF Node, Resume, Throw, Returns
<1>2. ASSUME NEW s \in Sessions, Again(s) PROVE UNCHANGED vars
  BY <1>2 DEF Again
<1>3. CASE Elsewhere
  BY <1>3 DEF Elsewhere, Next
<1>4. CASE UNCHANGED flowVars
  BY <1>4 DEF flowVars, vars
<1> QED BY <1>1, <1>2, <1>3, <1>4, SessionMoves DEF FlowNext, Next

(* A loop takes its list from the answer that makes found.                 *)
LEMMA TodoStep == TypeInv /\ TodoFound /\ [FlowNext]_flowVars => TodoFound'
<1> SUFFICES ASSUME TypeInv, TodoFound, [FlowNext]_flowVars PROVE TodoFound'
  OBVIOUS
<1>1. UNCHANGED <<todo, found>> => TodoFound'
  BY DEF TodoFound
<1>2. ASSUME NEW s \in Sessions, Session(s) PROVE TodoFound'
  <2>1. CASE LoopStep(s)
    <3>1. UNCHANGED found
      BY <2>1 DEF LoopStep, ReceiveBlock, vars
    <3>2. \/ UNCHANGED todo
          \/ \E p : todo' = [todo EXCEPT ![s] = @ \ {p}]
      BY <2>1 DEF LoopStep
    <3> QED BY <3>1, <3>2 DEF TodoFound
  <2>2. CASE ~ LoopStep(s)
    BY <1>2, <2>2, <1>1 DEF Session, SendStep, PutAccountInfo, ListStep, WorkStep,
       PublishStep, From, SendBlock, GetAccountInfo, GetPendingBlocks, GenerateWork,
       Publish, Start, vars
  <2> QED BY <2>1, <2>2
<1>3. ASSUME NEW c \in calls, Resume(c) PROVE TodoFound'
  <2>1. CASE PendingReturns(c) /\ todo' = [todo EXCEPT ![c.session] = UNION c.answer]
    <3>1. found' = [found EXCEPT ![c.session] = UNION c.answer]
      BY <2>1 DEF PendingReturns
    <3>2. found \in [Sessions -> SUBSET PendingItem]
      BY DEF TypeInv, TypeOK
    <3>3. c \in ListCall
      BY <2>1, CallKinds DEF PendingReturns, TypeInv, TypeOK, Call
    <3>4. UNION c.answer \subseteq PendingItem /\ c.session \in Sessions
      BY <3>3 DEF ListCall, Optional
    <3> QED BY <2>1, <3>1, <3>2, <3>4 DEF TodoFound
  <2>2. CASE ~ (PendingReturns(c) /\ todo' = [todo EXCEPT ![c.session] = UNION c.answer])
    BY <1>3, <2>2, <1>1 DEF Resume, From, AccountInfoReturns, WorkReturns, PublishReturns
  <2> QED BY <2>1, <2>2
<1>4. ASSUME NEW c \in calls, Node(c) \/ Throw(c) PROVE TodoFound'
  BY <1>4, <1>1 DEF Node, Throw, Serves, NodeAnswersInfo, NodeAnswersPending,
     NodeProcesses, Replace, Fails
<1>5. CASE Elsewhere \/ UNCHANGED flowVars \/ \E s \in Sessions : Again(s)
  BY <1>5, <1>1 DEF Elsewhere, NodeProcessesLate, ChangeElsewhere, flowVars, Again, From, vars
<1> QED BY <1>2, <1>3, <1>4, <1>5 DEF FlowNext

(* What holds of every history of calls holds of the programs.             *)
FlowIInv == IInv /\ TodoFound

(* Both are there in the first state.                                      *)
LEMMA FlowInitInv == FlowInit => FlowIInv
BY InitIInv DEF FlowInit, FlowIInv, TodoFound, PendingItem

(* And every step of the programs keeps them.                              *)
LEMMA FlowNextInv == FlowIInv /\ [FlowNext]_flowVars => FlowIInv'
<1> SUFFICES ASSUME FlowIInv, [FlowNext]_flowVars PROVE FlowIInv'
  OBVIOUS
<1>1. IInv /\ TypeInv /\ TodoFound
  BY DEF FlowIInv, IInv
<1> QED BY <1>1, FlowMoves, NextIInv, TodoStep DEF FlowIInv

(* The programs of the README are histories of NanoTransfer: its theorems, *)
(* the refinement of NanoPayments among them, are theorems about them.     *)
THEOREM FlowsAreTransfers == FlowSpec => Spec
<1>1. FlowInit => Init
  BY DEF FlowInit
<1>2. FlowIInv /\ [FlowNext]_flowVars => [Next]_vars
  BY FlowMoves DEF FlowIInv
<1> QED BY <1>1, <1>2, FlowInitInv, FlowNextInv, PTL DEF FlowSpec, Spec

(* So, however many devices run them and whatever fails: no send program   *)
(* pays twice, and the ledger holds what the programs asked for.           *)
THEOREM FlowsPayOnce == FlowSpec => [](PaidOnce /\ LedgerAsAsked)
BY FlowsAreTransfers, NoDoublePayment, LedgerSafety, PTL

(* And they do with money what NanoPayments promises a user.               *)
THEOREM FlowsImplementPayments == FlowSpec => ImplementsPayments
BY FlowsAreTransfers, PaymentsImplemented, PTL

(***************************************************************************)
(* An account with one device and no other wallet.  Its chain changes only *)
(* by what that device publishes, so what the device has read of it stays  *)
(* true until its own block is there.                                      *)
(***************************************************************************)
Alone ==
    /\ \A s, t \in Sessions : Owner[s] = Owner[t] => s = t
    /\ ChangeBelow \in {0, 1} \/ Reps = {Rep0}
    /\ Amount \in Nat \ {0}

Own(s) == {c \in calls : c.session = s}

(* What the session read is the account as it is.                          *)
Fresh(s, i) == i = AccountInfo(chain, Owner[s])

(* The node would accept block b of sender s, with the right work.         *)
Fits(s, b) ==
    /\ b.account = Owner[s] /\ b.previous = Len(chain[Owner[s]])
    /\ b.balance \in 0 .. chain[Owner[s]][b.previous].balance - 1
    /\ b.link = Payee /\ b.order = asked[s]

SenderPlaces ==
    {"start", "info", "ready", "build", "work", "made", "post", "done", "failed"}

(* The call a sender waits for, by the place it waits at.                  *)
CallFits(s, c) ==
    \/ /\ pc[s] = "info" /\ c.rpc = "account_info"
       /\ \A i \in c.answer : Fresh(s, i)
    \/ /\ pc[s] = "work" /\ c.rpc = "work_generate"
       /\ c.work = [root |-> Len(chain[Owner[s]]), difficulty |-> 3]
    \/ /\ pc[s] = "post" /\ c.rpc = "process" /\ c.what.subtype = "send"
       /\ IF c.answered THEN Paid(asked[s])
          ELSE Fits(s, c.what.block) /\ WorkValid(c.what.block, 3)

(* What is true of a sender at each place: what it read is fresh, what it  *)
(* built fits, and once the node has answered it has paid.                 *)
Sender(s) ==
    /\ pc[s] \in SenderPlaces
    /\ asked[s] \in Nat
    /\ pc[s] \in {"build", "work", "made", "post"} => asked[s] # 0
    /\ \A c, d \in Own(s) : c = d
    /\ \A c \in Own(s) : CallFits(s, c)
    /\ pc[s] \in {"ready", "build"} => \A i \in info[s] : Fresh(s, i)
    /\ pc[s] \in {"build", "work", "made"} => \A b \in held[s] : Fits(s, b)
    /\ pc[s] = "made" => \A b \in held[s] : WorkValid(b, 3)
    /\ pc[s] = "done" => Paid(asked[s])

(* A block is of its session's account; one still on its way to the node   *)
(* was given up by a session that has ended with an error.                 *)
Owned ==
    /\ \A s \in Sessions : \A b \in held[s] : b.account = Owner[s]
    /\ \A c \in calls : c.rpc = "process" => c.what.block.account = Owner[c.session]
    /\ \A x \in late : \E s \in Sessions :
         x.block.account = Owner[s] /\ pc[s] = "failed"

Places == SenderPlaces \cup {"list", "loop"}

FlowTypes == pc \in [Sessions -> Places] /\ asked \in [Sessions -> Nat]

AloneInv ==
    /\ FlowIInv /\ FlowTypes /\ Owned
    /\ \A s \in Sessions : Role[s] = "send" => Sender(s)

(* Nothing has been built or called in the first state.                    *)
LEMMA AloneInit == FlowInit => AloneInv
<1> SUFFICES ASSUME FlowInit PROVE AloneInv
  OBVIOUS
<1>1. FlowTypes
  BY DEF FlowInit, FlowTypes, Places, SenderPlaces
<1>2. Owned
  BY DEF FlowInit, Init, Owned
<1>3. ASSUME NEW s \in Sessions PROVE Sender(s)
  BY DEF FlowInit, Init, Sender, SenderPlaces, Own
<1> QED BY <1>1, <1>2, <1>3, FlowInitInv DEF AloneInv

(* The program places and order numbers stay what they are.                *)
LEMMA FlowTypesStep ==
    AloneInv /\ [FlowNext]_flowVars => FlowTypes'
<1> SUFFICES ASSUME AloneInv, [FlowNext]_flowVars PROVE FlowTypes'
  OBVIOUS
<1> USE DEF FlowTypes, Places, SenderPlaces
<1>1. FlowTypes /\ orders \in Seq(Order) /\ calls \subseteq Call
  BY DEF AloneInv, FlowIInv, IInv, TypeInv, TypeOK, Call
<1>2. ASSUME NEW s \in Sessions, NEW place \in Places, Goto(s, place), UNCHANGED asked
      PROVE  FlowTypes'
  BY <1>1, <1>2 DEF Goto
<1>3. ASSUME NEW s \in Sessions, SendStep(s) PROVE FlowTypes'
  <2>1. Len(orders) + 1 \in Nat
    BY <1>1
  <2> QED BY <1>1, <1>3, <2>1 DEF SendStep, Goto
<1>4. ASSUME NEW s \in Sessions, Session(s) \/ Again(s) PROVE FlowTypes'
  BY <1>2, <1>3, <1>4 DEF Session, Again, LoopStep, PutAccountInfo, ListStep, WorkStep,
     PublishStep, From
<1>5. ASSUME NEW c \in calls, Resume(c) \/ Throw(c) PROVE FlowTypes'
  <2>1. c.session \in Sessions
    BY <1>1, CallKinds
  <2> QED BY <1>2, <1>5, <2>1 DEF Resume, Throw, From
<1>6. ASSUME UNCHANGED <<pc, todo, asked>> PROVE FlowTypes'
  BY <1>1, <1>6
<1> QED BY <1>4, <1>5, <1>6 DEF FlowNext, Node, Elsewhere, flowVars

(* A call is paid when a block of the ledger was made for it.              *)
PaidPlaces ==
    \A n : Paid(n) <=> /\ n # 0
                       /\ \E a \in Accounts : \E h \in DOMAIN chain[a] : chain[a][h].order = n

(* Of the positions of a ledger, those of the chains.                      *)
LEMMA PlacesPaid == PaidPlaces
<1> SUFFICES ASSUME NEW n
             PROVE  Paid(n) <=> /\ n # 0
                                /\ \E a \in Accounts : \E h \in DOMAIN chain[a] :
                                     chain[a][h].order = n
  BY DEF PaidPlaces
<1>1. Paid(n) <=> n # 0 /\ \E x \in Positions(chain) : At(chain, x).order = n
  BY DEF Paid, OrdersAt
<1>2. ASSUME NEW x \in Positions(chain)
      PROVE  \E a \in Accounts : \E h \in DOMAIN chain[a] : x = <<a, h>>
  <2>1. PICK a \in Accounts : x \in {a} \X DOMAIN chain[a]
    BY DEF Positions
  <2> QED BY <2>1
<1>3. ASSUME NEW a \in Accounts, NEW h \in DOMAIN chain[a]
      PROVE  <<a, h>> \in Positions(chain) /\ At(chain, <<a, h>>) = chain[a][h]
  BY PositionsIff DEF At
<1>4. ASSUME NEW x \in Positions(chain), At(chain, x).order = n
      PROVE  \E a \in Accounts : \E h \in DOMAIN chain[a] : chain[a][h].order = n
  <2>1. PICK a \in Accounts : \E h \in DOMAIN chain[a] : x = <<a, h>>
    BY <1>2
  <2>2. PICK h \in DOMAIN chain[a] : x = <<a, h>>
    BY <2>1
  <2>3. At(chain, x) = chain[a][h]
    BY <1>3, <2>2
  <2>4. chain[a][h].order = n
    BY <1>4, <2>3
  <2> QED BY <2>4
<1>5. ASSUME NEW a \in Accounts, NEW h \in DOMAIN chain[a], chain[a][h].order = n
      PROVE  \E x \in Positions(chain) : At(chain, x).order = n
  BY <1>3, <1>5
<1> QED BY <1>1, <1>4, <1>5

(* The same of the next state.                                             *)
LEMMA PlacesPaidNext == PaidPlaces'
BY PlacesPaid, PTL

(* What is paid stays paid.                                                *)
LEMMA PaidStays ==
    ASSUME TypeInv, [Next]_vars, NEW n, Paid(n)
    PROVE  Paid(n)'
BY PlacesPaid, PlacesPaidNext, ChainsGrow DEF PaidPlaces

(* A program that ended with an error does nothing more.                   *)
LEMMA FailedStays ==
    ASSUME FlowTypes, [FlowNext]_flowVars, calls \subseteq Call, NEW s \in Sessions,
           pc[s] = "failed"
    PROVE  pc'[s] = "failed"
<1> USE DEF FlowTypes
<1>1. ASSUME NEW t \in Sessions, Session(t) \/ Again(t) PROVE pc'[s] = "failed"
  BY <1>1 DEF Session, Again, SendStep, LoopStep, PutAccountInfo, ListStep, WorkStep,
     PublishStep, From, Goto
<1>2. ASSUME NEW c \in calls, Resume(c) \/ Throw(c) PROVE pc'[s] = "failed"
  BY <1>2 DEF Resume, Throw, From, Goto
<1>3. CASE pc' = pc
  BY <1>3
<1> QED BY <1>1, <1>2, <1>3 DEF FlowNext, Node, Elsewhere, flowVars

(* Blocks keep their account, whatever becomes of them.                    *)
LEMMA OwnedStep == AloneInv /\ [FlowNext]_flowVars => Owned'
<1> SUFFICES ASSUME AloneInv, [FlowNext]_flowVars PROVE Owned'
  OBVIOUS
<1>1. FlowTypes /\ Owned /\ calls \subseteq Call /\ held \in [Sessions -> Optional(Block)]
  BY DEF AloneInv, FlowIInv, IInv, TypeInv, TypeOK, Call
<1>2. \A s \in Sessions : pc[s] = "failed" => pc'[s] = "failed"
  BY <1>1, FailedStays
<1>3. ASSUME NEW t \in Sessions, Session(t) \/ Again(t)
      PROVE  \A s \in Sessions : \A b \in held'[s] : b.account = Owner[s]
  BY <1>1, <1>3 DEF Session, Again, SendStep, LoopStep, PutAccountInfo, ListStep, WorkStep,
     PublishStep, From, SendBlock, ReceiveBlock, GetAccountInfo, GetPendingBlocks,
     GenerateWork, Publish, Start, vars, Owned, BlockFrom
<1>4. ASSUME NEW c \in calls, WorkReturns(c)
      PROVE  \A s \in Sessions : \A b \in held'[s] : b.account = Owner[s]
  <2>1. ASSUME NEW s \in Sessions, NEW b \in held[s] PROVE b \in Block
    BY <1>1 DEF Optional
  <2> QED BY <1>1, <1>4, <2>1 DEF WorkReturns, Owned, Block
<1>5. \A s \in Sessions : \A b \in held'[s] : b.account = Owner[s]
  <2>1. UNCHANGED held => \A s \in Sessions : \A b \in held'[s] : b.account = Owner[s]
    BY <1>1 DEF Owned
  <2>2. ASSUME NEW c \in calls, Node(c) \/ Throw(c) PROVE UNCHANGED held
    BY <2>2 DEF Node, Throw, Serves, NodeAnswersInfo, NodeAnswersPending, NodeProcesses,
       Replace, Fails
  <2>3. ASSUME NEW c \in calls, Resume(c) PROVE WorkReturns(c) \/ UNCHANGED held
    BY <2>3 DEF Resume, AccountInfoReturns, PendingReturns, PublishReturns
  <2>4. Elsewhere \/ UNCHANGED flowVars => UNCHANGED held
    BY DEF Elsewhere, NodeProcessesLate, ChangeElsewhere, flowVars
  <2> QED BY <1>3, <1>4, <2>1, <2>2, <2>3, <2>4 DEF FlowNext
<1>6. ASSUME NEW c \in calls', c.rpc = "process"
      PROVE  c.what.block.account = Owner[c.session]
  <2> DEFINE Good == c.what.block.account = Owner[c.session]
  <2>1. c \in calls => Good
    BY <1>1, <1>6 DEF Owned
  <2>2. ASSUME NEW t \in Sessions, Session(t) \/ Again(t) PROVE Good
    <3>1. CASE \E l \in Lanes : PublishStep(t, l)
      BY <1>1, <2>1, <3>1 DEF PublishStep, Publish, Start, Owned
    <3>2. CASE ~ \E l \in Lanes : PublishStep(t, l)
      BY <1>6, <2>1, <2>2, <3>2 DEF Session, Again, SendStep, LoopStep, PutAccountInfo,
         ListStep, WorkStep, From, SendBlock, ReceiveBlock, GetAccountInfo,
         GetPendingBlocks, GenerateWork, Start, vars
    <3> QED BY <3>1, <3>2
  <2>3. ASSUME NEW d \in calls, Node(d) PROVE Good
    <3>1. CASE NodeAnswersInfo(d) \/ NodeAnswersPending(d)
      <4>1. PICK answer : c = [d EXCEPT !.answer = answer] \/ c \in calls
        BY <3>1 DEF NodeAnswersInfo, NodeAnswersPending, Replace
      <4>2. d \in InfoCall \cup ListCall
        BY <1>1, <3>1, CallKinds DEF NodeAnswersInfo, NodeAnswersPending
      <4>3. c = [d EXCEPT !.answer = answer] => c.rpc # "process"
        BY <4>2 DEF InfoCall, ListCall
      <4> QED BY <1>6, <2>1, <4>1, <4>3
    <3>2. CASE NodeProcesses(d)
      <4>1. d \in PostCall
        BY <1>1, <3>2, CallKinds DEF NodeProcesses
      <4>2. [d EXCEPT !.answered = TRUE].what = d.what
            /\ [d EXCEPT !.answered = TRUE].session = d.session
        BY <4>1 DEF PostCall
      <4> QED BY <1>1, <2>1, <3>2, <4>2 DEF NodeProcesses, Replace, Owned
    <3> QED BY <2>3, <3>1, <3>2 DEF Node, Serves
  <2>4. ASSUME NEW d \in calls, Resume(d) \/ Throw(d) PROVE Good
    BY <2>1, <2>4 DEF Resume, Throw, AccountInfoReturns, PendingReturns, WorkReturns,
       PublishReturns, Fails
  <2>5. Elsewhere \/ UNCHANGED flowVars => Good
    BY <2>1 DEF Elsewhere, NodeProcessesLate, ChangeElsewhere, flowVars
  <2> QED BY <2>2, <2>3, <2>4, <2>5 DEF FlowNext
<1>7. ASSUME NEW x \in late'
      PROVE  \E s \in Sessions : x.block.account = Owner[s] /\ pc'[s] = "failed"
  <2>1. x \in late => \E s \in Sessions : x.block.account = Owner[s] /\ pc'[s] = "failed"
    BY <1>1, <1>2 DEF Owned
  <2>2. ASSUME NEW c \in calls, Throw(c), c.rpc = "process", x = c.what
        PROVE  \E s \in Sessions : x.block.account = Owner[s] /\ pc'[s] = "failed"
    <3>1. c.session \in Sessions
      BY <1>1, CallKinds
    <3>2. pc'[c.session] = "failed"
      BY <1>1, <2>2, <3>1 DEF Throw, Goto, FlowTypes
    <3> QED BY <1>1, <2>2, <3>1, <3>2 DEF Owned
  <2>3. ASSUME NEW c \in calls, Throw(c)
        PROVE  x \in late \/ (c.rpc = "process" /\ x = c.what)
    BY <1>7, <2>3 DEF Throw, Fails
  <2>4. ASSUME NEW t \in Sessions, Session(t) \/ Again(t) PROVE x \in late
    BY <1>7, <2>4 DEF Session, Again, SendStep, LoopStep, PutAccountInfo, ListStep,
       WorkStep, PublishStep, From, SendBlock, ReceiveBlock, GetAccountInfo,
       GetPendingBlocks, GenerateWork, Publish, Start, vars
  <2>5. ASSUME NEW c \in calls, Node(c) \/ Resume(c) PROVE x \in late
    BY <1>7, <2>5 DEF Node, Serves, NodeAnswersInfo, NodeAnswersPending, NodeProcesses,
       Replace, Resume, AccountInfoReturns, PendingReturns, WorkReturns, PublishReturns
  <2>6. Elsewhere \/ UNCHANGED flowVars => x \in late
    BY <1>7 DEF Elsewhere, NodeProcessesLate, ChangeElsewhere, flowVars
  <2> QED BY <2>1, <2>2, <2>3, <2>4, <2>5, <2>6 DEF FlowNext
<1> QED BY <1>5, <1>6, <1>7 DEF Owned

(* The chain of an account changes only when the node processes what its   *)
(* device is waiting for, or what it gave up before it ended.              *)
LEMMA ChainOfOne ==
    ASSUME Alone, AloneInv, [FlowNext]_flowVars, NEW s \in Sessions
    PROVE  \/ chain'[Owner[s]] = chain[Owner[s]]
           \/ pc[s] = "failed"
           \/ \E c \in Own(s) : Node(c)
<1> DEFINE Same == chain'[Owner[s]] = chain[Owner[s]]
<1>1. /\ Owned /\ calls \subseteq Call /\ chain \in [Accounts -> Seq(Entry)]
      /\ Owner \in [Sessions -> Accounts]
  BY ConstantsOK DEF AloneInv, FlowIInv, IInv, TypeInv, TypeOK, Call
<1>2. ASSUME NEW b, NEW type, chain' = Process(chain, b, type), b.account # Owner[s]
      PROVE  Same
  BY <1>1, <1>2 DEF Process
<1>3. ASSUME NEW c \in calls, NodeProcesses(c), c \notin Own(s) PROVE Same
  <2>1. c.session \in Sessions /\ c.session # s
    BY <1>1, <1>3, CallKinds DEF Own
  <2>2. c.what.block.account # Owner[s]
    BY <1>1, <1>3, <2>1 DEF NodeProcesses, Owned, Alone
  <2> QED BY <1>2, <1>3, <2>2 DEF NodeProcesses
<1>4. ASSUME NEW x \in late, NodeProcessesLate(x), pc[s] # "failed" PROVE Same
  <2>1. x.block.account # Owner[s]
    BY <1>1, <1>4 DEF Owned, Alone
  <2> QED BY <1>2, <1>4, <2>1 DEF NodeProcessesLate
<1>5. ASSUME NEW a \in Accounts, NEW rep \in Reps, ChangeElsewhere(a, rep) PROVE FALSE
  <2>1. chain[a] \in Seq(Entry) /\ chain[a] # << >>
    BY <1>1, <1>5 DEF ChangeElsewhere
  <2>2. Len(chain[a]) \in Nat \ {0} /\ chain[a][Len(chain[a])] \in Entry
    BY <2>1, EmptySeq
  <2>3. CASE Reps = {Rep0}
    BY <1>5, <2>2, <2>3 DEF ChangeElsewhere, Entry
  <2>4. CASE ChangeBelow \in {0, 1}
    BY <1>5, <2>2, <2>4 DEF ChangeElsewhere
  <2> QED BY <2>3, <2>4 DEF Alone
<1>6. ASSUME NEW t \in Sessions, Session(t) \/ Again(t) PROVE Same
  BY <1>6 DEF Session, Again, SendStep, LoopStep, PutAccountInfo, ListStep,
     WorkStep, PublishStep, From, SendBlock, ReceiveBlock, GetAccountInfo,
     GetPendingBlocks, GenerateWork, Publish, Start, vars
<1>7. ASSUME NEW c \in calls, (Node(c) /\ ~ NodeProcesses(c)) \/ Resume(c) \/ Throw(c)
      PROVE  Same
  BY <1>7 DEF Node, Serves, NodeAnswersInfo, NodeAnswersPending, Replace, Resume, Throw,
     AccountInfoReturns, PendingReturns, WorkReturns, PublishReturns, Fails
<1>8. UNCHANGED flowVars => Same
  BY DEF flowVars
<1> HIDE DEF Same
<1>9. \/ Same
      \/ pc[s] = "failed"
      \/ \E c \in Own(s) : Node(c)
  BY <1>3, <1>4, <1>5, <1>6, <1>7, <1>8 DEF FlowNext, Elsewhere
<1> QED BY <1>9 DEF Same

(* What a session does, or the node and URLSession do for it.              *)
OwnStep(s) ==
    \/ Session(s) \/ Again(s)
    \/ \E c \in Own(s) : Node(c) \/ Resume(c) \/ Throw(c)

(* Any other step leaves what a session has alone.                         *)
LEMMA OthersStep ==
    ASSUME AloneInv, [FlowNext]_flowVars, NEW s \in Sessions, ~ OwnStep(s)
    PROVE  /\ pc'[s] = pc[s] /\ asked'[s] = asked[s]
           /\ info'[s] = info[s] /\ held'[s] = held[s]
           /\ Own(s)' = Own(s)
<1> DEFINE Kept == /\ pc'[s] = pc[s] /\ asked'[s] = asked[s]
                   /\ info'[s] = info[s] /\ held'[s] = held[s]
           Calls == {c \in calls' : c.session = s}
<1>1. /\ FlowTypes /\ calls \subseteq Call
      /\ held \in [Sessions -> Optional(Block)] /\ info \in [Sessions -> Optional(Info)]
  BY DEF AloneInv, FlowIInv, IInv, TypeInv, TypeOK, Call
<1>2. ASSUME NEW t \in Sessions, Session(t) \/ Again(t) PROVE Kept /\ Calls = Own(s)
  <2>1. t # s
    BY <1>2 DEF OwnStep
  <2>2. Kept
    BY <1>1, <1>2, <2>1 DEF Session, Again, SendStep, LoopStep, PutAccountInfo, ListStep,
       WorkStep, PublishStep, From, Goto, SendBlock, ReceiveBlock, GetAccountInfo,
       GetPendingBlocks, GenerateWork, Publish, Start, vars, FlowTypes
  <2>3. \/ calls' = calls
        \/ \E c : c.session = t /\ calls' = calls \cup {c}
    <3>1. ASSUME NEW c, Start(c) PROVE calls' = calls \cup {c}
      BY <3>1 DEF Start
    <3>2. ASSUME NEW l \in Lanes, PutAccountInfo(t, l) \/ ListStep(t, l)
          PROVE  \E c : c.session = t /\ calls' = calls \cup {c}
      BY <3>1, <3>2 DEF PutAccountInfo, ListStep, GetAccountInfo, GetPendingBlocks
    <3>3. ASSUME NEW l \in Lanes, WorkStep(t, l)
          PROVE  \E c : c.session = t /\ calls' = calls \cup {c}
      <4>1. PICK i \in info[t] :
              Start([rpc |-> "work_generate", session |-> t, lane |-> l,
                     work |-> [root |-> i.frontier, difficulty |-> Difficulty(Role[t])]])
        BY <3>3 DEF WorkStep, GenerateWork
      <4> QED BY <3>1, <4>1
    <3>4. ASSUME NEW l \in Lanes, PublishStep(t, l)
          PROVE  \E c : c.session = t /\ calls' = calls \cup {c}
      <4>1. PICK b \in held[t] :
              Start([rpc |-> "process", session |-> t, lane |-> l,
                     what |-> [block |-> b, subtype |-> Role[t]], answered |-> FALSE])
        BY <3>4 DEF PublishStep, Publish
      <4> QED BY <3>1, <4>1
    <3>5. SendStep(t) \/ LoopStep(t) \/ Again(t) => calls' = calls
      BY DEF SendStep, LoopStep, Again, SendBlock, ReceiveBlock, vars
    <3> QED BY <1>2, <3>2, <3>3, <3>4, <3>5 DEF Session
  <2> QED BY <2>1, <2>2, <2>3 DEF Own
<1>3. ASSUME NEW c \in calls, Node(c) PROVE Kept /\ Calls = Own(s)
  <2>1. c.session # s
    BY <1>3 DEF OwnStep, Own
  <2>2. Kept
    BY <1>3 DEF Node, Serves, NodeAnswersInfo, NodeAnswersPending, NodeProcesses, Replace
  <2>3. \E d : d.session = c.session /\ calls' = (calls \ {c}) \cup {d}
    <3>1. CASE NodeAnswersInfo(c)
      <4>1. [c EXCEPT !.answer = {AccountInfo(chain, Owner[c.session])}].session = c.session
        BY <1>1, <3>1, CallKinds DEF NodeAnswersInfo, InfoCall
      <4> QED BY <3>1, <4>1 DEF NodeAnswersInfo, Replace
    <3>2. CASE NodeAnswersPending(c)
      <4>1. PICK list : calls' = (calls \ {c}) \cup {[c EXCEPT !.answer = {list}]}
        BY <3>2 DEF NodeAnswersPending, Replace
      <4>2. [c EXCEPT !.answer = {list}].session = c.session
        BY <1>1, <3>2, CallKinds DEF NodeAnswersPending, ListCall
      <4> QED BY <4>1, <4>2
    <3>3. CASE NodeProcesses(c)
      <4>1. [c EXCEPT !.answered = TRUE].session = c.session
        BY <1>1, <3>3, CallKinds DEF NodeProcesses, PostCall
      <4> QED BY <3>3, <4>1 DEF NodeProcesses, Replace
    <3> QED BY <1>3, <3>1, <3>2, <3>3 DEF Node, Serves
  <2> QED BY <2>1, <2>2, <2>3 DEF Own
<1>4. ASSUME NEW c \in calls, Resume(c) \/ Throw(c) PROVE Kept /\ Calls = Own(s)
  <2>1. c.session # s
    BY <1>4 DEF OwnStep, Own
  <2>2. Kept
    BY <1>1, <1>4, <2>1 DEF Resume, Throw, From, Goto, AccountInfoReturns, PendingReturns,
       WorkReturns, PublishReturns, Fails, FlowTypes
  <2>3. calls' = calls \ {c}
    BY <1>4 DEF Resume, Throw, AccountInfoReturns, PendingReturns, WorkReturns,
       PublishReturns, Fails
  <2> QED BY <2>1, <2>2, <2>3 DEF Own
<1>5. Elsewhere \/ UNCHANGED flowVars => Kept /\ Calls = Own(s)
  BY DEF Elsewhere, NodeProcessesLate, ChangeElsewhere, flowVars, Own
<1>6. Kept /\ Calls = Own(s)
  <2> HIDE DEF Kept, Calls
  <2> QED BY <1>2, <1>3, <1>4, <1>5 DEF FlowNext
<1>7. Own(s)' = Calls
  BY DEF Own
<1> QED BY <1>6, <1>7

(***************************************************************************)
(* The steps of a sender, place by place.                                  *)
(***************************************************************************)
(* The types these proofs use.                                             *)
FlowRanges ==
    /\ FlowTypes /\ calls \subseteq Call /\ orders \in Seq(Order)
    /\ chain \in [Accounts -> Seq(Entry)] /\ Owner \in [Sessions -> Accounts]
    /\ info \in [Sessions -> Optional(Info)] /\ held \in [Sessions -> Optional(Block)]

(* They are part of the invariant.                                         *)
LEMMA InRanges == AloneInv => FlowRanges
BY ConstantsOK DEF AloneInv, FlowIInv, IInv, TypeInv, TypeOK, Call, FlowRanges

(* A sender has a call only where it waits for one, and one at a time.     *)
LEMMA CallsOfSender ==
    ASSUME NEW s \in Sessions, Sender(s)
    PROVE  /\ pc[s] \notin {"info", "work", "post"} => Own(s) = {}
           /\ \A c : Own(s) = {} /\ c.session = s /\ calls' = calls \cup {c} => Own(s)' = {c}
           /\ \A c \in Own(s) : calls' = calls \ {c} => Own(s)' = {}
           /\ \A c \in Own(s) : \A d :
                d.session = s /\ calls' = (calls \ {c}) \cup {d} => Own(s)' = {d}
           /\ calls' = calls => Own(s)' = Own(s)
<1>1. pc[s] \notin {"info", "work", "post"} => Own(s) = {}
  BY DEF Sender, CallFits
<1>2. \A c \in Own(s) : Own(s) = {c}
  BY DEF Sender
<1>3. Own(s)' = {c \in calls' : c.session = s}
  BY DEF Own
<1>4. calls' = calls => Own(s)' = Own(s)
  BY DEF Own
<1>5. ASSUME NEW c, Own(s) = {}, c.session = s, calls' = calls \cup {c}
      PROVE  Own(s)' = {c}
  BY <1>3, <1>5 DEF Own
<1>6. ASSUME NEW c \in Own(s), calls' = calls \ {c} PROVE Own(s)' = {}
  BY <1>2, <1>3, <1>6 DEF Own
<1>7. ASSUME NEW c \in Own(s), NEW d, d.session = s, calls' = (calls \ {c}) \cup {d}
      PROVE  Own(s)' = {d}
  BY <1>2, <1>3, <1>7 DEF Own
<1> QED BY <1>1, <1>4, <1>5, <1>6, <1>7

(* What others do, a sender does not notice.                               *)
LEMMA OthersSender ==
    ASSUME Alone, AloneInv, [FlowNext]_flowVars, NEW s \in Sessions, Sender(s), ~ OwnStep(s)
    PROVE  Sender(s)'
<1>1. /\ pc'[s] = pc[s] /\ asked'[s] = asked[s] /\ info'[s] = info[s]
      /\ held'[s] = held[s] /\ Own(s)' = Own(s)
  BY OthersStep
<1>2. Paid(asked[s]) => Paid(asked[s])'
  <2>1. TypeInv /\ [Next]_vars
    BY FlowMoves DEF AloneInv, FlowIInv, IInv
  <2>2. ASSUME NEW n, n = asked[s], Paid(n) PROVE Paid(n)'
    BY <2>1, <2>2, PaidStays
  <2> QED BY <1>1, <2>2 DEF Paid
<1>3. CASE pc[s] = "failed"
  <2>1. Own(s) = {}
    BY <1>3, CallsOfSender
  <2> QED BY <1>1, <1>3, <2>1 DEF Sender
<1>4. CASE chain'[Owner[s]] = chain[Owner[s]]
  <2>1. \A i : Fresh(s, i) => Fresh(s, i)'
    BY <1>4 DEF Fresh, AccountInfo
  <2>2. \A b : Fits(s, b) => Fits(s, b)'
    BY <1>1, <1>4 DEF Fits
  <2>3. \A c \in Own(s) : CallFits(s, c)'
    BY <1>1, <1>2, <1>4, <2>1, <2>2 DEF Sender, CallFits
  <2> QED BY <1>1, <1>2, <2>1, <2>2, <2>3 DEF Sender
<1> QED BY <1>3, <1>4, ChainOfOne DEF OwnStep

(* getAccountInfo is called.                                               *)
LEMMA SenderAsksInfo ==
    ASSUME FlowRanges, NEW s \in Sessions, Sender(s), NEW l \in Lanes, PutAccountInfo(s, l)
    PROVE  Sender(s)'
<1> DEFINE c == [rpc |-> "account_info", session |-> s, lane |-> l, answer |-> {}]
<1>1. pc[s] = "start" /\ pc'[s] = "info" /\ asked'[s] = asked[s]
  BY DEF PutAccountInfo, From, Goto, FlowRanges, FlowTypes
<1>2. calls' = calls \cup {c} /\ c.session = s
  BY DEF PutAccountInfo, GetAccountInfo, Start
<1>3. Own(s)' = {c}
  BY <1>1, <1>2, CallsOfSender
<1>4. c.rpc = "account_info" /\ c.answer = {}
  OBVIOUS
<1> HIDE DEF c
<1>5. CallFits(s, c)'
  BY <1>1, <1>4 DEF CallFits
<1> QED BY <1>1, <1>3, <1>5 DEF Sender, SenderPlaces

(* sendBlock builds a block that fits, or throws.                          *)
LEMMA SenderBuilds ==
    ASSUME Alone, FlowRanges, NEW s \in Sessions, Sender(s), SendStep(s)
    PROVE  Sender(s)'
<1>1. pc[s] = "ready" /\ Own(s) = {} /\ Owner[s] \in Accounts
  BY CallsOfSender DEF SendStep, FlowRanges
<1>2. CASE SendBlock(s, Payee, Amount) /\ asked' = [asked EXCEPT ![s] = Len(orders) + 1]
           /\ Goto(s, "build")
  <2>1. pc'[s] = "build" /\ asked'[s] = Len(orders) + 1 /\ Len(orders) \in Nat
    BY <1>2 DEF Goto, FlowRanges, FlowTypes
  <2>2. PICK i \in info[s] :
          /\ Amount <= i.balance
          /\ held' = [held EXCEPT ![s] =
               {BlockFrom(Owner[s], i, i.balance - Amount, Payee, Len(orders) + 1)}]
    BY <1>2 DEF SendBlock
  <2>3. UNCHANGED <<chain, info, calls>>
    BY <1>2 DEF SendBlock
  <2>4. PICK b : /\ b = BlockFrom(Owner[s], i, i.balance - Amount, Payee, Len(orders) + 1)
                 /\ held'[s] = {b}
    BY <2>2 DEF FlowRanges
  <2>5. i = AccountInfo(chain, Owner[s]) /\ i.balance \in Nat
    BY <1>1, <2>2 DEF Sender, Fresh, FlowRanges, Optional, Info
  <2>6. i.frontier = Len(chain[Owner[s]]) /\ i.balance = chain[Owner[s]][i.frontier].balance
    BY <2>5 DEF AccountInfo
  <2>7. i.balance - Amount \in 0 .. i.balance - 1
    BY <2>2, <2>5 DEF Alone
  <2>8. /\ b.account = Owner[s] /\ b.previous = i.frontier
        /\ b.balance = i.balance - Amount /\ b.link = Payee /\ b.order = Len(orders) + 1
    BY <2>4 DEF BlockFrom
  <2>9. Fits(s, b)'
    BY <2>1, <2>3, <2>6, <2>7, <2>8 DEF Fits
  <2>10. \A j \in info'[s] : Fresh(s, j)'
    BY <1>1, <2>3 DEF Sender, Fresh
  <2>11. Own(s)' = {}
    BY <1>1, <2>3 DEF Own
  <2>12. \A d \in held'[s] : Fits(s, d)'
    BY <2>4, <2>9
  <2> QED BY <2>1, <2>10, <2>11, <2>12 DEF Sender, SenderPlaces
<1>3. CASE Goto(s, "failed") /\ UNCHANGED <<vars, todo, asked>>
  <2>1. pc'[s] = "failed" /\ asked'[s] = asked[s] /\ Own(s)' = {}
    BY <1>1, <1>3 DEF Goto, FlowRanges, FlowTypes, vars, Own
  <2> QED BY <2>1 DEF Sender, SenderPlaces
<1> QED BY <1>2, <1>3 DEF SendStep

(* generateWork asks for work on the head of the chain.                    *)
LEMMA SenderAsksWork ==
    ASSUME FlowRanges, NEW s \in Sessions, Sender(s), Role[s] = "send",
           NEW l \in Lanes, WorkStep(s, l)
    PROVE  Sender(s)'
<1>1. pc[s] = "build" /\ pc'[s] = "work" /\ asked'[s] = asked[s]
  BY DEF WorkStep, From, Goto, FlowRanges, FlowTypes
<1>2. PICK i \in info[s] :
        Start([rpc |-> "work_generate", session |-> s, lane |-> l,
               work |-> [root |-> i.frontier, difficulty |-> Difficulty(Role[s])]])
  BY DEF WorkStep, GenerateWork
<1> DEFINE c == [rpc |-> "work_generate", session |-> s, lane |-> l,
                 work |-> [root |-> i.frontier, difficulty |-> Difficulty(Role[s])]]
<1>3. calls' = calls \cup {c} /\ c.session = s /\ UNCHANGED <<chain, held>>
  BY <1>2 DEF Start
<1>4. Own(s)' = {c}
  BY <1>1, <1>3, CallsOfSender
<1>5. i.frontier = Len(chain[Owner[s]])
  BY <1>1 DEF Sender, Fresh, AccountInfo
<1>6. Difficulty(Role[s]) = 3
  BY DEF Difficulty
<1>7. c.rpc = "work_generate" /\ c.work = [root |-> Len(chain[Owner[s]]), difficulty |-> 3]
  BY <1>5, <1>6
<1> HIDE DEF c
<1>8. CallFits(s, c)'
  BY <1>1, <1>3, <1>7 DEF CallFits
<1>9. \A b \in held'[s] : Fits(s, b)'
  BY <1>1, <1>3 DEF Sender, Fits
<1>10. asked[s] \in Nat \ {0}
  BY <1>1 DEF Sender
<1> QED BY <1>1, <1>4, <1>8, <1>9, <1>10 DEF Sender, SenderPlaces

(* publish sends the block, which fits.                                    *)
LEMMA SenderPublishes ==
    ASSUME FlowRanges, NEW s \in Sessions, Sender(s), Role[s] = "send",
           NEW l \in Lanes, PublishStep(s, l)
    PROVE  Sender(s)'
<1>1. pc[s] = "made" /\ pc'[s] = "post" /\ asked'[s] = asked[s]
  BY DEF PublishStep, From, Goto, FlowRanges, FlowTypes
<1>2. PICK b \in held[s] :
        Start([rpc |-> "process", session |-> s, lane |-> l,
               what |-> [block |-> b, subtype |-> Role[s]], answered |-> FALSE])
  BY DEF PublishStep, Publish
<1> DEFINE c == [rpc |-> "process", session |-> s, lane |-> l,
                 what |-> [block |-> b, subtype |-> Role[s]], answered |-> FALSE]
<1>3. calls' = calls \cup {c} /\ c.session = s /\ UNCHANGED chain
  BY <1>2 DEF Start
<1>4. Own(s)' = {c}
  BY <1>1, <1>3, CallsOfSender
<1>5. /\ c.rpc = "process" /\ c.what.block = b /\ c.what.subtype = "send"
      /\ ~ c.answered
  OBVIOUS
<1>6. Fits(s, b)' /\ WorkValid(b, 3)
  BY <1>1, <1>3 DEF Sender, Fits
<1> HIDE DEF c
<1>7. CallFits(s, c)'
  BY <1>1, <1>5, <1>6 DEF CallFits
<1>8. asked[s] \in Nat \ {0}
  BY <1>1 DEF Sender
<1> QED BY <1>1, <1>4, <1>7, <1>8 DEF Sender, SenderPlaces

(* The node answers; a block that fits is accepted, and pays.              *)
LEMMA SenderServed ==
    ASSUME FlowRanges, TypeInv, NEW s \in Sessions, Sender(s),
           NEW c \in Own(s), Node(c)
    PROVE  Sender(s)'
<1>1. /\ UNCHANGED <<pc, asked, held, info>> /\ c \in Call /\ c.session = s
      /\ Owner[s] \in Accounts /\ CallFits(s, c)
  BY DEF Node, Serves, NodeAnswersInfo, NodeAnswersPending, NodeProcesses, Replace,
         FlowRanges, Own, Sender
<1>2. CASE NodeAnswersInfo(c)
  <2> DEFINE i == AccountInfo(chain, Owner[s])
  <2>1. PICK d : /\ d = [c EXCEPT !.answer = {i}]
                 /\ calls' = (calls \ {c}) \cup {d}
    BY <1>1, <1>2 DEF NodeAnswersInfo, Replace
  <2>2. d.session = s /\ d.rpc = "account_info" /\ d.answer = {i}
    BY <1>1, <1>2, <2>1, CallKinds DEF NodeAnswersInfo, InfoCall
  <2>3. chain' = chain /\ pc[s] = "info"
    BY <1>1, <1>2 DEF NodeAnswersInfo, CallFits
  <2>4. Own(s)' = {d}
    <3> HIDE DEF i
    <3> QED BY <2>1, <2>2, CallsOfSender
  <2>5. \A j \in d.answer : Fresh(s, j)'
    BY <2>2, <2>3 DEF Fresh
  <2>6. CallFits(s, d)'
    BY <1>1, <2>2, <2>3, <2>5 DEF CallFits
  <2> HIDE DEF i
  <2> QED BY <1>1, <2>3, <2>4, <2>6 DEF Sender, SenderPlaces
<1>3. CASE NodeProcesses(c)
  <2>1. PICK d : /\ d = [c EXCEPT !.answered = TRUE]
                 /\ calls' = (calls \ {c}) \cup {d}
    BY <1>3 DEF NodeProcesses, Replace
  <2>2. c \in PostCall
    BY <1>1, <1>3, CallKinds DEF NodeProcesses
  <2>3. d.session = s /\ d.rpc = "process" /\ d.answered /\ d.what = c.what
    BY <1>1, <2>1, <2>2 DEF PostCall
  <2>4. Own(s)' = {d}
    BY <2>1, <2>3, CallsOfSender
  <2> DEFINE b == c.what.block  a == Owner[s]
  <2>5. /\ pc[s] = "post" /\ c.what.subtype = "send"
        /\ Fits(s, b) /\ WorkValid(b, 3)
    BY <1>1, <1>3 DEF NodeProcesses, CallFits
  <2>6. Payee \in Accounts
    BY FlowConstants, ConstantsOK
  <2>7. Accepts(chain, b, "send")
    BY <2>5, <2>6 DEF Accepts, IsSend, Fits
  <2>8. chain' = [chain EXCEPT ![a] = Append(@, Recorded(b, "send"))]
    BY <1>3, <2>5, <2>7 DEF NodeProcesses, Process, Fits
  <2>9. chain[a] \in Seq(Entry) /\ chain'[a] = Append(chain[a], Recorded(b, "send"))
    BY <1>1, <2>8 DEF FlowRanges
  <2>10. /\ Len(chain[a]) + 1 \in DOMAIN chain'[a]
         /\ chain'[a][Len(chain[a]) + 1] = Recorded(b, "send")
    BY <2>9
  <2>11. Recorded(b, "send").order = asked[s] /\ asked[s] # 0
    BY <2>5 DEF Recorded, Fits, Sender
  <2>12. ASSUME NEW n, n = asked[s] PROVE Paid(n)'
    <3>1. \E h \in DOMAIN chain'[a] : chain'[a][h].order = n
      BY <2>10, <2>11, <2>12
    <3> QED BY <1>1, <2>11, <2>12, <3>1, PlacesPaidNext DEF PaidPlaces
  <2>13. Paid(asked[s])'
    BY <1>1, <2>12 DEF Paid
  <2>14. CallFits(s, d)'
    BY <1>1, <2>3, <2>5, <2>13 DEF CallFits
  <2>15. asked[s] \in Nat
    BY DEF Sender
  <2> HIDE DEF a, b
  <2> QED BY <1>1, <2>4, <2>5, <2>11, <2>14, <2>15 DEF Sender, SenderPlaces
<1>4. ~ NodeAnswersPending(c)
  BY <1>1 DEF NodeAnswersPending, CallFits
<1> QED BY <1>2, <1>3, <1>4 DEF Node, Serves

(* The call a sender waits for completes.                                  *)
LEMMA SenderResumes ==
    ASSUME FlowRanges, NEW s \in Sessions, Sender(s), Role[s] = "send",
           NEW c \in Own(s), Resume(c)
    PROVE  Sender(s)'
<1>1. c.session = s /\ CallFits(s, c) /\ c \in calls
  BY DEF Own, Sender
<1>2. calls' = calls \ {c} /\ UNCHANGED chain
  BY DEF Resume, AccountInfoReturns, PendingReturns, WorkReturns, PublishReturns
<1>3. Own(s)' = {}
  BY <1>2, CallsOfSender
<1>4. CASE From(s, "info", "ready") /\ AccountInfoReturns(c)
  <2>1. pc'[s] = "ready" /\ asked'[s] = asked[s]
    BY <1>4 DEF From, Goto, FlowRanges, FlowTypes
  <2>2. info'[s] = c.answer
    BY <1>1, <1>4 DEF AccountInfoReturns, FlowRanges
  <2>3. \A i \in c.answer : Fresh(s, i)
    BY <1>1, <1>4 DEF AccountInfoReturns, CallFits
  <2>4. \A i \in info'[s] : Fresh(s, i)'
    BY <1>2, <2>2, <2>3 DEF Fresh
  <2> QED BY <1>3, <2>1, <2>4 DEF Sender, SenderPlaces
<1>5. CASE From(s, "work", "made") /\ WorkReturns(c)
  <2>1. pc[s] = "work" /\ pc'[s] = "made" /\ asked'[s] = asked[s]
    BY <1>5 DEF From, Goto, FlowRanges, FlowTypes
  <2>2. held'[s] = {[b EXCEPT !.work = {c.work}] : b \in held[s]}
    BY <1>1, <1>5 DEF WorkReturns, FlowRanges
  <2>3. c.work = [root |-> Len(chain[Owner[s]]), difficulty |-> 3]
    BY <1>1, <1>5 DEF WorkReturns, CallFits
  <2>4. ASSUME NEW b \in held[s], NEW d, d = [b EXCEPT !.work = {c.work}]
        PROVE  Fits(s, d)' /\ WorkValid(d, 3)
    <3>1. Fits(s, b) /\ b \in Block
      BY <2>1 DEF Sender, FlowRanges, Optional
    <3>2. /\ d.account = b.account /\ d.previous = b.previous /\ d.balance = b.balance
          /\ d.link = b.link /\ d.order = b.order /\ d.work = {c.work}
      BY <2>4, <3>1 DEF Block
    <3>3. Fits(s, d)'
      BY <1>2, <2>1, <3>1, <3>2 DEF Fits
    <3>4. c.work.root = d.previous /\ c.work.difficulty >= 3
      BY <2>3, <3>1, <3>2 DEF Fits
    <3> QED BY <3>2, <3>3, <3>4 DEF WorkValid
  <2>5. \A d \in held'[s] : Fits(s, d)' /\ WorkValid(d, 3)
    BY <2>2, <2>4
  <2>6. asked[s] \in Nat \ {0}
    BY <2>1 DEF Sender
  <2> QED BY <1>3, <2>1, <2>5, <2>6 DEF Sender, SenderPlaces
<1>6. CASE From(s, "post", "done") /\ PublishReturns(c)
  <2>1. pc[s] = "post" /\ pc'[s] = "done" /\ asked'[s] = asked[s]
    BY <1>6 DEF From, Goto, FlowRanges, FlowTypes
  <2>2. Paid(asked[s])
    BY <1>1, <1>6 DEF PublishReturns, CallFits
  <2>3. Paid(asked[s])'
    BY <1>2, <2>1, <2>2 DEF Paid, OrdersAt, Positions, At
  <2> QED BY <1>3, <2>1, <2>3 DEF Sender, SenderPlaces
<1>7. ~ PendingReturns(c)
  BY <1>1 DEF PendingReturns, CallFits
<1> QED BY <1>1, <1>4, <1>5, <1>6, <1>7 DEF Resume

(* Or ends in an error.                                                    *)
LEMMA SenderThrows ==
    ASSUME FlowRanges, NEW s \in Sessions, Sender(s), NEW c \in Own(s), Throw(c)
    PROVE  Sender(s)'
<1>1. pc'[s] = "failed" /\ asked'[s] = asked[s] /\ calls' = calls \ {c}
  BY DEF Throw, Fails, Goto, Own, FlowRanges, FlowTypes
<1>2. Own(s)' = {}
  BY <1>1, CallsOfSender
<1> QED BY <1>1, <1>2 DEF Sender, SenderPlaces

(* So a sender stays one.                                                  *)
LEMMA SenderStep ==
    ASSUME Alone, AloneInv, [FlowNext]_flowVars, NEW s \in Sessions, Role[s] = "send"
    PROVE  Sender(s)'
<1>1. Sender(s) /\ FlowRanges /\ TypeInv
  BY InRanges DEF AloneInv, FlowIInv, IInv
<1>2. CASE Session(s) \/ Again(s)
  <2>1. ~ Again(s) /\ ~ LoopStep(s) /\ \A l \in Lanes : ~ ListStep(s, l)
    BY <1>1 DEF Again, LoopStep, ListStep, Sender, SenderPlaces
  <2> QED BY <1>1, <1>2, <2>1, SenderBuilds, SenderAsksInfo, SenderAsksWork,
             SenderPublishes DEF Session
<1>3. CASE \E c \in Own(s) : Node(c) \/ Resume(c) \/ Throw(c)
  BY <1>1, <1>3, SenderServed, SenderResumes, SenderThrows
<1>4. CASE ~ OwnStep(s)
  BY <1>1, <1>4, OthersSender
<1> QED BY <1>2, <1>3, <1>4 DEF OwnStep

(* The invariant of accounts with one device.                              *)
LEMMA AloneStep ==
    ASSUME Alone
    PROVE  AloneInv /\ [FlowNext]_flowVars => AloneInv'
<1> SUFFICES ASSUME AloneInv, [FlowNext]_flowVars PROVE AloneInv'
  OBVIOUS
<1>1. FlowIInv'
  BY FlowNextInv DEF AloneInv
<1>2. FlowTypes' /\ Owned'
  BY FlowTypesStep, OwnedStep
<1>3. \A s \in Sessions : Role[s] = "send" => Sender(s)'
  BY SenderStep
<1> QED BY <1>1, <1>2, <1>3 DEF AloneInv

(* "if error == nil { // Success }" of the README is right of an account   *)
(* with one device and no other wallet, for any number of accounts, of     *)
(* programs and of calls that fail: a send program that ended without an   *)
(* error has paid.                                                         *)
THEOREM SuccessMeansPaid ==
    ASSUME Alone
    PROVE  FlowSpec => []DoneMeansPaid
<1>1. AloneInv /\ [FlowNext]_flowVars => AloneInv'
  BY AloneStep
<1>2. AloneInv => DoneMeansPaid
  BY DEF AloneInv, Sender, DoneMeansPaid
<1> QED BY AloneInit, <1>1, <1>2, PTL DEF FlowSpec
=============================================================================
