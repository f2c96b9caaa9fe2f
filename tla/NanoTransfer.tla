---------------------------- MODULE NanoTransfer ----------------------------
(***************************************************************************)
(* Moving money with NanoSwift: NanoBlockManager builds blocks from a      *)
(* snapshot of the account, NanoNode fetches snapshots, work and pending   *)
(* blocks from a node and publishes blocks to it.                          *)
(*                                                                         *)
(* A session is one user of the API: a task, or a device.  It holds its    *)
(* own copy of one account, because NanoAccount is a struct, and sessions  *)
(* of the same account share nothing but the node.  A lane is one call a   *)
(* session may have outstanding: with a single lane a session awaits each  *)
(* call (the async methods); with several it starts calls without waiting  *)
(* for the earlier ones (the completion handler methods).                  *)
(*                                                                         *)
(* A call that throws before it reaches the node changes nothing and is    *)
(* the absence of a step.                                                  *)
(***************************************************************************)
EXTENDS NanoLedger, FiniteSets

CONSTANTS
    Sessions, Lanes,
    Owner,              \* Owner[s]: the account session s works with
    Opening,            \* Opening[a]: balance of a's first block, -1 if a has none
    Rep0,               \* representative of the first blocks
    Amounts, Payees,    \* what callers pass to sendBlock; NanoAmount is signed
    Collectors,         \* the sessions that look for pending blocks
    TransactionTypes,   \* the NanoTransactionType values callers pass to publish
    WorkTypes,          \* the NanoWorkType values callers pass to generateWork
    MaxHeight,          \* bound: no block is built past this height
    ChangeBelow,        \* bound: other wallets extend no chain of this height
    MaxOrders,          \* bound: calls of sendBlock
    MaxLate             \* bound: nothing is published while this many requests are late

ASSUME ConstantsOK ==
    /\ Owner \in [Sessions -> Accounts]
    /\ Opening \in [Accounts -> Nat \cup {-1}]
    /\ Rep0 \in Reps
    /\ Amounts \subseteq Int /\ Payees \subseteq Accounts
    /\ TransactionTypes \subseteq {"send", "receive", "open", "change", "epoch"}
    /\ WorkTypes \subseteq {"all", "receive", "send"}

VARIABLES
    chain,    \* the ledger: chain[a] is the sequence of a's blocks
    orders,   \* history: orders[i] is what the i-th successful sendBlock was asked
    info,     \* info[s]: accountInfo of the session's account, nil or one value
    held,     \* held[s]: the block the session has built, nil or one value
    found,    \* found[s]: the result of its last getPendingBlocks
    calls,    \* requests whose completion the sessions still wait for
    late      \* process requests given up by their session, not yet at the node

vars == <<chain, orders, info, held, found, calls, late>>

(***************************************************************************)
(* Types.  An optional is a set with at most one element.                  *)
(***************************************************************************)
Optional(S) == {T \in SUBSET S : \A x, y \in T : x = y}

Order      == [account: Accounts, dest: Payees, amount: Amounts]
Submission == [block: Block, subtype: TransactionTypes]
InfoCall   == [rpc: {"account_info"}, session: Sessions, lane: Lanes,
               answer: Optional(Info)]
WorkCall   == [rpc: {"work_generate"}, session: Sessions, lane: Lanes, work: Work]
ListCall   == [rpc: {"pending"}, session: Sessions, lane: Lanes,
               answer: Optional(SUBSET PendingItem)]
PostCall   == [rpc: {"process"}, session: Sessions, lane: Lanes,
               what: Submission, answered: BOOLEAN]

TypeOK ==
    /\ chain  \in [Accounts -> Seq(Entry)]
    /\ orders \in Seq(Order)
    /\ info   \in [Sessions -> Optional(Info)]
    /\ held   \in [Sessions -> Optional(Block)]
    /\ found  \in [Sessions -> SUBSET PendingItem]
    /\ calls  \subseteq InfoCall \cup WorkCall \cup ListCall \cup PostCall
    /\ late   \subseteq Submission

Init ==
    /\ chain = [a \in Accounts |->
                  IF Opening[a] = -1 THEN << >>
                  ELSE <<[kind |-> "open", representative |-> Rep0,
                          balance |-> Opening[a], link |-> NoLink, order |-> 0]>>]
    /\ orders = << >>
    /\ info   = [s \in Sessions |-> {}]
    /\ held   = [s \in Sessions |-> {}]
    /\ found  = [s \in Sessions |-> {}]
    /\ calls  = {}
    /\ late   = {}

Waiting(s, l) == \E c \in calls : c.session = s /\ c.lane = l

(***************************************************************************)
(* Building blocks (NanoBlockManager).                                     *)
(***************************************************************************)
(* Mutants: the block extends the open block, not the frontier; it votes   *)
(* for a fixed representative; it carries the amount where the balance     *)
(* belongs; a send is addressed to its own account.                        *)
BlockFromOpenBlock(a, i, balance, link, order) ==
    [account |-> a, previous |-> 1, representative |-> i.representative,
     balance |-> balance, link |-> link, work |-> {}, order |-> order]

BlockFixedRepresentative(a, i, balance, link, order) ==
    [account |-> a, previous |-> i.frontier, representative |-> Rep0,
     balance |-> balance, link |-> link, work |-> {}, order |-> order]

BlockOfAmount(a, i, balance, link, order) ==
    [account |-> a, previous |-> i.frontier, representative |-> i.representative,
     balance |-> IF order = 0 THEN balance - i.balance ELSE i.balance - balance,
     link |-> link, work |-> {}, order |-> order]

BlockFrom(a, i, balance, link, order) ==
    [account |-> a, previous |-> i.frontier, representative |-> i.representative,
     balance |-> balance, link |-> link, work |-> {}, order |-> order]

(* sendBlock(from:to:amount:).  Without account info it throws noFrontier, *)
(* with too little balance sendingAccountLowBalance.                       *)
SendBlock(s, to, amount) ==
    \E i \in info[s] :
        /\ amount <= i.balance
        /\ i.frontier < MaxHeight /\ Len(orders) < MaxOrders
        /\ orders' = Append(orders, [account |-> Owner[s], dest |-> to, amount |-> amount])
        /\ held' = [held EXCEPT ![s] =
             {BlockFrom(Owner[s], i, i.balance - amount, to, Len(orders) + 1)}]
        /\ UNCHANGED <<chain, info, found, calls, late>>

(* receiveBlock(for:with:), with a pending block or with its hash and      *)
(* amount.                                                                 *)
ReceiveBlock(s, hash, amount) ==
    \E i \in info[s] :
        /\ i.frontier < MaxHeight
        /\ held' = [held EXCEPT ![s] =
             {BlockFrom(Owner[s], i, i.balance + amount, hash, 0)}]
        /\ UNCHANGED <<chain, orders, info, found, calls, late>>

(***************************************************************************)
(* Calls to the node (NanoNode).                                           *)
(***************************************************************************)
(* Mutant: a lane does not wait for its call.                              *)
StartWithoutWaiting(c) ==
    /\ calls' = calls \cup {c}
    /\ UNCHANGED <<chain, orders, info, held, found, late>>

Start(c) ==
    /\ ~ Waiting(c.session, c.lane)
    /\ calls' = calls \cup {c}
    /\ UNCHANGED <<chain, orders, info, held, found, late>>

GetAccountInfo(s, l) ==
    Start([rpc |-> "account_info", session |-> s, lane |-> l, answer |-> {}])

GetPendingBlocks(s, l) ==
    Start([rpc |-> "pending", session |-> s, lane |-> l, answer |-> {}])

(* Mutant: a send has the difficulty of a receive.                         *)
DifficultyOfReceive(type) ==
    CASE type = "send" -> 1 [] type = "receive" -> 1 [] type = "all" -> 2

Difficulty(type) ==
    CASE type = "send" -> 3 [] type = "receive" -> 1 [] type = "all" -> 2

(* generateWork takes the root from the account info the session holds     *)
(* now, not from a block; without account info it throws                   *)
(* accountInfoDoesNotExist.                                                *)
GenerateWork(s, l, type) ==
    \E i \in info[s] :
        Start([rpc |-> "work_generate", session |-> s, lane |-> l,
               work |-> [root |-> i.frontier, difficulty |-> Difficulty(type)]])

(* Mutant: a block whose account has moved on is put on the new frontier,  *)
(* with a new balance for the amount of its call.                          *)
PublishRebuilt(s, l, subtype) ==
    /\ Cardinality(late) < MaxLate
    /\ \E b \in held[s], i \in info[s] :
        /\ b.work # {} /\ i.frontier <= MaxHeight
        /\ Start([rpc |-> "process", session |-> s, lane |-> l, answered |-> FALSE,
                  what |-> [subtype |-> subtype, block |-> IF b.order = 0 THEN b ELSE
                    [b EXCEPT !.previous = i.frontier,
                              !.balance = i.balance - orders[b.order].amount,
                              !.work = {[w EXCEPT !.root = i.frontier] : w \in @}]]])

(* publish: a block without work is an incompleteBlock error.              *)
Publish(s, l, subtype) ==
    /\ Cardinality(late) < MaxLate
    /\ \E b \in held[s] :
        /\ b.work # {}
        /\ Start([rpc |-> "process", session |-> s, lane |-> l,
                  what |-> [block |-> b, subtype |-> subtype], answered |-> FALSE])

(***************************************************************************)
(* The node serves requests, in any order.                                 *)
(***************************************************************************)
Replace(c, d) ==
    /\ calls' = (calls \ {c}) \cup {d}
    /\ UNCHANGED <<orders, info, held, found, late>>

(* For an account without blocks the node answers with an error, which     *)
(* does not decode as NanoAccountInfo: that call ends in Fails.            *)
NodeAnswersInfo(c) ==
    /\ c.rpc = "account_info" /\ c.answer = {}
    /\ chain[Owner[c.session]] # << >>
    /\ Replace(c, [c EXCEPT !.answer = {AccountInfo(chain, Owner[c.session])}])
    /\ UNCHANGED chain

(* The list may leave items out: unconfirmed ones, those below the         *)
(* threshold, and all of them when "blocks" does not decode, because       *)
(* NanoPendingResponse reads that as an empty list.                        *)
NodeAnswersPending(c) ==
    /\ c.rpc = "pending" /\ c.answer = {}
    /\ \E list \in SUBSET PendingOf(chain, Owner[c.session]) :
         Replace(c, [c EXCEPT !.answer = {list}])
    /\ UNCHANGED chain

NodeProcesses(c) ==
    /\ c.rpc = "process" /\ ~ c.answered
    /\ chain' = Process(chain, c.what.block, c.what.subtype)
    /\ Replace(c, [c EXCEPT !.answered = TRUE])

(* A request whose session has stopped waiting may still reach the node.   *)
NodeProcessesLate(x) ==
    /\ chain' = Process(chain, x.block, x.subtype)
    /\ late' = late \ {x}
    /\ UNCHANGED <<orders, info, held, found, calls>>

(***************************************************************************)
(* Completions.                                                            *)
(***************************************************************************)
(* Mutants: the new account info is put beside the old one; its balance is *)
(* only taken the first time.                                              *)
AccountInfoAdded(c) ==
    /\ c.rpc = "account_info" /\ c.answer # {}
    /\ calls' = calls \ {c}
    /\ info' = [info EXCEPT ![c.session] = @ \cup c.answer]
    /\ UNCHANGED <<chain, orders, held, found, late>>

AccountInfoKeepsBalance(c) ==
    /\ c.rpc = "account_info" /\ c.answer # {}
    /\ calls' = calls \ {c}
    /\ info' = [info EXCEPT ![c.session] =
         IF @ = {} THEN c.answer
         ELSE {[i EXCEPT !.balance = j.balance] : i \in c.answer, j \in @}]
    /\ UNCHANGED <<chain, orders, held, found, late>>

AccountInfoReturns(c) ==
    /\ c.rpc = "account_info" /\ c.answer # {}
    /\ calls' = calls \ {c}
    /\ info' = [info EXCEPT ![c.session] = c.answer]
    /\ UNCHANGED <<chain, orders, held, found, late>>

(* The caller puts the work into the block it holds.                       *)
WorkReturns(c) ==
    /\ c.rpc = "work_generate"
    /\ calls' = calls \ {c}
    /\ held' = [held EXCEPT ![c.session] = {[b EXCEPT !.work = {c.work}] : b \in @}]
    /\ UNCHANGED <<chain, orders, info, found, late>>

PendingReturns(c) ==
    /\ c.rpc = "pending" /\ c.answer # {}
    /\ calls' = calls \ {c}
    /\ found' = [found EXCEPT ![c.session] = UNION c.answer]
    /\ UNCHANGED <<chain, orders, info, held, late>>

(* publish reads only the HTTP status: it ends without an error whether or *)
(* not the node accepted the block.                                        *)
PublishReturns(c) ==
    /\ c.rpc = "process" /\ c.answered
    /\ calls' = calls \ {c}
    /\ UNCHANGED <<chain, orders, info, held, found, late>>

(* Any call may end in an error, before or after the node served it.       *)
Fails(c) ==
    /\ calls' = calls \ {c}
    /\ late' = IF c.rpc = "process" /\ ~ c.answered THEN late \cup {c.what} ELSE late
    /\ UNCHANGED <<chain, orders, info, held, found>>

(***************************************************************************)
(* Another wallet of the same account votes for another representative.    *)
(***************************************************************************)
ChangeElsewhere(a, rep) ==
    /\ chain[a] # << >> /\ Len(chain[a]) < ChangeBelow
    /\ rep # chain[a][Len(chain[a])].representative
    /\ chain' = [chain EXCEPT ![a] = Append(@,
         [kind |-> "change", representative |-> rep,
          balance |-> @[Len(@)].balance, link |-> NoLink, order |-> 0])]
    /\ UNCHANGED <<orders, info, held, found, calls, late>>

Builds(s) ==
    \/ \E to \in Payees, amount \in Amounts : SendBlock(s, to, amount)
    \/ \E p \in found[s] : ReceiveBlock(s, p.hash, p.amount)

Starts(s, l) ==
    \/ GetAccountInfo(s, l)
    \/ s \in Collectors /\ GetPendingBlocks(s, l)
    \/ \E type \in WorkTypes : GenerateWork(s, l, type)
    \/ \E subtype \in TransactionTypes : Publish(s, l, subtype)

Serves(c) ==
    \/ NodeAnswersInfo(c)
    \/ NodeAnswersPending(c)
    \/ NodeProcesses(c)

Returns(c) ==
    \/ AccountInfoReturns(c)
    \/ WorkReturns(c)
    \/ PendingReturns(c)
    \/ PublishReturns(c)
    \/ Fails(c)

Next ==
    \/ \E s \in Sessions : Builds(s)
    \/ \E s \in Sessions, l \in Lanes : Starts(s, l)
    \/ \E c \in calls : Serves(c) \/ Returns(c)
    \/ \E x \in late : NodeProcessesLate(x)
    \/ \E a \in Accounts, rep \in Reps : ChangeElsewhere(a, rep)

Spec == Init /\ [][Next]_vars

(***************************************************************************)
(* Safety.                                                                 *)
(***************************************************************************)
(* What a session may rely on after any delay: a snapshot is one state its *)
(* account really had, a pending item is a send to its account.            *)
Snapshot(a, i) ==
    /\ i.frontier \in DOMAIN chain[a]
    /\ i.balance = chain[a][i.frontier].balance
    /\ i.representative = chain[a][i.frontier].representative

SentTo(a, x, amount) ==
    /\ x \in Positions(chain)
    /\ At(chain, x).kind = "send" /\ At(chain, x).link = a
    /\ amount = Sent(chain, x)

(* Balance, representative and frontier always belong together: account    *)
(* info (NanoNode.swift getAccountInfo, putAccountInfo) that a session     *)
(* holds or that is on its way is one past state of its account, however   *)
(* the chain has grown since, and a pending item names a send to that      *)
(* account with the amount that was sent.                                  *)
SnapshotsConsistent ==
    /\ \A s \in Sessions : \A i \in info[s] : Snapshot(Owner[s], i)
    /\ \A s \in Sessions : \A p \in found[s] : SentTo(Owner[s], p.hash, p.amount)
    /\ \A c \in calls :
         /\ c.rpc = "account_info" =>
              \A i \in c.answer : Snapshot(Owner[c.session], i)
         /\ c.rpc = "pending" =>
              \A list \in c.answer : \A p \in list : SentTo(Owner[c.session], p.hash, p.amount)

(* The blocks that may still reach the ledger.                             *)
Posts     == {c \in calls : c.rpc = "process"}
BlocksOut == (UNION {held[s] : s \in Sessions})
                \cup {c.what.block : c \in Posts} \cup {x.block : x \in late}

(* A block does to the state it extends what its call asked for.           *)
AsAsked(b) ==
    LET prev == chain[b.account][b.previous] IN
    /\ b.previous \in DOMAIN chain[b.account]
    /\ b.representative = prev.representative
    /\ \/ /\ b.order \in DOMAIN orders
          /\ orders[b.order] = [account |-> b.account, dest |-> b.link,
                                amount |-> prev.balance - b.balance]
       \/ b.order = 0 /\ SentTo(b.account, b.link, b.balance - prev.balance)

(* Every block a session holds, is publishing or has given up on was built *)
(* from one snapshot (NanoBlockManager.swift sendBlock, receiveBlock) and  *)
(* moves, from the state it extends, exactly the amount of its call.       *)
BlocksAsAsked == \A b \in BlocksOut : AsAsked(b)

(* The same of the ledger, whatever two sessions of an account did to each *)
(* other in between: a block of the library takes exactly the amount of    *)
(* its sendBlock call, a positive one, to the account that call named, or  *)
(* collects exactly what was sent to the account, and never undoes a       *)
(* change of representative made elsewhere.                                *)
LedgerAsAsked ==
    \A a \in Accounts : \A h \in DOMAIN chain[a] \ {1} :
        LET e == chain[a][h]  prev == chain[a][h - 1] IN
        /\ e.kind # "change" => e.representative = prev.representative
        /\ e.kind = "send" =>
             /\ e.order \in DOMAIN orders
             /\ orders[e.order] = [account |-> a, dest |-> e.link,
                                   amount |-> prev.balance - e.balance]
             /\ orders[e.order].amount > 0
        /\ e.kind = "receive" => SentTo(a, e.link, e.balance - prev.balance)

(* No sendBlock call is paid twice, although its block may be published    *)
(* any number of times, by retries and by requests that were given up and  *)
(* arrive late (NanoNode.swift publish).                                   *)
PaidOnce ==
    \A x, y \in Positions(chain) :
        At(chain, x).order = At(chain, y).order /\ At(chain, x).order # 0 => x = y

(* What makes PaidOnce inductive: all copies of a sendBlock call's block   *)
(* claim one position of one chain, the one it has in the ledger if any.   *)
OnePosition ==
    \A b \in BlocksOut : b.order # 0 =>
        /\ \A d \in BlocksOut : d.order = b.order =>
             d.account = b.account /\ d.previous = b.previous
        /\ \A x \in Positions(chain) : At(chain, x).order = b.order =>
             x = <<b.account, b.previous + 1>>

(* While every call is awaited (one lane) the account info of a session    *)
(* never goes back to an older state of its chain: the answers come in the *)
(* order of the calls (NanoNode.swift putAccountInfo, async).              *)
InfoMonotone ==
    [][\A s \in Sessions : \A i \in info[s], j \in info'[s] : i.frontier <= j.frontier]_vars

(***************************************************************************)
(* The implemented abstraction.                                            *)
(***************************************************************************)
BalanceOf(a) == IF chain[a] = << >> THEN 0 ELSE chain[a][Len(chain[a])].balance

OrdersAt(P) == {At(chain, x).order : x \in P} \ {0}

Payments == INSTANCE NanoPayments WITH
    Orders    <- Order,
    Opening   <- [a \in Accounts |-> IF Opening[a] = -1 THEN 0 ELSE Opening[a]],
    balance   <- [a \in Accounts |-> BalanceOf(a)],
    paid      <- OrdersAt(Positions(chain)),
    collected <- OrdersAt({x \in Positions(chain) : Collected(chain, x)})

(* Blocks built from snapshots, raced, retried, delayed and dropped amount *)
(* to payments that are made at most once and collected at most once, by   *)
(* whoever they were addressed to (NanoBlockManager.swift sendBlock,       *)
(* receiveBlock; NanoNode.swift publish).                                  *)
ImplementsPayments == Payments!Spec
=============================================================================
