------------------------------ MODULE NanoFlows ------------------------------
(***************************************************************************)
(* The two programs of the README over NanoTransfer: "Send 0.3 Nano from   *)
(* one account to another" and "Receive all pending transactions".  Each   *)
(* session runs one of them, awaiting every call; an error of any call     *)
(* ends the function that made it.                                         *)
(*                                                                         *)
(* The control state of a session is where its function is:                *)
(*   start, info, ready, list, loop, build, work, made, post, done, failed *)
(* where info, list, work and post wait for a call.                        *)
(***************************************************************************)
EXTENDS NanoTransfer

CONSTANTS
    Role,       \* Role[s]: "send" or "receive"
    Payee,      \* whom the senders pay
    Amount,     \* and how much
    MayFail     \* whether calls may end in an error

(* What the programs pass to the calls they make.                          *)
ASSUME FlowConstants ==
    /\ \A s \in Sessions : Role[s] \in {"send", "receive"}
    /\ \A s \in Sessions : Role[s] = "receive" => s \in Collectors
    /\ Payee \in Payees /\ Amount \in Amounts
    /\ {"send", "receive"} \subseteq WorkTypes \cap TransactionTypes

VARIABLES
    pc,     \* where each session is
    todo,   \* todo[s]: the pending blocks its loop has not come to yet
    asked   \* asked[s]: the number of its sendBlock call, 0 before

flowVars == <<chain, orders, info, held, found, calls, late, pc, todo, asked>>

FlowInit ==
    /\ Init
    /\ pc = [s \in Sessions |-> "start"]
    /\ todo = [s \in Sessions |-> {}]
    /\ asked = [s \in Sessions |-> 0]

Goto(s, place) == pc' = [pc EXCEPT ![s] = place]

(* The step of function s from one place to the next.                      *)
From(s, here, there) == pc[s] = here /\ Goto(s, there) /\ UNCHANGED <<todo, asked>>

PutAccountInfo(s, l) == From(s, "start", "info") /\ GetAccountInfo(s, l)

(* sendBlock, or its throw: sendingAccountLowBalance.                      *)
SendStep(s) ==
    /\ Role[s] = "send" /\ pc[s] = "ready"
    /\ \/ /\ SendBlock(s, Payee, Amount)
          /\ asked' = [asked EXCEPT ![s] = Len(orders) + 1]
          /\ Goto(s, "build") /\ UNCHANGED todo
       \/ /\ \A i \in info[s] : ~ (Amount <= i.balance)
          /\ Goto(s, "failed") /\ UNCHANGED <<vars, todo, asked>>

ListStep(s, l) ==
    Role[s] = "receive" /\ From(s, "ready", "list") /\ GetPendingBlocks(s, l)

(* Mutant: the loop does not move on to the next block.                    *)
LoopStepAgain(s) ==
    /\ pc[s] = "loop" /\ UNCHANGED asked
    /\ \/ \E p \in todo[s] :
            /\ ReceiveBlock(s, p.hash, p.amount)
            /\ Goto(s, "build") /\ UNCHANGED todo
       \/ /\ todo[s] = {}
          /\ Goto(s, "done") /\ UNCHANGED <<vars, todo>>

(* One round of the loop: a block of the list, in no particular order      *)
(* because the list is made from a dictionary, or its end.                 *)
LoopStep(s) ==
    /\ pc[s] = "loop" /\ UNCHANGED asked
    /\ \/ \E p \in todo[s] :
            /\ ReceiveBlock(s, p.hash, p.amount)
            /\ todo' = [todo EXCEPT ![s] = @ \ {p}]
            /\ Goto(s, "build")
       \/ /\ todo[s] = {}
          /\ Goto(s, "done") /\ UNCHANGED <<vars, todo>>

WorkStep(s, l)    == From(s, "build", "work") /\ GenerateWork(s, l, Role[s])
PublishStep(s, l) == From(s, "made", "post") /\ Publish(s, l, Role[s])

(* The call a session waits for completes.                                 *)
Resume(c) ==
    LET s == c.session IN
    \/ From(s, "info", "ready") /\ AccountInfoReturns(c)
    \/ /\ pc[s] = "list" /\ PendingReturns(c)
       /\ todo' = [todo EXCEPT ![s] = UNION c.answer]
       /\ Goto(s, "loop") /\ UNCHANGED asked
    \/ From(s, "work", "made") /\ WorkReturns(c)
    \/ From(s, "post", IF Role[s] = "send" THEN "done" ELSE "loop") /\ PublishReturns(c)

Throw(c) ==
    /\ MayFail \/ (c.rpc = "account_info" /\ chain[Owner[c.session]] = << >>)
    /\ Fails(c) /\ Goto(c.session, "failed") /\ UNCHANGED <<todo, asked>>

Session(s) ==
    \/ SendStep(s)
    \/ LoopStep(s)
    \/ \E l \in Lanes : \/ PutAccountInfo(s, l)
                        \/ ListStep(s, l)
                        \/ WorkStep(s, l)
                        \/ PublishStep(s, l)

(* A receiver may run its function again after it ended: wallets poll.     *)
Again(s) ==
    Role[s] = "receive" /\ From(s, "done", "start") /\ UNCHANGED vars

Node(c) == Serves(c) /\ UNCHANGED <<pc, todo, asked>>

Elsewhere ==
    /\ \/ \E x \in late : NodeProcessesLate(x)
       \/ \E a \in Accounts, rep \in Reps : ChangeElsewhere(a, rep)
    /\ UNCHANGED <<pc, todo, asked>>

FlowNext ==
    \/ \E s \in Sessions : Session(s) \/ Again(s)
    \/ \E c \in calls : Node(c) \/ Resume(c) \/ Throw(c)
    \/ Elsewhere

(* A function runs on, and URLSession completes every task: with the       *)
(* answer of the node or with an error, at the latest its own timeout.     *)
Fairness ==
    /\ \A s \in Sessions : WF_flowVars(Session(s))
    /\ \A s \in Sessions :
         WF_flowVars(\E c \in calls : c.session = s /\ (Node(c) \/ Resume(c) \/ Throw(c)))

FlowSpec == FlowInit /\ [][FlowNext]_flowVars /\ Fairness

(* A receiver that polls for ever, and a node that does not leave a        *)
(* receivable block out of its answers for ever: sends get confirmed.      *)
FullList(c) ==
    /\ Node(c) /\ c.rpc = "pending"
    /\ \E d \in calls' \ calls : d.answer = {PendingOf(chain, Owner[c.session])}

Polling ==
    \A s \in Sessions : /\ WF_flowVars(Again(s))
                         /\ SF_flowVars(\E c \in calls : c.session = s /\ FullList(c))

FlowPollingSpec == FlowSpec /\ Polling

(***************************************************************************)
(* Properties.                                                             *)
(***************************************************************************)
Ended(s) == pc[s] \in {"done", "failed"}
Paid(n)  == n \in OrdersAt(Positions(chain))

(* Whatever the node answers and whoever else uses the account, each       *)
(* function comes to an end: no call is left without a completion, also    *)
(* when the node refused the block.                                        *)
EveryFlowEnds == \A s \in Sessions : <>Ended(s)

(* README.md, Publish block: "if error == nil { // Success }".  A send     *)
(* function that ended without an error has paid.                          *)
DoneMeansPaid ==
    \A s \in Sessions : Role[s] = "send" /\ pc[s] = "done" => Paid(asked[s])

(* README.md, "Receive all pending transactions": when the function ends   *)
(* without an error, every pending transaction it was given is received.   *)
AllReceived ==
    \A s \in Sessions :
        Role[s] = "receive" /\ pc[s] = "done" =>
            \A p \in found[s] : Collected(chain, p.hash)

(* One device per account and no failing call: the send function pays, so  *)
(* balance, previous, root and difficulty of what the library builds are   *)
(* what the node asks for (NanoBlockManager.swift sendBlock, NanoNode.swift*)
(* generateWork, publish).                                                 *)
SenderPays == \A s \in Sessions : Role[s] = "send" => <>Paid(asked[s])

(* And a receiver that polls collects it.                                  *)
ReceiverCollects ==
    \A s, r \in Sessions :
        Role[s] = "send" /\ Role[r] = "receive" /\ Owner[r] = Payee =>
            <>(\E x \in Positions(chain) : /\ At(chain, x).order = asked[s]
                                           /\ asked[s] # 0
                                           /\ Collected(chain, x))
=============================================================================
