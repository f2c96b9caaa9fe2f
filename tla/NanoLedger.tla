----------------------------- MODULE NanoLedger -----------------------------
(***************************************************************************)
(* The node behind NanoSwift, as the library uses it.  The node is not     *)
(* part of the repository: everything here is external and is modelled     *)
(* from the requests NanoNode.swift sends, the answers it decodes and the  *)
(* block fields NanoBlockManager.swift fills in.                           *)
(*                                                                         *)
(* Every account has a chain of blocks of its own.  A block hash is        *)
(* abstracted to the position of the block, <<account, height>>: the       *)
(* ledger keeps at most one block per position, so positions identify the  *)
(* blocks it holds.  All operators take the ledger "ch" as a parameter,    *)
(* because an answer is computed from the ledger as it is when the node    *)
(* serves the request.                                                     *)
(***************************************************************************)
EXTENDS Integers, Sequences

CONSTANTS
    Accounts,   \* accounts (public keys)
    Reps,       \* representatives an account may vote through
    NoLink      \* the zero link of a change block

Hashes == Accounts \X (Nat \ {0})
Links  == Accounts \cup Hashes \cup {NoLink}

(* A public key is never a block hash, nor the zero link.                  *)
ASSUME LinksAreDistinct ==
    /\ Accounts \cap Hashes = {}
    /\ NoLink \notin Accounts \cup Hashes

Heights == Nat \ {0}

(* A block of the ledger.  "order" is history: the number of the sendBlock *)
(* call that asked for it, 0 for every other block.                        *)
Entry == [kind: {"open", "send", "receive", "change"}, representative: Reps,
          balance: Nat, link: Links, order: Nat]

Work  == [root: Heights, difficulty: {1, 2, 3}]

(* NanoStateBlock as the library builds it.  "previous" is the height of   *)
(* the block it extends; "work" has no element (nil) or one; the balance   *)
(* is an integer because NanoAmount is signed.  "order" is the history     *)
(* field of Entry.  Account, hash and signature stand and fall together:   *)
(* the block managers always fill in all three.                            *)
Block == [account: Accounts, previous: Heights, representative: Reps,
          balance: Int, link: Links, work: SUBSET Work, order: Nat]

Info        == [frontier: Heights, balance: Nat, representative: Reps]
PendingItem == [hash: Hashes, amount: Int]

(***************************************************************************)
(* What can be read off a ledger.                                          *)
(***************************************************************************)
Positions(ch) == UNION {{a} \X DOMAIN ch[a] : a \in Accounts}
At(ch, x)     == ch[x[1]][x[2]]

(* The amount a block at position x takes out of its account.              *)
Sent(ch, x) == ch[x[1]][x[2] - 1].balance - ch[x[1]][x[2]].balance

Collected(ch, x) ==
    \E y \in Positions(ch) : At(ch, y).kind = "receive" /\ At(ch, y).link = x

Receivable(ch, a) ==
    {x \in Positions(ch) : /\ At(ch, x).kind = "send"
                           /\ At(ch, x).link = a
                           /\ ~ Collected(ch, x)}

(* The answer to account_info, for an account that has a block.            *)
AccountInfo(ch, a) ==
    [frontier       |-> Len(ch[a]),
     balance        |-> ch[a][Len(ch[a])].balance,
     representative |-> ch[a][Len(ch[a])].representative]

(* The longest answer to pending; include_only_confirmed and the threshold *)
(* may leave any of the items out.                                         *)
PendingOf(ch, a) == {[hash |-> x, amount |-> Sent(ch, x)] : x \in Receivable(ch, a)}

(***************************************************************************)
(* What the node accepts.                                                  *)
(***************************************************************************)
WorkValid(b, threshold) ==
    \E w \in b.work : w.root = b.previous /\ w.difficulty >= threshold

IsSend(ch, b) ==
    /\ b.balance \in 0 .. ch[b.account][b.previous].balance - 1
    /\ b.link \in Accounts
    /\ WorkValid(b, 3)

IsReceive(ch, b) ==
    /\ b.balance > ch[b.account][b.previous].balance
    /\ b.link \in Receivable(ch, b.account)
    /\ b.balance = ch[b.account][b.previous].balance + Sent(ch, b.link)
    /\ WorkValid(b, 1)

(* process: the block extends the head of its chain, it is what "subtype"  *)
(* says it is, and its work is for its own root.                           *)
Accepts(ch, b, subtype) ==
    /\ b.previous = Len(ch[b.account])
    /\ \/ subtype = "send"    /\ IsSend(ch, b)
       \/ subtype = "receive" /\ IsReceive(ch, b)

Recorded(b, subtype) ==
    [kind |-> subtype, representative |-> b.representative, balance |-> b.balance,
     link |-> b.link, order |-> b.order]

Process(ch, b, subtype) ==
    IF Accepts(ch, b, subtype)
    THEN [ch EXCEPT ![b.account] = Append(@, Recorded(b, subtype))]
    ELSE ch
=============================================================================
