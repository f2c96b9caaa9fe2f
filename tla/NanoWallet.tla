----------------------------- MODULE NanoWallet -----------------------------
(***************************************************************************)
(* A NanoWallet and its NanoAccountArray, as the callers of                *)
(* NanoWalletManager and NanoAccountManager use them.                      *)
(*                                                                         *)
(* An account is the seed and index it was derived from and its type: key  *)
(* derivation is a function of these and does not fail.  The array is a    *)
(* set: its order only matters to the subscript, which takes the first of  *)
(* several accounts of one index, and UniqueIndices excludes that.         *)
(*                                                                         *)
(* newAccount(from:) and newAccount(for:) hand out an account that is in   *)
(* no wallet; its holder may append it at any later time, after others     *)
(* have changed the wallet.  UInt32(accountIndex) traps when the index     *)
(* does not fit: the process ends.                                         *)
(***************************************************************************)
EXTENDS Integers, FiniteSets

CONSTANTS
    MaxIndex,    \* UInt32.max
    Seeds, Own,  \* seeds, and the one of the wallet
    Types,       \* NanoType
    MaxDrafts    \* bound: accounts held outside the wallet

ASSUME WalletConstants == MaxIndex \in Nat /\ Own \in Seeds /\ "nano" \in Types

Index   == 0 .. MaxIndex
Account == [index : Index, seed : Seeds, type : Types]

VARIABLES
    accounts,  \* the accounts of the wallet
    drafts,    \* accounts handed out and still held
    last       \* the last call, the index it asked for and its outcome

vars == <<accounts, drafts, last>>

Calls    == {"newWallet", "from", "for", "into", "append", "remove"}
Outcomes == {"ok", "indexAlreadyExists", "trap"}

WalletTypeOK ==
    /\ accounts \subseteq Account
    /\ drafts \subseteq Account
    /\ last \in [call : Calls, asked : SUBSET Index, outcome : Outcomes]

(***************************************************************************)
(* NanoAccountArray.                                                       *)
(***************************************************************************)
Subscript(array, i) == {x \in array : x.index = i}
Contains(array, i)  == Subscript(array, i) # {}

(* Mutant: the place of the last account, not its index.                   *)
LastPlace(array) == Cardinality(array) - 1

LastIndex(array) ==
    IF array = {} THEN -1
    ELSE (CHOOSE x \in array : \A y \in array : y.index <= x.index).index

(***************************************************************************)
(* Calls.  "asked" is the optional index argument.                         *)
(***************************************************************************)
Running == last.outcome # "trap"

Ends(call, asked, outcome) ==
    Running /\ last' = [call |-> call, asked |-> asked, outcome |-> outcome]

(* newWallet(seed:withBaseAccount:type:).  The type is that of the base    *)
(* account; NanoWallet.type is always nano.                                *)
NewWallet ==
    /\ \/ accounts = {}
       \/ \E type \in Types : accounts = {[index |-> 0, seed |-> Own, type |-> type]}
    /\ drafts = {}
    /\ last = [call |-> "newWallet", asked |-> {}, outcome |-> "ok"]

(* newAccount(from:index:type:).                                           *)
NewAccountFrom(seed, i, type) ==
    /\ Cardinality(drafts) < MaxDrafts
    /\ drafts' = drafts \cup {[index |-> i, seed |-> seed, type |-> type]}
    /\ Ends("from", {i}, "ok") /\ UNCHANGED accounts

(* The account newAccount(for:) and newAccount(into:) derive: they count   *)
(* on from the last index and do not look at the index they are given.     *)
NextIndex   == LastIndex(accounts) + 1
NextAccount == [index |-> NextIndex, seed |-> Own, type |-> "nano"]

(* newAccount(for:index:).                                                 *)
NewAccountFor(asked) ==
    /\ UNCHANGED accounts
    /\ \/ NextIndex > MaxIndex /\ Ends("for", asked, "trap") /\ UNCHANGED drafts
       \/ /\ NextIndex <= MaxIndex /\ Contains(accounts, NextIndex)
          /\ Ends("for", asked, "indexAlreadyExists") /\ UNCHANGED drafts
       \/ /\ NextIndex <= MaxIndex /\ ~ Contains(accounts, NextIndex)
          /\ Cardinality(drafts) < MaxDrafts
          /\ Ends("for", asked, "ok") /\ drafts' = drafts \cup {NextAccount}

(* Mutants: append does not look for the index; it replaces what it finds. *)
AppendAlways(account, call, asked) ==
    Ends(call, asked, "ok") /\ accounts' = accounts \cup {account}

AppendReplaces(account, call, asked) ==
    /\ Ends(call, asked, "ok")
    /\ accounts' = (accounts \ Subscript(accounts, account.index)) \cup {account}

(* NanoAccountArray.append.                                                *)
AppendAccount(account, call, asked) ==
    \/ /\ Contains(accounts, account.index)
       /\ Ends(call, asked, "indexAlreadyExists") /\ UNCHANGED accounts
    \/ /\ ~ Contains(accounts, account.index)
       /\ Ends(call, asked, "ok") /\ accounts' = accounts \cup {account}

(* Mutant: the next index is not checked against UInt32.max.               *)
NewAccountIntoUnchecked(asked) ==
    UNCHANGED drafts /\ AppendAccount(NextAccount, "into", asked)

(* newAccount(into:index:).                                                *)
NewAccountInto(asked) ==
    /\ UNCHANGED drafts
    /\ \/ NextIndex > MaxIndex /\ Ends("into", asked, "trap") /\ UNCHANGED accounts
       \/ NextIndex <= MaxIndex /\ AppendAccount(NextAccount, "into", asked)

(* The holder of an account appends it and may keep its copy.              *)
AppendDraft(draft) ==
    AppendAccount(draft, "append", {}) /\ drafts' \in {drafts, drafts \ {draft}}

Remove(i) ==
    /\ accounts' = {x \in accounts : x.index # i}
    /\ Ends("remove", {i}, "ok") /\ UNCHANGED drafts

Next ==
    \/ \E seed \in Seeds, i \in Index, type \in Types : NewAccountFrom(seed, i, type)
    \/ \E asked \in {{}} \cup {{i} : i \in Index} :
         NewAccountFor(asked) \/ NewAccountInto(asked)
    \/ \E draft \in drafts : AppendDraft(draft)
    \/ \E i \in Index : Remove(i)

Spec == NewWallet /\ [][Next]_vars

(***************************************************************************)
(* Properties.                                                             *)
(***************************************************************************)
(* However accounts are derived, held back, appended and removed, an index *)
(* of the wallet names one account (NanoAccountArray.swift append).        *)
UniqueIndices ==
    \A x, y \in accounts : x.index = y.index => x = y

(* An account that was held while the wallet changed never takes the place *)
(* of another one: what the subscript gives for an index stays the same    *)
(* until that index is removed (NanoAccountArray.swift subscript, append). *)
NeverReplaced ==
    [][\A i \in Index : Contains(accounts, i) /\ Contains(accounts', i) =>
         Subscript(accounts', i) = Subscript(accounts, i)]_vars

(* Counting on from the last index always finds a free one, also after     *)
(* removals and appends out of order: newAccount(for:) and                 *)
(* newAccount(into:) may throw indexAlreadyExists only when they were      *)
(* asked for an index of the wallet (NanoAccountArray.swift lastIndex).    *)
CountsToFreeIndex ==
    last.call \in {"for", "into"} /\ last.outcome = "indexAlreadyExists" =>
        \E i \in last.asked : Contains(accounts, i)

(* README.md:50-54 of newAccount(into:index:), "If the account you want to *)
(* access does not exist, you can add an account to your wallet just like  *)
(* this", which fails with indexAlreadyExists "if an account with the      *)
(* specified index already exists in the wallet": an index that is taken   *)
(* is refused, and what a success adds is the account of that index.       *)
IndexHonoured ==
    [][last'.call = "into" =>
         \A i \in last'.asked :
            /\ Contains(accounts, i) => last'.outcome = "indexAlreadyExists"
            /\ last'.outcome = "ok" => {x.index : x \in accounts' \ accounts} = {i}]_vars

(* README.md, newAccount(into:) "could possibly fail with" one of two      *)
(* errors: it never ends the process.                                      *)
FailsWithError == last.call = "into" => Running
=============================================================================
