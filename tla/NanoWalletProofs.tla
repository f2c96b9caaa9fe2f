-------------------------- MODULE NanoWalletProofs --------------------------
(***************************************************************************)
(* Proofs about NanoWallet.  UniqueIndices is inductive with the type of   *)
(* the accounts; that counting on finds a free index needs that a bounded  *)
(* non-empty set of indices has a greatest element.                        *)
(***************************************************************************)
EXTENDS NanoWallet, WellFoundedInduction, TLAPS

(* The array of a wallet has a greatest index: "sorted.last" exists.       *)
LEMMA GreatestExists ==
    ASSUME NEW S \in SUBSET Account, S # {}
    PROVE  \E x \in S : \A y \in S : y.index <= x.index
<1> DEFINE Gaps == {MaxIndex - x.index : x \in S}
<1>1. Gaps \in SUBSET Nat /\ Gaps # {}
  BY WalletConstants DEF Account, Index
<1>2. PICK g \in Gaps : \A h \in Gaps : ~ (<<h, g>> \in OpToRel(<, Nat))
  <2>1. IsWellFoundedOn(OpToRel(<, Nat), Nat)
    BY NatLessThanWellFounded
  <2> QED BY <1>1, <2>1, WFMin
<1>3. PICK x \in S : g = MaxIndex - x.index
  OBVIOUS
<1>4. ASSUME NEW y \in S PROVE y.index <= x.index
  <2>1. MaxIndex - y.index \in Gaps
    OBVIOUS
  <2>2. ~ (MaxIndex - y.index < g)
    BY <1>1, <1>2, <2>1 DEF OpToRel
  <2> QED BY <1>3, <2>2, WalletConstants DEF Account, Index
<1> QED BY <1>4

(* lastIndex is -1 or at least every index, so the next one is free.       *)
LEMMA NextIsFree ==
    ASSUME accounts \subseteq Account
    PROVE  /\ NextIndex \in Nat
           /\ ~ Contains(accounts, NextIndex)
<1>1. CASE accounts = {}
  BY <1>1 DEF NextIndex, LastIndex, Contains, Subscript
<1>2. CASE accounts # {}
  <2> DEFINE top == CHOOSE x \in accounts : \A y \in accounts : y.index <= x.index
  <2>1. \E x \in accounts : \A y \in accounts : y.index <= x.index
    BY <1>2, GreatestExists
  <2>2. top \in accounts /\ \A y \in accounts : y.index <= top.index
    BY <2>1
  <2>3. NextIndex = top.index + 1
    BY <1>2 DEF NextIndex, LastIndex
  <2>4. \A y \in accounts : y.index \in Nat
    BY WalletConstants DEF Account, Index
  <2> HIDE DEF top
  <2>5. \A y \in accounts : y.index # NextIndex
    BY <2>2, <2>3, <2>4
  <2> QED BY <2>2, <2>3, <2>4, <2>5 DEF Contains, Subscript
<1> QED BY <1>1, <1>2
-----------------------------------------------------------------------------
(* What the code does where README.md:54 promises an error: no call is     *)
(* refused because of its index, whether that is in the wallet or not.     *)
NeverRefused ==
    last.call \in {"for", "into"} => last.outcome # "indexAlreadyExists"

WInv == WalletTypeOK /\ UniqueIndices /\ NeverRefused

(* A new wallet satisfies the invariant.                                   *)
LEMMA InitWInv == NewWallet => WInv
BY WalletConstants
DEF NewWallet, WInv, WalletTypeOK, UniqueIndices, NeverRefused,
    Account, Index, Calls, Outcomes

(* The account that newAccount(for:) and newAccount(into:) derive is one.  *)
LEMMA NextAccountType ==
    ASSUME WInv, NextIndex <= MaxIndex
    PROVE  NextAccount \in Account /\ ~ Contains(accounts, NextIndex)
<1>1. NextIndex \in Nat /\ ~ Contains(accounts, NextIndex)
  BY NextIsFree DEF WInv, WalletTypeOK
<1> QED BY <1>1, WalletConstants DEF NextAccount, Account, Index

(* append adds an account of a free index, or throws and adds nothing.     *)
LEMMA AppendStep ==
    ASSUME WInv, NEW account \in Account, NEW call \in Calls, NEW asked \in SUBSET Index,
           AppendAccount(account, call, asked), call \notin {"for", "into"}
                                          \/ ~ Contains(accounts, account.index)
    PROVE  /\ accounts' \subseteq Account
           /\ UniqueIndices' /\ NeverRefused'
           /\ last' \in [call : Calls, asked : SUBSET Index, outcome : Outcomes]
<1>1. accounts' \subseteq Account
  BY DEF AppendAccount, WInv, WalletTypeOK
<1>2. UniqueIndices'
  BY DEF AppendAccount, WInv, UniqueIndices, Contains, Subscript
<1>3. /\ NeverRefused'
      /\ last' \in [call : Calls, asked : SUBSET Index, outcome : Outcomes]
  BY DEF AppendAccount, Ends, NeverRefused, Outcomes
<1> QED BY <1>1, <1>2, <1>3

(* Every call preserves the invariant.                                     *)
LEMMA NextWInv == WInv /\ [Next]_vars => WInv'
<1> SUFFICES ASSUME WInv, [Next]_vars PROVE WInv'
  OBVIOUS
<1> USE DEF WInv
<1>1. ASSUME NEW seed \in Seeds, NEW i \in Index, NEW type \in Types,
             NewAccountFrom(seed, i, type)
      PROVE  WInv'
  BY <1>1
  DEF NewAccountFrom, Ends, WalletTypeOK, UniqueIndices, NeverRefused,
      Account, Calls, Outcomes
<1>2. ASSUME NEW asked \in SUBSET Index, NewAccountFor(asked)
      PROVE  WInv'
  <2>1. drafts' \subseteq Account
    BY <1>2, NextAccountType DEF NewAccountFor, WalletTypeOK
  <2>2. last'.outcome # "indexAlreadyExists"
    BY <1>2, NextAccountType DEF NewAccountFor, Ends
  <2>3. last' \in [call : Calls, asked : SUBSET Index, outcome : Outcomes]
    BY <1>2 DEF NewAccountFor, Ends, Calls, Outcomes
  <2>4. accounts' = accounts
    BY <1>2 DEF NewAccountFor
  <2> QED BY <2>1, <2>2, <2>3, <2>4
          DEF WalletTypeOK, UniqueIndices, NeverRefused
<1>3. ASSUME NEW asked \in SUBSET Index, NewAccountInto(asked)
      PROVE  WInv'
  <2>1. CASE NextIndex > MaxIndex /\ Ends("into", asked, "trap") /\ UNCHANGED accounts
    BY <1>3, <2>1
    DEF NewAccountInto, Ends, WalletTypeOK, UniqueIndices, NeverRefused,
        Calls, Outcomes
  <2>2. CASE NextIndex <= MaxIndex /\ AppendAccount(NextAccount, "into", asked)
    <3>1. NextAccount \in Account /\ ~ Contains(accounts, NextAccount.index)
      BY <2>2, NextAccountType DEF NextAccount
    <3>2. "into" \in Calls
      BY DEF Calls
    <3>3. drafts' = drafts
      BY <1>3 DEF NewAccountInto
    <3> QED BY <2>2, <3>1, <3>2, <3>3, AppendStep DEF WalletTypeOK
  <2> QED BY <1>3, <2>1, <2>2 DEF NewAccountInto
<1>4. ASSUME NEW draft \in drafts, AppendDraft(draft)
      PROVE  WInv'
  <2>1. /\ draft \in Account /\ "append" \in Calls /\ {} \in SUBSET Index
        /\ "append" \notin {"for", "into"}
    BY DEF WalletTypeOK, Calls
  <2>2. AppendAccount(draft, "append", {}) /\ drafts' \in {drafts, drafts \ {draft}}
    BY <1>4 DEF AppendDraft
  <2> QED BY <2>1, <2>2, AppendStep DEF WalletTypeOK
<1>5. ASSUME NEW i \in Index, Remove(i)
      PROVE  WInv'
  BY <1>5
  DEF Remove, Ends, WalletTypeOK, UniqueIndices, NeverRefused, Calls, Outcomes
<1>6. CASE UNCHANGED vars
  BY <1>6 DEF vars, WalletTypeOK, UniqueIndices, NeverRefused
<1> QED
  <2>1. \A asked \in {{}} \cup {{i} : i \in Index} : asked \in SUBSET Index
    OBVIOUS
  <2> QED BY <1>1, <1>2, <1>3, <1>4, <1>5, <1>6, <2>1 DEF Next

(* The subscript never changes its answer in one call.                     *)
LEMMA SubscriptStep ==
    ASSUME WInv, [Next]_vars, NEW i \in Index,
           Contains(accounts, i), Contains(accounts', i)
    PROVE  Subscript(accounts', i) = Subscript(accounts, i)
<1>1. ASSUME NEW account, NEW call, NEW asked, AppendAccount(account, call, asked)
      PROVE  Subscript(accounts', i) = Subscript(accounts, i)
  <2>1. CASE accounts' = accounts
    BY <2>1
  <2>2. CASE accounts' = accounts \cup {account} /\ ~ Contains(accounts, account.index)
    <3>1. account.index # i
      BY <2>2
    <3> QED BY <2>2, <3>1 DEF Subscript
  <2> QED BY <1>1, <2>1, <2>2 DEF AppendAccount
<1>2. ASSUME NEW j \in Index, Remove(j)
      PROVE  Subscript(accounts', i) = Subscript(accounts, i)
  <2>1. i # j
    BY <1>2 DEF Remove, Contains, Subscript
  <2> QED BY <1>2, <2>1 DEF Remove, Subscript
<1>3. \/ accounts' = accounts
      \/ \E account, call, asked : AppendAccount(account, call, asked)
      \/ \E j \in Index : Remove(j)
  BY DEF Next, NewAccountFrom, NewAccountFor, NewAccountInto, AppendDraft, vars
<1> QED BY <1>1, <1>2, <1>3
-----------------------------------------------------------------------------
(* Every reachable state satisfies the invariant.                          *)
LEMMA WalletInvariant == Spec => []WInv
BY InitWInv, NextWInv, PTL DEF Spec

(* The variables keep their types.                                         *)
THEOREM WalletTypeCorrect == Spec => []WalletTypeOK
BY WalletInvariant, PTL DEF WInv

(* NanoAccountArray never holds two accounts of one index, for any number  *)
(* of seeds, types and held accounts.                                      *)
THEOREM IndicesUnique == Spec => []UniqueIndices
BY WalletInvariant, PTL DEF WInv

(* The error indexAlreadyExists of newAccount(for:) and newAccount(into:)  *)
(* cannot be reached: their checks look at the next index, which is free,  *)
(* and never at the one that is asked for, also when that one is taken.    *)
THEOREM IndexErrorUnreachable == Spec => []NeverRefused
BY WalletInvariant, PTL DEF WInv

(* Counting on finds a free index: a call that asks for none, or for one   *)
(* that is free, is not refused.                                           *)
THEOREM FreeIndexFound == Spec => []CountsToFreeIndex
<1>1. WInv => CountsToFreeIndex
  BY DEF WInv, NeverRefused, CountsToFreeIndex
<1> QED BY <1>1, WalletInvariant, PTL

(* No account takes the place of another without a remove in between.      *)
THEOREM NoReplacement == Spec => NeverReplaced
<1>1. WInv /\ [Next]_vars =>
        [\A i \in Index : Contains(accounts, i) /\ Contains(accounts', i) =>
           Subscript(accounts', i) = Subscript(accounts, i)]_vars
  BY SubscriptStep
<1> QED BY <1>1, WalletInvariant, PTL DEF Spec, NeverReplaced
=============================================================================
