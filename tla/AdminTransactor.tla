-------------------------- MODULE AdminTransactor --------------------------
(***************************************************************************)
(* The mint transactions of the one admin account, between the server that *)
(* sends them and the chain that executes them.  The server asks the node  *)
(* for the account's next nonce (a slot here), sends, and never looks at   *)
(* the receipt.  server/gateways/ethereum/client.go and go-ethereum.       *)
(*                                                                         *)
(* A slot at or below `mined` has been executed; a slot above it is in the *)
(* node's pool when it holds a transaction.                                *)
(***************************************************************************)
EXTENDS KnowtfolioContract

CONSTANTS
    MaxSlot,   \* the account nonces the model has room for
    NoTx       \* no transaction in a slot

VARIABLES
    txs,     \* slot -> the transaction in it
    mined    \* how many slots the chain has executed

transactorVars == <<txs, mined>>

Slots == 1..MaxSlot

Transaction == [to: Accounts, article: Articles]

ASSUME SlotAssumption == MaxSlot \in Nat
ASSUME TransactionAssumption == NoTx \notin Transaction

TransactorTypeOK ==
    /\ txs \in [Slots -> Transaction \cup {NoTx}]
    /\ mined \in Nat

TransactorInit ==
    /\ txs = [s \in Slots |-> NoTx]
    /\ mined = 0

-----------------------------------------------------------------------------
\* The pending state: what the pool executes once everything before it is in.
Executable(s) ==
    /\ s > mined
    /\ \A k \in Slots : mined < k /\ k <= s => txs[k] # NoTx

\* PendingNonceAt: the first free slot.
IsPendingNonce(s) ==
    /\ s \in Slots /\ s > mined
    /\ txs[s] = NoTx
    /\ \A k \in Slots : mined < k /\ k < s => txs[k] # NoTx

\* EstimateGas runs the call on the pending state and fails when it reverts.
EstimateFails(a) ==
    \/ MintReverts(a)
    \/ \E s \in Slots : Executable(s) /\ txs[s].article = a

\* SendTransaction, into a slot that is free or in place of what is there when
\* the suggested gas price has risen enough since.
SendTransaction(s, tx) ==
    /\ s > mined
    /\ txs' = [txs EXCEPT ![s] = tx]
    /\ UNCHANGED mined

\* SendTransaction refused: the slot is executed, or taken by a transaction
\* that the new one does not outbid.
SendRefused(s) == s <= mined \/ txs[s] # NoTx

\* The chain executes the next transaction; a mint that reverts uses its slot.
MineNext ==
    \E s \in Slots :
        /\ s = mined + 1
        /\ txs[s] # NoTx
        /\ mined' = s
        /\ \/ mintNFT(txs[s].to, txs[s].article)
           \/ MintReverts(txs[s].article) /\ UNCHANGED contractVars
        /\ UNCHANGED txs

\* The node forgets a pooled transaction (eviction, restart).
DropTransaction(s) ==
    /\ s > mined
    /\ txs[s] # NoTx
    /\ txs' = [txs EXCEPT ![s] = NoTx]
    /\ UNCHANGED mined
=============================================================================
