-------------------------- MODULE AccountMovements --------------------------
(* One delegator's account as db-sync's tables tell it:                     *)
(* getAccountTransfers, getAccountNow and getDelegatorStakeHistory of       *)
(* src/src/data/dbsync-query.js. db-sync records a spend in tx_in, in       *)
(* tx_out.consumed_by_tx_id, or in both, and an installation may change     *)
(* between transactions. A transaction is its position in the chain; at     *)
(* most one of its outputs is the account's, which bears its number.        *)
EXTENDS Integers, Sequences, FiniteSets, FiniteSetsExt

CONSTANTS
    None,
    Values,      \* lovelace an output may hold
    RowLimit,    \* TRANSFER_ROW_LIMIT (300)
    PayDelay,    \* epochs before a reward can be withdrawn
    MaxTxs,      \* bound: transactions
    MaxRewards,  \* bound: rewards
    MaxEpoch,    \* bound: epochs
    Disturb,     \* bound: what may happen, out of "fail"
    MaxDisturb   \* bound: how often

VARIABLES
    txs,       \* the account's transactions: output, spent outputs, withdrawal, record
    credits,   \* reward and reward_rest
    epoch,     \* the newest block's epoch
    held,      \* the ledger: the account's unspent outputs
    purse,     \* the ledger: its reward account
    shown,     \* getAccountNow's last answer, and the ledger it was asked of
    left       \* disturbances left

vars == <<txs, credits, epoch, held, purse, shown, left>>

Init ==
    /\ txs = <<>> /\ credits = <<>> /\ epoch = 0 /\ held = {} /\ purse = 0
    /\ shown = None /\ left = MaxDisturb

Disturbed(kind) == kind \in Disturb /\ left > 0 /\ left' = left - 1

Txs == DOMAIN txs

-----------------------------------------------------------------------------
(* The chain.                                                              *)

\* A transaction pays the account, spends outputs of it, withdraws all its rewards, or
\* does several of these; a node records its spends in one table or in both.
Transact ==
    /\ Len(txs) < MaxTxs
    /\ \E value \in {0} \union Values, spends \in SUBSET held,
          withdrawn \in {0, purse}, how \in {{"tx_in"}, {"consumed"}, {"tx_in", "consumed"}} :
          /\ value > 0 \/ spends # {} \/ withdrawn > 0
          /\ spends = {} => how = {"tx_in"}
          /\ txs' = Append(txs, [value |-> value, spends |-> spends, withdrawn |-> withdrawn,
                                 how |-> how])
          /\ held' = (held \ spends) \union (IF value > 0 THEN {Len(txs) + 1} ELSE {})
          /\ purse' = purse - withdrawn
    /\ UNCHANGED <<credits, epoch, shown, left>>

\* A reward, or a payout of the treasury or the reserves, is earned; it can be withdrawn
\* later.
Earn ==
    /\ Len(credits) < MaxRewards
    /\ \E amount \in Values, table \in {"reward", "reward_rest"} :
          credits' = Append(credits, [amount |-> amount, table |-> table,
                                      spendable |-> epoch + PayDelay])
    /\ UNCHANGED <<txs, epoch, held, purse, shown, left>>

Sum(S) == MapThenSumSet(LAMBDA i : credits[i].amount, S)

EpochTurns ==
    /\ epoch < MaxEpoch /\ epoch' = epoch + 1
    /\ purse' = purse + Sum({i \in DOMAIN credits : credits[i].spendable = epoch + 1})
    /\ UNCHANGED <<txs, credits, held, shown, left>>

-----------------------------------------------------------------------------
(* getAccountTransfers.                                                    *)

Outs == {i \in Txs : txs[i].value > 0}
RowsOf(table) == {r \in Txs \X Outs : r[2] \in txs[r[1]].spends /\ table \in txs[r[1]].how}
SumOf(rows) == MapThenSumSet(LAMBDA r : txs[r[2]].value, rows)

\* Mutant: UNION ALL.
SpentTwice(i) ==
    SumOf({r \in RowsOf("tx_in") : r[1] = i}) + SumOf({r \in RowsOf("consumed") : r[1] = i})

\* What transaction i spends: the rows of both tables, an output once.
Spent(i) == SumOf({r \in RowsOf("tx_in") \union RowsOf("consumed") : r[1] = i})

Net(i) == txs[i].value - Spent(i) - txs[i].withdrawn

\* Transactions with an output received or spent; the newest of them; those that moved
\* something.
Ids == Outs \union {r[1] : r \in RowsOf("tx_in") \union RowsOf("consumed")}
Newest == {i \in Ids : Cardinality({j \in Ids : j > i}) < RowLimit}
Transfers == {i \in Newest : Net(i) # 0}
TransfersTruncated == Cardinality(Transfers) >= RowLimit

-----------------------------------------------------------------------------
(* getAccountNow.                                                          *)

Utxo ==
    MapThenSumSet(LAMBDA o : txs[o].value,
                  Outs \ {r[2] : r \in RowsOf("tx_in") \union RowsOf("consumed")})

Withdrawn == MapThenSumSet(LAMBDA i : txs[i].withdrawn, Txs)

\* Mutant: what was earned counts at once.
SpendableAtOnce(tables) == Sum({i \in DOMAIN credits : credits[i].table \in tables})

Spendable(tables) ==
    Sum({i \in DOMAIN credits : credits[i].table \in tables /\ credits[i].spendable <= epoch})

Available(tables) ==
    IF Spendable(tables) > Withdrawn THEN Spendable(tables) - Withdrawn ELSE 0

\* The whole query; if it fails the one without the outputs, then the one without
\* reward_rest. After the third there is no answer.
Ask ==
    /\ \/ shown' = [utxo |-> Utxo, available |-> Available({"reward", "reward_rest"}), whole |-> TRUE]
          /\ UNCHANGED left
       \/ Disturbed("fail") /\ \E tables \in {{"reward", "reward_rest"}, {"reward"}} :
             shown' = [utxo |-> None, available |-> Available(tables), whole |-> FALSE]
       \/ Disturbed("fail") /\ shown' = None
    /\ UNCHANGED <<txs, credits, epoch, held, purse>>

Next == Transact \/ Earn \/ EpochTurns \/ Ask

Spec == Init /\ [][Next]_vars

-----------------------------------------------------------------------------
(* Properties.                                                             *)

TypeOK ==
    /\ epoch \in 0..MaxEpoch /\ held \subseteq Txs /\ purse \in Nat
    /\ \A i \in Txs : /\ txs[i].value \in {0} \union Values /\ txs[i].spends \subseteq 1..(i - 1)
                      /\ txs[i].withdrawn \in Nat
                      /\ txs[i].how \subseteq {"tx_in", "consumed"}
    /\ \A i \in DOMAIN credits : credits[i].amount \in Values
    /\ shown = None \/ shown.available \in Nat
    /\ left \in 0..MaxDisturb

Owned == MapThenSumSet(LAMBDA o : txs[o].value, held) + purse

\* The movements of all listed transactions explain what the account owns: together with
\* the rewards paid out, and the withdrawals of transactions that moved nothing else, the
\* nets are the ledger's balance, in whatever table the spends were recorded
\* (getAccountTransfers).
NetsExplainTheBalance ==
    MapThenSumSet(Net, Ids) - MapThenSumSet(LAMBDA i : txs[i].withdrawn, Txs \ Ids)
        + Sum({i \in DOMAIN credits : credits[i].spendable <= epoch}) = Owned

\* What an account can spend is never overstated, also when a query failed and a narrower
\* one was asked, and the whole answer is the ledger's (getAccountNow).
RealIfAsked ==
    Ask => shown' = None
           \/ /\ shown'.available <= purse
              /\ shown'.whole => shown'.utxo + shown'.available = Owned
SpendableIsReal == [][RealIfAsked]_vars

\* A list not said to be truncated holds every transfer ("UI says so rather than implying
\* completeness").
CompleteIsComplete == TransfersTruncated \/ Transfers = {i \in Ids : Net(i) # 0}
=============================================================================
