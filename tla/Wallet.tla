------------------------------- MODULE Wallet -------------------------------
(***************************************************************************)
(* Spending and depositing from a wallet (packages/client/src/ops): a      *)
(* payment is planned as a chain of merges and one last transaction, each  *)
(* leg proved against what the indexer serves and sent to the pool by the  *)
(* connected wallet (packages/client-evm/src/connection/writes.ts) or, for *)
(* a withdrawal, by the relayer (apps/relayer/src/relay.ts); a deposit     *)
(* approves the pool and deposits; a payroll (apps/payroll-web) merges     *)
(* until one note covers the sheet and disburses it.                       *)
(*                                                                         *)
(* Several pages hold the key of one account.  The indexer lags behind the *)
(* chain, a transaction lands or reverts whenever the chain gets to it,    *)
(* any call may fail, and a call that took effect may go unheard.          *)
(*                                                                         *)
(* A note is the leaf it landed at and its value; a transaction carries    *)
(* the leaves it spends and the notes it makes.  Every pool transaction    *)
(* appends leaves, so two reads saw one root exactly when they saw the     *)
(* chain at one height; the paths of a leg are read at one height.         *)
(***************************************************************************)
EXTENDS Integers, FiniteSets, Sequences, Functions

CONSTANTS Device,            \* the pages that hold the account's key
          Purses,            \* the values of the notes the account may begin with
          Asks,              \* what the user of each page may ask for
          Tokens,            \* the account's tokens outside the pool
          TRANSFER10_ARITY,  \* the most notes a transfer or a merge spends
          MaxPolls,          \* the polls that fit a wait for a merged note
          MaxRuns            \* bound on the runs

\* A deposit to oneself, and one to a payee whose keys a name gave (the consumer family).
Deposits == {"deposit", "depositPriv"}

ASSUME WalletAssumption ==
    /\ Purses \subseteq Seq(Nat)
    /\ Asks \in [Device -> SUBSET
                   [kind : {"transfer", "withdraw", "disburse"} \cup Deposits,
                    amount : Nat \ {0}, relayed : BOOLEAN]]
    /\ TRANSFER10_ARITY \in Nat \ {0, 1}
    /\ {Tokens, MaxPolls, MaxRuns} \subseteq Nat

VARIABLES purse,   \* the notes the account began with
          txs,     \* the transactions sent, for which leg of which run, and what became of them
          log,     \* those that landed, in order
          token,   \* the account's tokens and the pool's allowance over them
          height,  \* how much of the log the indexer has replayed
          view,    \* the height each page's notes were loaded at
          runs     \* the runs, in the order they were started

chainVars == <<txs, log, token>>
walletVars == <<purse, chainVars, height, view, runs>>

NoTx == 0  \* a run that has sent nothing for the leg it is at

-----------------------------------------------------------------------------
(* Notes.                                                                  *)

\* A note a plan may select: one that is there, or one that a merge will make.
Selectable == [leaf : Int, value : Nat]

Total(notes) == SumFunctionOnSet([n \in Selectable |-> n.value], notes)

\* A transaction's output: what it is worth, and whether the account can spend it.
Out(value, mine) == [value |-> value, mine |-> mine]

\* The leaves at a height, and the notes among them that the account may spend.
Leaves(h) ==
    LET leaves[k \in 0..Len(log)] ==
            IF k = 0 THEN [i \in DOMAIN purse |-> Out(purse[i], TRUE)]
                     ELSE leaves[k - 1] \o txs[log[k]].outs
    IN  leaves[h]
SpentAt(h) == UNION {txs[log[k]].ins : k \in 1..h}
NotesAt(h) == {[leaf |-> i, value |-> Leaves(h)[i].value] :
                   i \in {j \in DOMAIN Leaves(h) : Leaves(h)[j].mine /\ j \notin SpentAt(h)}}

-----------------------------------------------------------------------------
(* Planning.                                                               *)

Before(m, n) == m.value > n.value \/ (m.value = n.value /\ m.leaf < n.leaf)

\* The k largest, the older first of two that are worth the same.
unspentLargestFirst(notes, k) == {n \in notes : Cardinality({m \in notes : Before(m, n)}) < k}

\* The fewest of the largest notes that cover the amount.
selectInputNotes(notes, amount) ==
    CHOOSE k \in 1..Cardinality(notes) : /\ Total(unspentLargestFirst(notes, k)) >= amount
                                         /\ Total(unspentLargestFirst(notes, k - 1)) < amount

terminalArity(kind) == [transfer |-> TRANSFER10_ARITY, withdraw |-> 2, disburse |-> 1][kind]

\* The note a merge leg will make, by the leg; it has no leaf yet.
pendingLeaf(leg) == 0 - leg

Fold(working) == unspentLargestFirst(working, TRANSFER10_ARITY)

\* Mutant: one note of the fold stays in the working set.
UnfoldedAndOne(working) == working \ unspentLargestFirst(working, TRANSFER10_ARITY - 1)

Unfolded(working) == working \ Fold(working)

\* What the wallet will hold after each leg if it folds the largest notes into one.
workingSets(notes) ==
    LET working[leg \in 0..Cardinality(notes)] ==
            IF leg = 0 THEN notes
            ELSE Unfolded(working[leg - 1])
                     \cup {[leaf |-> pendingLeaf(leg), value |-> Total(Fold(working[leg - 1]))]}
    IN  working

Payable(kind, notes, amount) == selectInputNotes(notes, amount) <= terminalArity(kind)

\* Fold until the last transaction can cover the amount, and no further.
planSpendChain(kind, notes, amount) ==
    LET working == workingSets(notes)
        merges == CHOOSE m \in DOMAIN working :
                      /\ Payable(kind, working[m], amount)
                      /\ \A l \in 0..(m - 1) : ~Payable(kind, working[l], amount)
        funds == unspentLargestFirst(working[merges], selectInputNotes(working[merges], amount))
    IN  [leg \in 1..(merges + 1) |->
            IF leg <= merges
            THEN [merge |-> TRUE, ins |-> Fold(working[leg - 1]),
                  value |-> Total(Fold(working[leg - 1]))]
            ELSE [merge |-> FALSE, ins |-> funds, value |-> amount]]

\* A deposit is one transaction without inputs.
planOf(ask, notes) ==
    IF ask.kind \in Deposits THEN <<[merge |-> FALSE, ins |-> {}, value |-> ask.amount]>>
    ELSE planSpendChain(ask.kind, notes, ask.amount)

-----------------------------------------------------------------------------
(* The chain.                                                              *)

\* A transaction lands if its notes are unspent and their paths lead to its root,
\* or if its tokens are there and approved.
Valid(t) == CASE t.type = "approve" -> TRUE
              [] t.type \in Deposits -> t.amount <= token.balance /\ t.amount <= token.allowance
              [] OTHER -> t.proved /\ t.ins \cap SpentAt(Len(log)) = {}

Pending == {i \in DOMAIN txs : txs[i].status = "pending"}

Settled(i, status) == txs' = [txs EXCEPT ![i].status = status]

\* The chain takes a transaction that is valid.
Land(i) ==
    /\ Valid(txs[i])
    /\ Settled(i, "landed")
    /\ log' = IF txs[i].type = "approve" THEN log ELSE Append(log, i)
    /\ token' = CASE txs[i].type = "approve" -> [token EXCEPT !.allowance = txs[i].amount]
                  [] txs[i].type \in Deposits ->
                         [balance |-> token.balance - txs[i].amount,
                          allowance |-> token.allowance - txs[i].amount]
                  [] OTHER -> token
    /\ UNCHANGED <<purse, height, view, runs>>

\* It takes one that is not, and nothing but its fate changes.
Revert(i) ==
    /\ ~Valid(txs[i])
    /\ Settled(i, "reverted")
    /\ UNCHANGED <<purse, log, token, height, view, runs>>

\* The indexer replays the next transaction.
Index ==
    /\ height < Len(log)
    /\ height' = height + 1
    /\ UNCHANGED <<purse, chainVars, view, runs>>

\* A page loads its notes.
Refresh(d) ==
    /\ view[d] /= height
    /\ view' = [view EXCEPT ![d] = height]
    /\ UNCHANGED <<purse, chainVars, height, runs>>

-----------------------------------------------------------------------------
(* A run.                                                                  *)

Over == {"done", "failed"}
Running == {r \in DOMAIN runs : runs[r].pc \notin Over}
At(r, pc) == runs[r].pc = pc
Step(r) == runs[r].plan[runs[r].leg]

Go(r, pc) == runs' = [runs EXCEPT ![r].pc = pc]

\* What a leg read is gone when the leg is.
Forgetting(run) == [run EXCEPT !.head = 0, !.paths = 0, !.polls = 0, !.allowance = 0]

End(r, pc) == runs' = [runs EXCEPT ![r] = [Forgetting(@) EXCEPT !.pc = pc]]

Fail(r) == End(r, "failed")

NotesSeen(d) == NotesAt(view[d])

\* A user asks; the plan is made of the notes on the page before anything else,
\* which a payroll loads for it.
Start(d, ask) ==
    /\ Len(runs) < MaxRuns
    /\ \A r \in Running : runs[r].device /= d
    /\ ask.kind = "disburse" => view[d] = height
    /\ ask.kind \notin Deposits => Total(NotesSeen(d)) >= ask.amount
    /\ runs' = Append(runs, [device |-> d, kind |-> ask.kind, amount |-> ask.amount,
                             relayed |-> ask.relayed, notes |-> NotesSeen(d),
                             plan |-> planOf(ask, NotesSeen(d)),
                             leg |-> 1, merged |-> <<>>, head |-> 0, paths |-> 0, polls |-> 0,
                             allowance |-> 0, tx |-> NoTx,
                             pc |-> IF ask.kind \in Deposits THEN "token" ELSE "session"])
    /\ UNCHANGED <<purse, chainVars, height, view>>

\* The key is there; the indexer's root is read ...
getHead(r) ==
    /\ At(r, "session")
    /\ runs' = [runs EXCEPT ![r].head = height, ![r].pc = "paths"]

\* Mutant: the paths are not held against the root.
readPathsUnchecked(r) ==
    /\ At(r, "paths")
    /\ runs' = [runs EXCEPT ![r].paths = height, ![r].pc = "prove"]

\* ... and then the paths, which must lead to it.
readPaths(r) ==
    /\ At(r, "paths")
    /\ IF runs[r].head = height
       THEN runs' = [runs EXCEPT ![r].paths = height, ![r].pc = "prove"]
       ELSE Fail(r)

\* The notes a leg spends: planned ones that are pending are the merged ones.
resolveInputs(r) ==
    {IF n.leaf < 0 THEN runs[r].merged[0 - n.leaf] ELSE n : n \in Step(r).ins}

\* Mutant: a merge pays the payee.
MergedToPayee(value) == Out(value, FALSE)

MergedNote(value) == Out(value, TRUE)

\* What each circuit makes: the payment, and the rest as change.  A payroll's rest is
\* padding if it is nothing; a deposit's second note is worth nothing.
payeeOuts(value, rest) == <<Out(value, FALSE), Out(rest, TRUE)>>
withdrawOuts(rest) == <<Out(rest, TRUE)>>
disburseOuts(value, rest) == <<Out(value, FALSE), Out(rest, rest > 0)>>
depositOuts(value) == <<Out(value, TRUE), Out(0, TRUE)>>
depositPrivOuts(value) == <<Out(value, FALSE), Out(0, TRUE)>>

\* What is proved of the inputs: their paths lead to the root that was read.
assembleInputs(r) == [ins |-> {n.leaf : n \in resolveInputs(r)},
                      total |-> Total(resolveInputs(r)),
                      proved |-> runs[r].head = runs[r].paths]

\* A merge pays the wallet its inputs whole, a last leg the payees or the account outside.
legAction(r) ==
    LET step == Step(r)
        inputs == assembleInputs(r)
        rest == inputs.total - step.value
        outs == [merge |-> <<MergedNote(step.value), Out(rest, TRUE)>>,
                 transfer |-> payeeOuts(step.value, rest), withdraw |-> withdrawOuts(rest),
                 disburse |-> disburseOuts(step.value, rest),
                 deposit |-> depositOuts(step.value), depositPriv |-> depositPrivOuts(step.value)]
        type == IF step.merge THEN "merge" ELSE runs[r].kind
    IN  [run |-> r, leg |-> runs[r].leg, type |-> type, amount |-> step.value,
         ins |-> inputs.ins, proved |-> inputs.proved, outs |-> outs[type],
         status |-> "pending"]

\* The wallet sends a transaction and waits for its receipt.
SendAs(r, tx, pc) ==
    /\ txs' = Append(txs, tx)
    /\ runs' = [runs EXCEPT ![r] = [Forgetting(@) EXCEPT !.tx = Len(txs) + 1, !.pc = pc]]

Relayed(r) == runs[r].relayed /\ ~Step(r).merge /\ runs[r].kind = "withdraw"

\* The proof is made and goes to the relayer, or in a transaction of the wallet's.
submit(r) ==
    /\ At(r, "prove")
    /\ IF Relayed(r) THEN Go(r, "relay") /\ UNCHANGED txs ELSE SendAs(r, legAction(r), "sent")

\* The relayer simulates the withdrawal, and sends it only if it would land.
handleRelay(r) ==
    /\ At(r, "relay")
    /\ IF Valid(legAction(r)) THEN SendAs(r, legAction(r), "sent")
       ELSE Fail(r) /\ UNCHANGED txs

\* A receipt arrives, whatever it says; a merge is then waited for, a last leg is the end.
receipt(r) ==
    /\ At(r, "sent")
    /\ runs[r].tx \notin Pending
    /\ IF Step(r).merge THEN Go(r, "waiting") ELSE End(r, "done")

\* The note a merge made, as the indexer serves it to a reload.
Produced(r) == {n \in NotesAt(height) :
                   \E k \in 1..height : /\ log[k] = runs[r].tx
                                        /\ n.leaf = Len(Leaves(k - 1)) + 1}

\* A poll for the merged note reloads the page's notes; the note is there, ...
awaitMergedNote(r) ==
    /\ At(r, "waiting")
    /\ Produced(r) /= {}
    /\ view' = [view EXCEPT ![runs[r].device] = height]
    /\ runs' = [runs EXCEPT ![r] = [Forgetting(@) EXCEPT
                               !.merged = Append(runs[r].merged, CHOOSE n \in Produced(r) : TRUE),
                               !.leg = runs[r].leg + 1, !.tx = NoTx, !.pc = "session"]]

PolledOut(r) == runs[r].polls >= MaxPolls

\* Mutant: the wait has no end.
Uncounted(r) == runs

Polled(r) == [runs EXCEPT ![r].polls = @ + 1]

\* ... or it is not, or the load fails, and the wait goes on until its time is up.
pollUntil(r) ==
    /\ At(r, "waiting")
    /\ \/ UNCHANGED view
       \/ Produced(r) = {} /\ view' = [view EXCEPT ![runs[r].device] = height]
    /\ IF PolledOut(r) THEN Fail(r) ELSE runs' = Polled(r)

\* A deposit reads balance and allowance, refuses what it cannot pay, ...
readTokenState(r) ==
    /\ At(r, "token")
    /\ IF runs[r].amount <= token.balance
       THEN runs' = [runs EXCEPT ![r].allowance = token.allowance, ![r].pc = "unlock"]
       ELSE Fail(r)

\* ... has the key unlocked, and approves the amount if what it read falls short of it.
approveToken(r) ==
    /\ At(r, "unlock")
    /\ IF runs[r].allowance < runs[r].amount
       THEN SendAs(r, [run |-> r, leg |-> 0, type |-> "approve", amount |-> runs[r].amount,
                       ins |-> {}, proved |-> TRUE, outs |-> <<>>, status |-> "pending"],
                   "approving")
       ELSE Go(r, "prove") /\ UNCHANGED txs

\* The approval's receipt.
Approved(r) ==
    /\ At(r, "approving")
    /\ runs[r].tx \notin Pending
    /\ runs' = [runs EXCEPT ![r].tx = NoTx, ![r].pc = "prove"]

\* A popup is rejected, a guard refuses, a read or the prover fails.
Rejects(r) == ~At(r, "sent") /\ ~At(r, "approving") /\ ~At(r, "waiting") /\ Fail(r)

\* The wait for a receipt fails after the transaction was sent.
WaitFails(r) == (At(r, "sent") \/ At(r, "approving")) /\ Fail(r)

\* The relayer is not reached, or its answer is lost.
RelayerUnheard(r) == Relayed(r) /\ (At(r, "relay") \/ At(r, "sent")) /\ Fail(r)

RunStep(r) ==
    \/ (getHead(r) \/ readPaths(r) \/ receipt(r) \/ readTokenState(r) \/ Approved(r))
       /\ UNCHANGED <<chainVars, height, view>>
    \/ (submit(r) \/ handleRelay(r) \/ approveToken(r)) /\ UNCHANGED <<log, token, height, view>>
    \/ (awaitMergedNote(r) \/ pollUntil(r)) /\ UNCHANGED <<chainVars, height>>

Fails(r) == (Rejects(r) \/ WaitFails(r) \/ RelayerUnheard(r)) /\ UNCHANGED <<purse, chainVars, height, view>>

-----------------------------------------------------------------------------
WalletInit ==
    /\ purse \in Purses
    /\ txs = <<>> /\ log = <<>>
    /\ token = [balance |-> Tokens, allowance |-> 0]
    /\ height = 0
    /\ view = [d \in Device |-> 0]
    /\ runs = <<>>

WalletNext ==
    \/ \E i \in Pending : Land(i) \/ Revert(i)
    \/ Index
    \/ \E d \in Device : Refresh(d)
    \/ \E d \in Device : \E ask \in Asks[d] : Start(d, ask)
    \/ \E r \in Running : RunStep(r) /\ UNCHANGED purse
    \/ \E r \in Running : Fails(r)

WalletSpec == WalletInit /\ [][WalletNext]_walletVars

\* The chain takes every transaction in the end, and a page that waits goes on
\* when it can; nothing is assumed of the indexer.
WalletFairness ==
    /\ WF_walletVars(\E i \in Pending : Land(i) \/ Revert(i))
    /\ WF_walletVars(\E r \in Running : RunStep(r) /\ UNCHANGED purse)

FairWallet == WalletSpec /\ WalletFairness

-----------------------------------------------------------------------------
(* What must hold.                                                         *)

Landed == {i \in DOMAIN txs : txs[i].status = "landed"}

Txs(r) == {i \in DOMAIN txs : txs[i].run = r}

\* A plan covers the amount with notes the page holds, none twice; a merged note is
\* spent by a later leg and is worth what went into it; and no chain is longer than
\* plan.ts:280 says.
PlansCover ==
    \A r \in {q \in DOMAIN runs : runs[q].kind \notin Deposits} :
        LET plan == runs[r].plan
            last == Len(plan)
            held == Cardinality(runs[r].notes)
        IN  /\ \A i \in 1..last :
                  /\ plan[i].merge <=> i < last
                  /\ Cardinality(plan[i].ins) <= IF plan[i].merge THEN TRANSFER10_ARITY
                                                ELSE terminalArity(runs[r].kind)
                  /\ \A n \in plan[i].ins :
                        \/ n \in runs[r].notes
                        \/ 0 - n.leaf \in 1..(i - 1) /\ n.value = plan[0 - n.leaf].value
                  /\ \A j \in 1..last : i /= j => plan[i].ins \cap plan[j].ins = {}
                  /\ i < last => Total(plan[i].ins) = plan[i].value
            /\ Total(plan[last].ins) >= runs[r].amount
            /\ (last - 1) * (TRANSFER10_ARITY - 1)
                  < held - terminalArity(runs[r].kind) + TRANSFER10_ARITY - 1
               \/ last = 1

\* A chain that failed after some of its merges landed, with no other transaction
\* about, is planned again with that many legs fewer (driver.ts:95).
RetryIsShorter ==
    \A r \in DOMAIN runs :
        LET merges == {i \in Txs(r) \cap Landed : txs[i].type = "merge"}
        IN  runs[r].kind \notin Deposits /\ At(r, "failed") /\ DOMAIN txs = merges =>
                /\ Total(NotesAt(Len(log))) >= runs[r].amount
                /\ Len(planSpendChain(runs[r].kind, NotesAt(Len(log)), runs[r].amount))
                       = Len(runs[r].plan) - Cardinality(merges)

\* Plans (planSpendChain, plan.ts:286) are payable as they stand, and what failed half
\* way can be planned again over what the chain made of it, with less left to do.
PlansAreSound == PlansCover /\ RetryIsShorter

\* The chain turns a transaction away only because another run got there first:
\* left alone, what the wallet proves and sends is always taken.
OnlyRivalsCollide ==
    \A i \in DOMAIN txs : txs[i].status = "reverted" =>
        \E j \in Landed \ Txs(txs[i].run) :
            IF txs[i].type \in Deposits THEN txs[j].type \in Deposits \cup {"approve"}
            ELSE txs[i].ins \cap txs[j].ins /= {}

\* The account's notes are worth what they were, less what runs were asked to pay and
\* did, once each, plus what they were asked to shield: whatever fails in between, a
\* merge moves no money (driver.ts:97: your balance is unchanged).
BalanceMovesAsAsked ==
    LET Done(kinds) == {r \in DOMAIN runs : runs[r].kind \in kinds /\
                           \E i \in Txs(r) : i \in Landed /\ txs[i].type = runs[r].kind}
        Asked(kinds) == SumFunctionOnSet([r \in DOMAIN runs |-> runs[r].amount], Done(kinds))
        first == SumFunction(purse)
    IN  /\ Total(NotesAt(Len(log))) = first + Asked({"deposit"}) - Asked({"transfer", "withdraw", "disburse"})
        /\ token.balance = Tokens - Asked(Deposits)

\* Every run ends, however the indexer lags.
RunsEnd == \A r \in 1..MaxRuns : r \in Running ~> r \notin Running
==============================================================================
