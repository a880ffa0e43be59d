------------------------------- MODULE Portal -------------------------------
(***************************************************************************)
(* Deposits by plain transfer: the registry of issued addresses            *)
(* (apps/indexer/src/portal.ts), the factory and its sweepers              *)
(* (chains/evm/src/Portal*.sol) and the sweep bot (apps/sweeper/src).      *)
(*                                                                         *)
(* An address is issued for a label and recorded before it is shown; a     *)
(* payer transfers tokens to it; the bot mints them to the label's owner   *)
(* through the factory; the indexer flips the record off the factory's     *)
(* event.  The indexer and the bot may crash, calls may fail or go unheard *)
(* after they took effect, and the store may be lost.                      *)
(*                                                                         *)
(* A stealth address stands for its salt and its destination, a sweep's    *)
(* place in the chain for its block and its transaction, an amount for the *)
(* proof that binds it.                                                    *)
(***************************************************************************)
EXTENDS Integers, FiniteSets, Sequences, SequencesExt

CONSTANTS Address,    \* the stealth addresses
          Label,      \* the registered names that addresses are issued for
          NoLabel,    \* the label of a record rebuilt from the chain
          Factories,  \* the factories: TRUE for the one that announces its sweeps
          minSweep,   \* the least balance the bot sweeps
          MaxAsked,   \* bound on the issuances asked for
          MaxPaid,    \* bound on the payments
          MaxFaults,  \* bound on crashes and failures
          MaxWipes    \* bound on losses of the store

ASSUME PortalAssumption ==
    /\ NoLabel \notin Label
    /\ Factories \subseteq BOOLEAN
    /\ minSweep \in Nat \ {0}
    /\ {MaxAsked, MaxPaid, MaxFaults, MaxWipes} \subseteq Nat

VARIABLES receive,   \* TRUE when the registry is the receive factory's
          chain,     \* the sweeps that landed, in order
          balance,   \* the tokens at each destination
          mempool,   \* the sweeps sent and not landed, by nonce
          asked,     \* the issuances asked for so far
          requests,  \* those whose row is being inserted
          shown,     \* the addresses that were shown to a payer
          mem,       \* the registry in memory and its write-behind buffers
          db,        \* the durable rows and the ingest cursor
          phase,     \* where the indexer is in a poll
          bot,       \* the bot's round
          paid, faults, wipes

chainVars == <<chain, balance, mempool, paid>>
apiVars == <<asked, requests, shown>>
limits == <<receive, faults, wipes>>
vars == <<chainVars, apiVars, mem, db, phase, bot, limits>>

Serving == phase # "down"

Fault == faults < MaxFaults /\ faults' = faults + 1 /\ receive' = receive

-----------------------------------------------------------------------------
(* The registry.  A record names the sweep that flipped it, or 0.          *)

\* bySalt: the record of an address, the latest if there are several.
bySalt(m, a) == {i \in DOMAIN m.records : /\ m.records[i].addr = a
                                          /\ \A j \in DOMAIN m.records :
                                                m.records[j].addr = a => j <= i}

hasStealth(m, a) == bySalt(m, a) # {}

index(m, r) == [m EXCEPT !.records = Append(@, r)]

NoMem == [records |-> <<>>, seq |-> 0, pendingSwept |-> {}, pendingInserts |-> {},
          lastBlock |-> 0, upTo |-> 0]

\* The members of a set of numbers, the least first.
InOrder(numbers) ==
    [k \in 1..Cardinality(numbers) |->
        CHOOSE n \in numbers : Cardinality({m \in numbers : m < n}) = k - 1]

BySeq(rows) ==
    LET seqs == InOrder({r.seq : r \in rows})
    IN  [k \in DOMAIN seqs |-> CHOOSE r \in rows : r.seq = seqs[k]]

\* boot: the rows in seq order, the counter past the last of them.
boot ==
    /\ phase = "down"
    /\ LET rows == BySeq(db.rows)
       IN  mem' = [NoMem EXCEPT !.records = rows,
                                !.seq = IF rows = <<>> THEN 0 ELSE rows[Len(rows)].seq + 1,
                                !.lastBlock = db.cursor]
    /\ phase' = "idle"
    /\ UNCHANGED <<chainVars, apiVars, db, bot, limits>>

\* A request takes its seq before it looks whether the address is recorded;
\* the receive page derives an address of its own for each request.
MayAsk(a) ==
    /\ Serving
    /\ Len(asked) < MaxAsked
    /\ receive => \A i \in DOMAIN asked : asked[i] # a
    /\ asked' = Append(asked, a)

Asked(a, l) == [seq |-> mem.seq, addr |-> a, label |-> l, by |-> 0]

\* Mutant of issue: the record is served before its row is durable.
issueServedFirst(a, l) ==
    /\ MayAsk(a)
    /\ LET r == Asked(a, l)
           taken == [mem EXCEPT !.seq = @ + 1]
       IN  /\ requests' = IF hasStealth(mem, a) THEN requests ELSE requests \cup {r}
           /\ mem' = IF hasStealth(mem, a) THEN taken ELSE index(taken, r)
    /\ UNCHANGED <<chainVars, shown, db, phase, bot, limits>>

issue(a, l) ==
    /\ MayAsk(a)
    /\ mem' = [mem EXCEPT !.seq = @ + 1]
    /\ requests' = IF hasStealth(mem, a) THEN requests ELSE requests \cup {Asked(a, l)}
    /\ UNCHANGED <<chainVars, shown, db, phase, bot, limits>>

Conflicts(r) == \E s \in db.rows : s.seq = r.seq \/ s.addr = r.addr

\* Mutant of insert: no unique index on the stealth address.
insertTwice(r) ==
    /\ Serving
    /\ r \notin db.rows
    /\ db' = [db EXCEPT !.rows = @ \cup {r}]
    /\ UNCHANGED <<chainVars, apiVars, mem, phase, bot, limits>>

\* The database takes the row unless the address or the seq is there.
insert(r) ==
    /\ Serving
    /\ ~Conflicts(r)
    /\ db' = [db EXCEPT !.rows = @ \cup {r}]
    /\ UNCHANGED <<chainVars, apiVars, mem, phase, bot, limits>>

\* issue resumes: the record is served, and the page shows the address.
issued(r) ==
    /\ Serving
    /\ r \in db.rows
    /\ mem' = index(mem, r)
    /\ requests' = requests \ {r}
    /\ shown' = shown \cup {<<r.addr, r.label>>}
    /\ UNCHANGED <<chainVars, asked, db, phase, bot, limits>>

\* The insert is refused, and the page shows nothing.
refused(r) ==
    /\ Serving
    /\ r \notin db.rows
    /\ Conflicts(r)
    /\ requests' = requests \ {r}
    /\ UNCHANGED <<chainVars, asked, shown, mem, db, phase, bot, limits>>

\* The insert fails, or it took effect and nobody heard: an error to the page.
InsertFails(r) ==
    /\ Serving
    /\ Fault
    /\ requests' = requests \ {r}
    /\ UNCHANGED <<chainVars, asked, shown, mem, db, phase, bot, wipes>>

-----------------------------------------------------------------------------
(* Ingest of the factory's events.                                         *)

markSwept(m, b) ==
    LET i == {j \in bySalt(m, chain[b].addr) : m.records[j].by = 0}
    IN  IF i = {}
        THEN m
        ELSE LET r == [m.records[CHOOSE j \in i : TRUE] EXCEPT !.by = b]
             IN  [m EXCEPT !.records[CHOOSE j \in i : TRUE] = r, !.pendingSwept = @ \cup {r}]

\* Mutant of recordChainAnnouncement: an unknown salt is ignored.
recordNoAnnouncement(m, b) == m

\* A sweep of an address that is not recorded gives it a record, swept already.
recordChainAnnouncement(m, b) ==
    LET r == [seq |-> m.seq, addr |-> chain[b].addr, label |-> NoLabel, by |-> b]
    IN  IF ~receive \/ hasStealth(m, r.addr)
        THEN m
        ELSE [index(m, r) EXCEPT !.seq = @ + 1, !.pendingInserts = @ \cup {r}]

applyLog(m, b) == recordChainAnnouncement(markSwept(m, b), b)

\* The logs are applied in one turn; the head they reach is the next cursor.
applyLogs ==
    /\ phase = "idle"
    /\ mem.lastBlock < Len(chain)
    /\ mem' = FoldLeft(applyLog, [mem EXCEPT !.upTo = Len(chain)],
                       [k \in 1..(Len(chain) - mem.lastBlock) |-> mem.lastBlock + k])
    /\ phase' = "applied"
    /\ UNCHANGED <<chainVars, apiVars, db, bot, limits>>

\* The rows after the transaction: a backfill that conflicts is left out, a
\* flip is an update by seq.
Flushed ==
    LET kept == {r \in mem.pendingInserts : ~Conflicts(r)}
        flip(r) == {s \in mem.pendingSwept : s.seq = r.seq}
    IN  [rows |-> {IF flip(r) = {} THEN r ELSE [r EXCEPT !.by = (CHOOSE s \in flip(r) : TRUE).by] :
                      r \in db.rows \cup kept},
         cursor |-> mem.upTo]

persistAtomically ==
    /\ phase = "applied"
    /\ db' = Flushed
    /\ phase' = "committed"
    /\ UNCHANGED <<chainVars, apiVars, mem, bot, limits>>

\* After COMMIT returns: the buffers are dropped and the cursor advances.
commitFlush ==
    /\ phase = "committed"
    /\ mem' = [mem EXCEPT !.pendingSwept = {}, !.pendingInserts = {}, !.lastBlock = mem.upTo]
    /\ phase' = "idle"
    /\ UNCHANGED <<chainVars, apiVars, db, bot, limits>>

\* Mutant of RollBack: the buffers are dropped although nothing committed.
RollBackDropping ==
    /\ Fault
    /\ phase \in {"applied", "committed"}
    /\ phase' = "idle"
    /\ mem' = [mem EXCEPT !.pendingSwept = {}, !.pendingInserts = {}]
    /\ UNCHANGED <<chainVars, apiVars, db, bot, wipes>>

\* The transaction fails, or commits and nobody hears: the range is retried.
RollBack ==
    /\ Fault
    /\ phase \in {"applied", "committed"}
    /\ phase' = "idle"
    /\ UNCHANGED <<chainVars, apiVars, mem, db, bot, wipes>>

Stop == /\ phase' = "down"
        /\ mem' = NoMem
        /\ requests' = {}

Crash ==
    /\ Fault
    /\ Serving
    /\ Stop
    /\ UNCHANGED <<chainVars, asked, shown, db, bot, wipes>>

\* The store is lost, and the indexer starts over from what the factory announced.
Wipe ==
    /\ receive
    /\ wipes < MaxWipes
    /\ wipes' = wipes + 1
    /\ db' = [rows |-> {}, cursor |-> 0]
    /\ Stop
    /\ UNCHANGED <<chainVars, asked, shown, bot, receive, faults>>

-----------------------------------------------------------------------------
(* The payer and the factory.                                              *)

\* An address that was shown may be paid, and paid again.
Pay(a) ==
    /\ paid < MaxPaid
    /\ \E l \in Label : <<a, l>> \in shown
    /\ balance' = [balance EXCEPT ![a] = @ + 1]
    /\ paid' = paid + 1
    /\ UNCHANGED <<chain, mempool, apiVars, mem, db, phase, bot, limits>>

\* The guards of the sweeper: a sweep of nothing or of too much reverts.
_guardAndApprove(tx) == balance[tx.addr] # 0 /\ tx.amount <= balance[tx.addr]

\* The first sweep sent lands: its amount is deposited for the label's owner.
sweep ==
    /\ mempool # <<>>
    /\ LET tx == Head(mempool)
       IN  IF _guardAndApprove(tx)
           THEN /\ balance' = [balance EXCEPT ![tx.addr] = @ - tx.amount]
                /\ chain' = Append(chain, tx)
           ELSE UNCHANGED <<balance, chain>>
    /\ mempool' = Tail(mempool)
    /\ UNCHANGED <<paid, apiVars, mem, db, phase, bot, limits>>

-----------------------------------------------------------------------------
(* The bot: one round at a time, and one record of it in flight.           *)

NoRound == [phase |-> "idle", list |-> <<>>, amount |-> 0]

NextRecord == [phase |-> IF Len(bot.list) = 1 THEN "idle" ELSE "scan",
               list |-> Tail(bot.list), amount |-> 0]

BotUnchanged == UNCHANGED <<chain, balance, paid, apiVars, mem, db, phase, receive, wipes>>

\* A round starts with the unswept records that belong to the bot.
fetchUnswept ==
    /\ bot.phase = "idle"
    /\ Serving
    /\ LET unswept == InOrder({i \in DOMAIN mem.records :
                                  mem.records[i].by = 0 /\ mem.records[i].label # NoLabel})
       IN  /\ unswept # <<>>
           /\ bot' = [NoRound EXCEPT !.phase = "scan",
                                     !.list = [k \in DOMAIN unswept |-> mem.records[unswept[k]]]]
    /\ BotUnchanged /\ UNCHANGED <<mempool, faults>>

\* Mutant of readBalance: a balance of exactly the threshold is skipped.
readBalanceAbove ==
    /\ bot.phase = "scan"
    /\ LET have == balance[Head(bot.list).addr]
       IN  bot' = IF have <= minSweep
                  THEN NextRecord
                  ELSE [bot EXCEPT !.phase = "proving", !.amount = have]
    /\ BotUnchanged /\ UNCHANGED <<mempool, faults>>

\* The balance is read; nothing or dust is skipped, the rest is proved.
readBalance ==
    /\ bot.phase = "scan"
    /\ LET have == balance[Head(bot.list).addr]
       IN  bot' = IF have < minSweep
                  THEN NextRecord
                  ELSE [bot EXCEPT !.phase = "proving", !.amount = have]
    /\ BotUnchanged /\ UNCHANGED <<mempool, faults>>

\* The proof is there: the balance is read again, and the sweep is sent.
submit ==
    /\ bot.phase = "proving"
    /\ LET r == Head(bot.list)
       IN  IF balance[r.addr] < bot.amount
           THEN bot' = NextRecord /\ mempool' = mempool
           ELSE /\ mempool' = Append(mempool, [addr |-> r.addr, label |-> r.label,
                                               amount |-> bot.amount])
                /\ bot' = [bot EXCEPT !.phase = "sending"]
    /\ BotUnchanged /\ UNCHANGED faults

waitForTransactionReceipt ==
    /\ bot.phase = "sending"
    /\ mempool = <<>>
    /\ bot' = NextRecord
    /\ BotUnchanged /\ UNCHANGED <<mempool, faults>>

\* A call, the prover or the wait fails: the round goes on with the next.
RecordFails ==
    /\ Fault
    /\ bot.phase # "idle"
    /\ bot' = NextRecord
    /\ BotUnchanged /\ UNCHANGED mempool

BotCrash ==
    /\ Fault
    /\ bot.phase # "idle"
    /\ bot' = NoRound
    /\ BotUnchanged /\ UNCHANGED mempool

-----------------------------------------------------------------------------
Init ==
    /\ receive \in Factories
    /\ chain = <<>> /\ mempool = <<>> /\ asked = <<>>
    /\ balance = [a \in Address |-> 0]
    /\ requests = {} /\ shown = {}
    /\ mem = NoMem
    /\ db = [rows |-> {}, cursor |-> 0]
    /\ phase = "down"
    /\ bot = NoRound
    /\ paid = 0 /\ faults = 0 /\ wipes = 0

Next == \/ boot \/ applyLogs \/ persistAtomically \/ commitFlush
        \/ \E a \in Address, l \in Label : issue(a, l)
        \/ \E r \in requests : insert(r)
        \/ \E r \in requests : issued(r)
        \/ \E r \in requests : refused(r)
        \/ \E r \in requests : InsertFails(r)
        \/ RollBack \/ Crash \/ Wipe
        \/ \E a \in Address : Pay(a)
        \/ sweep
        \/ fetchUnswept \/ readBalance \/ submit \/ waitForTransactionReceipt
        \/ RecordFails \/ BotCrash

Spec == Init /\ [][Next]_vars

\* Supervisors restart both processes, what was sent lands, and only a failure
\* keeps a step that was begun from ending.  The ingest may lag for ever.
Fairness == /\ WF_vars(boot) /\ WF_vars(sweep)
            /\ WF_vars(fetchUnswept) /\ WF_vars(readBalance)
            /\ WF_vars(submit) /\ WF_vars(waitForTransactionReceipt)

FairSpec == Spec /\ Fairness

-----------------------------------------------------------------------------
\* First write wins: an address was shown for one label only, and its row is
\* durable and has that label, whatever crashed or raced before.
FirstWriteWins ==
    wipes = 0 => \A p \in shown : \E r \in db.rows :
        p = <<r.addr, r.label>> /\ \A s \in db.rows : s.addr = r.addr => s = r

\* Every sweep mints to the owner of the label its address was shown for.
NotesGoToTheAnnounced == \A i \in DOMAIN chain : <<chain[i].addr, chain[i].label>> \in shown

FirstSweep(a, cursor) ==
    LET of == {i \in 1..cursor : chain[i].addr = a}
    IN  IF of = {} THEN 0 ELSE CHOOSE i \in of : \A j \in of : i <= j

\* Each row is flipped by the first sweep of its address up to the cursor, and
\* by no other: retries, crashes and re-sweeps neither lose nor change a flip.
RowsTellTheFirstSweep == \A r \in db.rows : r.by = FirstSweep(r.addr, db.cursor)

\* Every sweep that was announced and is covered by the cursor has its row, even
\* after the store was lost.
SweptAreRecovered == receive => \A i \in 1..db.cursor : \E r \in db.rows : r.addr = chain[i].addr /\ r.by # 0

\* A paid address is swept, unless the store was lost: the payer's first payment
\* reaches the recipient.
FirstPaymentIsSwept ==
    \A a \in Address : (balance[a] >= minSweep) ~> (wipes > 0 \/ \E i \in DOMAIN chain : chain[i].addr = a)

\* The code does not keep this, though sweep.ts:23 says that a remainder is next round: the
\* sweep's event ends the address's life on the work feed.
RemainderIsReswept == \A a \in Address : (balance[a] >= minSweep) ~> (balance[a] = 0)
=============================================================================
