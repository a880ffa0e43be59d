----------------------------- MODULE SolanaIndexer -----------------------------
(***************************************************************************)
(* The indexer of the Solana rail (apps/indexer/src/solana): it pages the  *)
(* signatures after its cursor, fetches each transaction, applies them to  *)
(* the mirror and the read model in memory, and commits the rows with the  *)
(* cursor.  A batch's disclosure blob is a file of the institution's, that *)
(* is checked when the batch is ingested and again at every boot.          *)
(*                                                                         *)
(* A transaction holds one operation, a signature is its place in the      *)
(* ledger, and a root is the row of leaves it is the root of.  Nullifiers  *)
(* and leaf rows are written in the step of their feed entry, by the same  *)
(* first-sight gate.  Grace is over: an unserved blob reads "withheld".    *)
(***************************************************************************)
EXTENDS Integers, Sequences, SequencesExt

CONSTANTS B,          \* the leaves of a batch
          Blob,       \* what the file of a batch may be: none, or how it verifies
          MaxTxs,     \* bound on the ledger
          MaxFaults,  \* bound on crashes and failures
          MaxLost,    \* bound on answers that are missing
          MaxSwaps    \* bound on the changes of the institution's files

ASSUME SolanaIndexerAssumption ==
    /\ B \in Nat \ {0, 1}
    /\ Blob \subseteq {"none", "verified", "mismatch", "unverifiable"} /\ "none" \in Blob
    /\ MaxTxs \in Nat /\ MaxFaults \in Nat /\ MaxLost \in Nat /\ MaxSwaps \in Nat

VARIABLES landed,   \* the operations of the pool program, in order
          file,     \* the blob the institution serves for each batch
          phase,    \* where the process is in a pass
          serving,  \* whether its first pass is done: until then a failure ends it
          mem,      \* the mirror, the feed, the registry of blobs and the cursor
          todo,     \* the transactions fetched and not applied yet
          upTo,     \* the last of those fetched
          db,       \* the rows, and the cursor committed with them
          faults, lost, swaps

vars == <<landed, file, phase, serving, mem, todo, upTo, db, faults, lost, swaps>>

-----------------------------------------------------------------------------
(* The ledger: what each operation does to the tree.                       *)

\* A withdrawal appends its change, a transfer or a deposit two outputs.
Width(kind) == CASE kind = "one" -> 1 [] kind = "two" -> 2 [] kind = "batch" -> B

LeavesOf(tx) == [k \in 1..Width(landed[tx]) |-> <<tx, k>>]

\* A batch begins at a multiple of B.
Padded(tree) == tree \o [k \in 1..((B - (Len(tree) % B)) % B) |-> <<0, 0>>]

Grown(tree, tx) == (IF landed[tx] = "batch" THEN Padded(tree) ELSE tree) \o LeavesOf(tx)

\* The tree after each transaction: an event carries its root.
TreeAfter == LET tree[n \in 0..Len(landed)] ==
                     IF n = 0 THEN <<>> ELSE Grown(tree[n - 1], n)
             IN  tree

\* The start an event carries.
StartOf(tx) == Len(TreeAfter[tx]) - Width(landed[tx])

-----------------------------------------------------------------------------
Blank == [mirror |-> <<>>, feed |-> <<>>, registry |-> [tx \in {} |-> 0], cursor |-> 0]

Init ==
    /\ landed = <<>> /\ file = [tx \in 1..MaxTxs |-> "none"]
    /\ phase = "down" /\ serving = FALSE
    /\ mem = Blank
    /\ todo = <<>> /\ upTo = 0
    /\ db = [feed |-> <<>>, cursor |-> 0]
    /\ faults = 0 /\ lost = 0 /\ swaps = 0

\* The pool goes on; nothing comes between the transactions of one pass, which are
\* applied in one turn of the event loop.
Land ==
    /\ Len(landed) < MaxTxs /\ phase /= "applying"
    /\ \E kind \in {"one", "two", "batch"} : landed' = Append(landed, kind)
    /\ UNCHANGED <<file, phase, serving, mem, todo, upTo, db, faults, lost, swaps>>

\* The institution drops, corrects, spoils or removes the file of a batch, which it
\* may write before the batch lands.
Swap(tx) ==
    /\ swaps < MaxSwaps /\ phase /= "applying"
    /\ tx \in DOMAIN landed /\ landed[tx] = "batch"
    /\ \E blob \in Blob \ {file[tx]} : file' = [file EXCEPT ![tx] = blob]
    /\ swaps' = swaps + 1
    /\ UNCHANGED <<landed, phase, serving, mem, todo, upTo, db, faults, lost>>

Fault == faults < MaxFaults /\ faults' = faults + 1

-----------------------------------------------------------------------------
(* The registry of served blobs (served.ts).                               *)

Batches(feed) == {i \in DOMAIN feed : landed[feed[i].tx] = "batch"}

\* A batch is first seen: the caller bakes the verdict into the feed entry.
recordBatch(tx) ==
    IF tx \in DOMAIN mem.registry THEN mem.registry
    ELSE [t \in DOMAIN mem.registry \cup {tx} |->
             IF t = tx THEN [held |-> file[tx], baked |-> file[tx] /= "none"]
                       ELSE mem.registry[t]]

Verdict(tx) == IF tx \in DOMAIN mem.registry THEN "none" ELSE file[tx]

\* Mutant of OwnedByRow: a row with a verdict owns the alarm.
OwnedByAnyRow(row) == row.verdict /= "none"

\* At boot the row owns the alarm only if it agrees with what is served now.
OwnedByRow(row) == row.verdict /= "none" /\ row.verdict = file[row.tx]

BootRegistry ==
    [tx \in {db.feed[i].tx : i \in Batches(db.feed)} |->
        LET row == CHOOSE r \in ToSet(db.feed) : r.tx = tx
        IN  [held |-> file[tx], baked |-> file[tx] /= "none" /\ OwnedByRow(row)]]

\* getAlarms and alarms: what /alarms lists of a batch.
StoreAlarms(tx) == {i \in DOMAIN mem.feed : /\ mem.feed[i].tx = tx
                                            /\ mem.feed[i].verdict \notin {"none", "verified"}}
alarms(tx) == LET b == mem.registry[tx]
              IN  IF b.held = "none" THEN {"withheld"}
                  ELSE IF b.held = "verified" \/ b.baked THEN {} ELSE {b.held}

-----------------------------------------------------------------------------
(* Boot.                                                                   *)

\* The mirror that the leaf rows rebuild, in the order of their positions.
Rebuilt(rows) ==
    LET tree[n \in 0..Len(rows)] ==
            IF n = 0 THEN <<>> ELSE Grown(tree[n - 1], rows[n].tx)
    IN  tree[Len(rows)]

\* The mirror and the head of the chain agree as far as that can be decided.
HeadsAgree(mirror) ==
    LET head == TreeAfter[Len(landed)]
    IN  Len(head) > Len(mirror) \/ head = mirror

boot ==
    /\ phase = "down"
    /\ HeadsAgree(Rebuilt(db.feed))
    /\ mem' = [mirror |-> Rebuilt(db.feed), feed |-> db.feed,
               registry |-> BootRegistry, cursor |-> db.cursor]
    /\ phase' = "idle" /\ serving' = FALSE
    /\ UNCHANGED <<landed, file, todo, upTo, db, faults, lost, swaps>>

-----------------------------------------------------------------------------
(* One pass: ingest.                                                       *)

\* A failed pass leaves memory as it is; the next one starts from the same cursor,
\* unless it was the first, whose failure ends the process.
PassFails ==
    /\ IF serving THEN phase' = "idle" /\ UNCHANGED mem
                  ELSE phase' = "down" /\ mem' = Blank
    /\ todo' = <<>> /\ upTo' = 0

\* The signatures after the cursor, oldest first.
Signatures == [i \in 1..(Len(landed) - mem.cursor) |-> mem.cursor + i]

Fetched(txs) ==
    /\ phase = "idle"
    /\ phase' = "applying"
    /\ todo' = txs
    /\ upTo' = IF txs = <<>> THEN mem.cursor ELSE Last(txs)
    /\ UNCHANGED <<landed, file, serving, mem, db, faults, swaps>>

txsSince == Fetched(Signatures) /\ UNCHANGED lost

\* A node that lags behind its peers has not got one of the transactions yet; an answer
\* that is missing is passed over like a transaction that failed.
AnswerLost ==
    /\ lost < MaxLost /\ lost' = lost + 1
    /\ \E i \in DOMAIN Signatures : Fetched(RemoveAt(Signatures, i))

\* Mutant of OpGap: an operation that is there already is no replay.
OpGapOrReplay(tx) == landed[tx] /= "batch" /\ StartOf(tx) /= Len(mem.mirror)

\* applyOpAppend: a gap is refused before the mirror is touched.
OpGap(tx) == landed[tx] /= "batch" /\ StartOf(tx) > Len(mem.mirror)

\* The mirror after the operation; one below the frontier was applied before.
Mirrored(tx) ==
    LET next == Len(mem.mirror)
        skip == IF next > StartOf(tx) THEN next - StartOf(tx) ELSE 0
    IN  IF landed[tx] = "batch"
        THEN IF StartOf(tx) >= next THEN Padded(mem.mirror) \o LeavesOf(tx) ELSE mem.mirror
        ELSE mem.mirror \o SubSeq(LeavesOf(tx), skip + 1, Width(landed[tx]))

Diverged(tx) == Mirrored(tx) /= mem.mirror /\ Mirrored(tx) /= TreeAfter[tx]

addEvent(tx, verdict) ==
    IF \E i \in DOMAIN mem.feed : mem.feed[i].tx = tx THEN mem.feed
    ELSE Append(mem.feed, [tx |-> tx, verdict |-> verdict])

applyOne ==
    /\ phase = "applying" /\ todo /= <<>>
    /\ LET tx == Head(todo) IN
       /\ ~OpGap(tx) /\ ~Diverged(tx)
       /\ mem' = [mem EXCEPT
             !.mirror = Mirrored(tx),
             !.registry = IF landed[tx] = "batch" THEN recordBatch(tx) ELSE @,
             !.feed = addEvent(tx, IF landed[tx] = "batch" THEN Verdict(tx) ELSE "none")]
    /\ todo' = Tail(todo)
    /\ UNCHANGED <<landed, file, phase, serving, upTo, db, faults, lost, swaps>>

\* A gap or a root that is not the event's: the rest of the pass is dropped, what the
\* mirror took by then stays.
applyThrows ==
    /\ phase = "applying" /\ todo /= <<>>
    /\ LET tx == Head(todo) IN
       /\ OpGap(tx) \/ Diverged(tx)
       /\ IF serving
          THEN /\ phase' = "idle"
               /\ mem' = IF OpGap(tx) THEN mem ELSE [mem EXCEPT !.mirror = Mirrored(tx)]
          ELSE phase' = "down" /\ mem' = Blank
    /\ todo' = <<>> /\ upTo' = 0
    /\ UNCHANGED <<landed, file, serving, db, faults, lost, swaps>>

-----------------------------------------------------------------------------
(* persistSolana: rows and both halves of the cursor in one transaction.   *)

Applied == phase = "applying" /\ todo = <<>>

\* The rows after the write; those that are there stay as they are.
Upserted ==
    LET durable == {db.feed[i].tx : i \in DOMAIN db.feed}
        rows[n \in 0..Len(mem.feed)] ==
            IF n = 0 THEN db.feed
            ELSE IF mem.feed[n].tx \in durable THEN rows[n - 1]
            ELSE Append(rows[n - 1], mem.feed[n])
    IN  rows[Len(mem.feed)]

\* Mutant of Flushed: the cursor goes to the head that is known by then.
FlushedToHead == [feed |-> Upserted, cursor |-> Len(landed)]

\* What the transaction writes.
Flushed == [feed |-> Upserted, cursor |-> upTo]

Commit ==
    /\ Applied
    /\ IF upTo > mem.cursor
       THEN db' = Flushed /\ mem' = [mem EXCEPT !.cursor = db'.cursor]
       ELSE UNCHANGED <<db, mem>>
    /\ phase' = "asserting"
    /\ UNCHANGED <<landed, file, serving, todo, upTo, faults, lost, swaps>>

RollBack ==
    /\ Applied /\ upTo > mem.cursor
    /\ Fault
    /\ PassFails
    /\ UNCHANGED <<landed, file, serving, db, lost, swaps>>

CommitUnheard ==
    /\ Applied /\ upTo > mem.cursor
    /\ Fault
    /\ db' = Flushed
    /\ PassFails
    /\ UNCHANGED <<landed, file, serving, lost, swaps>>

\* The head of the chain is compared last: a mirror that is behind it is no failure.
AssertHead ==
    /\ phase = "asserting"
    /\ IF HeadsAgree(mem.mirror)
       THEN phase' = "idle" /\ serving' = TRUE /\ todo' = <<>> /\ upTo' = 0 /\ UNCHANGED mem
       ELSE PassFails /\ UNCHANGED serving
    /\ UNCHANGED <<landed, file, db, faults, lost, swaps>>

\* The node that answers for the head lags behind the one that served the gap.
HeadLags ==
    /\ phase = "asserting"
    /\ Fault
    /\ PassFails
    /\ UNCHANGED <<landed, file, serving, db, lost, swaps>>

\* A crash, or a restart of the process by its operator.
Crash ==
    /\ phase /= "down"
    /\ Fault
    /\ phase' = "down" /\ mem' = Blank /\ todo' = <<>> /\ upTo' = 0
    /\ UNCHANGED <<landed, file, serving, db, lost, swaps>>

-----------------------------------------------------------------------------
Pass == boot \/ txsSince \/ applyOne \/ applyThrows \/ Commit \/ AssertHead

Next == \/ Land \/ \E tx \in 1..MaxTxs : Swap(tx)
        \/ Pass
        \/ AnswerLost \/ RollBack \/ CommitUnheard \/ HeadLags \/ Crash

Spec == Init /\ [][Next]_vars

\* The supervisor restarts the process, the poll timer is armed for its life.
FairSpec == Spec /\ WF_vars(Pass)

-----------------------------------------------------------------------------
(***************************************************************************)
(* The rows are the first operations of the ledger, each once and in order *)
(* and at least those up to the cursor, whatever was rolled back,          *)
(* committed unheard or applied twice and with one answer lost, and a      *)
(* restart rebuilds from them the tree the chain had there (persistSolana, *)
(* applyLedgerTxs, boot).  A second lost answer can break it: a run has    *)
(* MaxLost = 1, the theorem about it assumes lost <= 1.                    *)
(***************************************************************************)
RowsTellTheLedger ==
    LET n == Len(db.feed)
    IN  /\ db.cursor <= n /\ n <= Len(landed)
        /\ \A i \in 1..n : db.feed[i].tx = i
        /\ Rebuilt(db.feed) = TreeAfter[n]

(***************************************************************************)
(* /alarms lists the verdict on the bytes that are served now exactly once *)
(* when they fail, by the feed entry or by the registry, through retries,  *)
(* restarts and files that change in between (recordBatch, alarms); the    *)
(* registry adds nothing about bytes that pass.                            *)
(***************************************************************************)
VerdictsAreToldOnce ==
    phase /= "down" =>
        \A tx \in DOMAIN mem.registry :
            LET held == mem.registry[tx].held
                told == {i \in StoreAlarms(tx) : mem.feed[i].verdict = held}
            IN  /\ held = "verified" => alarms(tx) = {}
                /\ held \notin {"none", "verified"} =>
                       IF told = {} THEN alarms(tx) = {held} ELSE alarms(tx) = {}

(***************************************************************************)
(* Every operation reaches the rows in the end, after any failure and a    *)
(* lost answer too, unless the mirror took a batch in the wrong place      *)
(* (applyAttach attaches before it compares): then until a restart.        *)
(***************************************************************************)
Misplaced == ~IsPrefix(mem.mirror, TreeAfter[Len(landed)])

CatchesUp == \A tx \in 1..MaxTxs :
                 tx \in DOMAIN landed ~> (db.cursor >= tx \/ Misplaced)
=============================================================================
