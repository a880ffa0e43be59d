---------------------------- MODULE ArbiterLedger ----------------------------
(***************************************************************************)
(* The arbiter's note ledger (apps/indexer/src/ledger.ts and the           *)
(* PostgresLedger of postgres.ts).  From the envelope of every enterprise  *)
(* operation it derives the notes made and spent, the activity of their    *)
(* owners and, where an envelope does not match the chain, an alarm.  What *)
(* it derived is kept in memory, served from there, and committed with the *)
(* cursor of the poll; a restart rebuilds it from the rows.                *)
(*                                                                         *)
(* A note stands for its leaf, an operation for its place in the chain.    *)
(* An operation is only applied when it is seen first, in chain order, and *)
(* the replay loop around it is the one of module Indexer: here a poll     *)
(* applies its range, or a part of it before it throws, in one step.       *)
(***************************************************************************)
EXTENDS Ordered, Sequences, SequencesExt

CONSTANTS Owner,     \* holders of notes
          None,      \* no counterparty
          BatchSize, \* leaves of a batch
          Stake,     \* what one deposit brings in
          Mixes,     \* the mixes of operations a chain may carry
          Published, \* what may be published of a batch's ciphertext
          MaxOps,    \* bound on the chain
          MaxFaults, \* bound on crashes and failures
          MaxPages,  \* bound on the pages read, where "paged" lets a client read
          PageSize   \* items of a page

ASSUME LedgerAssumption ==
    /\ None \notin Owner
    /\ BatchSize \in Nat \ {0} /\ Stake \in Nat
    /\ Mixes \subseteq SUBSET {"deposit", "transfer", "withdraw", "disburse", "priv",
                               "spoilt", "bundled", "paged"}
    /\ Published \subseteq {"whole", "junkReceivers", "junkTail", "noTail", "nothing"}
    /\ {MaxOps, MaxFaults, MaxPages} \subseteq Nat /\ PageSize \in Nat \ {0}

VARIABLES mix,     \* what this chain carries, and how
          chain,   \* the operations, in order
          mem,     \* the read model and its write-behind buffers
          db,      \* the durable rows and the cursor
          phase,   \* where the process is in a poll
          upTo,    \* the head block of the poll in flight
          reader,  \* a client that pages through one owner's activity
          faults   \* the failures so far

vars == <<mix, chain, mem, db, phase, upTo, reader, faults>>

-----------------------------------------------------------------------------
(* The chain.                                                              *)

Total(outs) == FoldSeq(LAMBDA o, sum : o.value + sum, 0, outs)

LeavesOf(op) == op.first .. op.first + Len(op.outs) - 1

\* The note an operation put at one of its leaves.
NoteOf(op, leaf) == [leaf |-> leaf, owner |-> op.outs[leaf - op.first + 1].owner,
                     value |-> op.outs[leaf - op.first + 1].value]

Ops == {chain[i] : i \in DOMAIN chain}
MadeBy(ops) == UNION {{NoteOf(op, leaf) : leaf \in LeavesOf(op)} : op \in ops}
SpentBy(ops) == UNION {op.ins : op \in ops}

headBlock == IF chain = <<>> THEN 0 ELSE Last(chain).tx
NextLeaf == IF chain = <<>> THEN 0 ELSE Last(chain).first + Len(Last(chain).outs)
Aligned(leaf) == ((leaf + BatchSize - 1) \div BatchSize) * BatchSize

\* n outputs of one total, to any owners.
Outs(n, total) ==
    {o \in [1..n -> [owner : Owner, value : 0..total]] : Total(o) = total}

\* The notes an operation may spend together: up to n, of one owner.  Those
\* without value fill its other slots and change nothing.
Spendable(n) ==
    {s \in SUBSET {note \in MadeBy(Ops) : note.leaf \notin SpentBy(Ops) /\ note.value > 0} :
        s # {} /\ Cardinality(s) <= n /\ \A x, y \in s : x.owner = y.owner}

WorthOf(notes) == MapThenSumSet(LAMBDA note : note.value, notes)

SenderOf(spent) == IF spent = {} THEN None ELSE (CHOOSE note \in spent : TRUE).owner

Draft(kind, spent, outs) ==
    [kind |-> kind, outs |-> outs, ins |-> {note.leaf : note \in spent},
     worth |-> WorthOf(spent), sender |-> SenderOf(spent)]

\* A deposit is to one owner, and a withdrawal's change goes to the sender, as
\* every client builds them.  A consumer operation spends the same notes.
DraftsOf(kind) ==
    CASE kind = "deposit" ->
             {Draft(kind, {}, outs) : outs \in {o \in Outs(2, Stake) : o[1].owner = o[2].owner}}
      [] kind = "transfer" ->
             UNION {{Draft(kind, s, outs) : outs \in Outs(2, WorthOf(s))} : s \in Spendable(2)}
      [] kind = "disburse" ->
             UNION {{Draft(kind, s, outs) : outs \in Outs(BatchSize, WorthOf(s))} :
                         s \in Spendable(1)}
      [] kind = "withdraw" ->
             UNION {{Draft(kind, s, <<[owner |-> SenderOf(s), value |-> v]>>) : v \in 0..WorthOf(s)} :
                         s \in Spendable(2)}
      [] kind = "priv" ->
             UNION {{Draft(kind, s, <<[owner |-> o, value |-> WorthOf(s)]>>) : o \in Owner} :
                         s \in Spendable(2)}

\* The last transaction, to which another operation may belong.
Unpolled == IF "bundled" \in mix /\ chain # <<>> /\ \A i \in mem.feed : chain[i].tx # headBlock
            THEN {headBlock} ELSE {}

\* A sender chooses what it wraps for the arbiter's KEM key, and what it
\* publishes of a batch; the proof binds everything else.  Nothing is lost by
\* letting the chain grow between polls only: a poll looks at it once.
Transact ==
    /\ phase = "idle"
    /\ Len(chain) < MaxOps
    /\ \E kind \in mix \ {"spoilt", "bundled", "paged"} : \E draft \in DraftsOf(kind),
          kem \in {"good"} \cup (IF "spoilt" \in mix THEN {"junk"} ELSE {}),
          published \in IF kind = "disburse" THEN Published ELSE {"whole"},
          tx \in {headBlock + 1} \cup Unpolled :
            chain' = Append(chain,
                        [kind |-> kind, outs |-> draft.outs, ins |-> draft.ins,
                         sender |-> draft.sender, worth |-> draft.worth,
                         kem |-> kem, published |-> published, tx |-> tx,
                         first |-> IF kind = "disburse" THEN Aligned(NextLeaf) ELSE NextLeaf])
    /\ UNCHANGED <<mix, mem, db, phase, upTo, reader, faults>>

-----------------------------------------------------------------------------
(* What an operation's envelope says.                                      *)

Item(owner, kind, with, amount) ==
    [owner |-> owner, kind |-> kind, with |-> with, amount |-> amount]

\* To each payee, from the sender.
Payments(op, others) ==
    [k \in 1..(2 * Len(others)) |->
        LET o == others[(k + 1) \div 2]
        IN  IF k % 2 = 1 THEN Item(o.owner, "received", op.sender, o.value)
                         ELSE Item(op.sender, "sent", o.owner, o.value)]

\* Mutant of transferItems: one output of the sender's own is taken for all.
transferItemsMixed(op, nonzero, others) ==
    IF \E i \in DOMAIN nonzero : nonzero[i].owner = op.sender
    THEN << Item(op.sender, "sent", op.sender, nonzero[1].value),
            Item(op.sender, "received", op.sender, nonzero[1].value) >>
    ELSE Payments(op, others)

\* A transfer to oneself alone is a pair; else each payee's is, and the change
\* is not listed.
transferItems(op, nonzero, others) ==
    IF others = <<>> /\ nonzero # <<>>
    THEN << Item(op.sender, "sent", op.sender, nonzero[1].value),
            Item(op.sender, "received", op.sender, nonzero[1].value) >>
    ELSE Payments(op, others)

deriveHistory(op) ==
    LET nonzero == Kept(op.outs, {i \in DOMAIN op.outs : op.outs[i].value # 0})
        others == Kept(nonzero, {i \in DOMAIN nonzero : nonzero[i].owner # op.sender})
        one(owner, kind, amount) ==
            IF amount > 0 THEN <<Item(owner, kind, None, amount)>> ELSE <<>>
    IN  CASE op.kind = "deposit" ->
                 [i \in DOMAIN nonzero |-> Item(nonzero[i].owner, "deposit", None, nonzero[i].value)]
          [] op.kind = "transfer" -> transferItems(op, nonzero, others)
          [] op.kind = "disburse" ->
                 [i \in DOMAIN others |->
                     Item(others[i].owner, "received", op.sender, others[i].value)]
                 \o one(op.sender, "sent", Total(others))
          [] op.kind = "withdraw" -> one(op.sender, "withdraw", op.worth - Total(op.outs))

Nothing == [notes |-> {}, spent |-> {}, alarms |-> <<>>, fill |-> {}, history |-> <<>>]

\* A ciphertext wrapped for no one, or a tail that decrypts to leaves which do
\* not fold to the batch's root, withholds the operation and raises an alarm.
deriveOp(op) ==
    IF op.kem = "junk"
    THEN [Nothing EXCEPT !.alarms = <<[tx |-> op.tx, detail |-> <<"kem">>]>>]
    ELSE IF op.published = "junkTail"
    THEN [Nothing EXCEPT !.alarms = <<[tx |-> op.tx, detail |-> <<"fold", op.first>>]>>]
    ELSE [notes |-> MadeBy({op}),
          spent |-> op.ins,
          alarms |-> <<>>,
          fill |-> IF op.kind = "disburse" THEN {op.first} ELSE {},
          history |-> deriveHistory(op)]

\* The verdict on what was published of a batch, which is baked in its feed entry.
verifyDisclosure(op) ==
    CASE op.published = "whole"   -> "verified"
      [] op.published = "noTail" -> "unverifiable"
      [] op.published = "nothing" -> "withheld"
      [] OTHER                    -> "mismatch"

\* Mutant of Disclosures: a batch of which nothing refutes the hash passes.
DisclosuresProven(feed) ==
    {op \in {chain[i] : i \in feed} : verifyDisclosure(op) = "mismatch"}

\* The disclosure alarms of a feed: every verdict but a full match.
Disclosures(feed) ==
    {op \in {chain[i] : i \in feed} : verifyDisclosure(op) # "verified"}

-----------------------------------------------------------------------------
(* The read model.                                                         *)

NoDirt == [feed |-> {}, notes |-> {}, spent |-> {}, history |-> {}, alarms |-> <<>>,
           applied |-> {}]

NoMem == [feed |-> {}, applied |-> {}, notes |-> {}, spent |-> {}, history |-> <<>>,
          alarms |-> <<>>, filled |-> {}, nextSeq |-> 0, dirty |-> NoDirt, last |-> 0,
          open |-> FALSE]

\* An input whose note the ledger does not know is passed over.
apply(m, i) ==
    LET d == deriveOp(chain[i])
        notes == m.notes \cup d.notes
        spent == {leaf \in d.spent : \E note \in notes : note.leaf = leaf}
        items == [k \in DOMAIN d.history |-> [seq |-> m.nextSeq + k - 1, tx |-> chain[i].tx,
                                              item |-> d.history[k]]]
        dirty == [m.dirty EXCEPT !.applied = @ \cup {i},
                                 !.notes = @ \cup d.notes,
                                 !.spent = @ \cup spent,
                                 !.alarms = @ \o d.alarms,
                                 !.history = @ \cup ToSet(items)]
    IN  IF i \in m.applied
        THEN m
        ELSE [m EXCEPT !.applied = @ \cup {i},
                       !.notes = notes,
                       !.spent = @ \cup spent,
                       !.alarms = @ \o d.alarms,
                       !.filled = @ \cup d.fill,
                       !.history = @ \o items,
                       !.nextSeq = @ + Len(items),
                       !.dirty = dirty]

\* The ledger is handed what has an envelope, when its feed entry is new.
applyLogs(m, i) ==
    LET op == chain[i]
        seen == [m EXCEPT !.feed = @ \cup {i}, !.dirty.feed = @ \cup {i}]
    IN  IF i \in m.feed THEN m
        ELSE IF op.kind = "priv" \/ op.published \in {"noTail", "nothing"} THEN seen
        ELSE apply(seen, i)

OpsBetween(from, to) == InOrder({i \in DOMAIN chain : chain[i].tx \in from + 1 .. to})
Replayed(m, range) == FoldLeft(applyLogs, m, range)

-----------------------------------------------------------------------------
(* The process.                                                            *)

Init ==
    /\ mix \in Mixes
    /\ chain = <<>>
    /\ mem = NoMem
    /\ db = [feed |-> {}, applied |-> {}, notes |-> {}, spent |-> {}, history |-> {},
             alarms |-> <<>>, cursor |-> 0]
    /\ phase = "idle" /\ upTo = 0 /\ faults = 0
    /\ reader = [owner |-> None, before |-> 0, due |-> {}, got |-> <<>>, pages |-> 0]

\* The first replay opens the API when it has committed.
pollOnce ==
    /\ phase = "idle"
    /\ mem.last < headBlock \/ ~mem.open
    /\ mem' = Replayed(mem, OpsBetween(mem.last, headBlock))
    /\ upTo' = headBlock
    /\ phase' = "applied"
    /\ UNCHANGED <<mix, chain, db, reader, faults>>

Fault == faults < MaxFaults /\ faults' = faults + 1

\* A failed poll is tried again with what memory holds; a failed first replay
\* ends the process.
Failed(m) == IF mem.open THEN phase' = "idle" /\ mem' = m
                         ELSE phase' = "down" /\ mem' = NoMem

\* A later log of the range throws: what was applied before it stays.
pollThrows ==
    /\ Fault
    /\ phase = "idle"
    /\ LET range == OpsBetween(mem.last, headBlock)
       IN  \E n \in 1..Len(range) - 1 : Failed(Replayed(mem, SubSeq(range, 1, n)))
    /\ UNCHANGED <<mix, chain, db, upTo, reader>>

\* Rows that are there already are left alone: a note's by its leaf, an item's
\* by its number, an alarm's by its transaction and detail.
InsertAlarms(rows, alarms) ==
    rows \o Kept(alarms, {i \in DOMAIN alarms : /\ alarms[i] \notin ToSet(rows)
                                                /\ \A j \in 1..(i - 1) : alarms[j] # alarms[i]})

\* Mutant of flushInto: the marks of notes whose rows came before are not written.
flushIntoNewOnly ==
    [feed |-> db.feed \cup mem.dirty.feed,
     applied |-> db.applied \cup mem.dirty.applied,
     notes |-> db.notes \cup mem.dirty.notes,
     spent |-> db.spent \cup {l \in mem.dirty.spent : \E n \in mem.dirty.notes : n.leaf = l},
     history |-> db.history \cup {h \in mem.dirty.history : \A k \in db.history : k.seq # h.seq},
     alarms |-> InsertAlarms(db.alarms, mem.dirty.alarms),
     cursor |-> upTo]

flushInto ==
    [feed |-> db.feed \cup mem.dirty.feed,
     applied |-> db.applied \cup mem.dirty.applied,
     notes |-> db.notes \cup mem.dirty.notes,
     spent |-> db.spent \cup mem.dirty.spent,
     history |-> db.history \cup {h \in mem.dirty.history : \A k \in db.history : k.seq # h.seq},
     alarms |-> InsertAlarms(db.alarms, mem.dirty.alarms),
     cursor |-> upTo]

persistAtomically ==
    /\ phase = "applied"
    /\ db' = flushInto
    /\ phase' = "committed"
    /\ UNCHANGED <<mix, chain, mem, upTo, reader, faults>>

commitFlush ==
    /\ phase = "committed"
    /\ mem' = [mem EXCEPT !.dirty = NoDirt, !.last = upTo, !.open = TRUE]
    /\ phase' = "idle"
    /\ UNCHANGED <<mix, chain, db, upTo, reader, faults>>

\* The transaction fails, or commits and its answer is lost: the buffers stay.
RollBack ==
    /\ Fault
    /\ phase \in {"applied", "committed"}
    /\ Failed(mem)
    /\ UNCHANGED <<mix, chain, db, upTo, reader>>

Crash ==
    /\ Fault
    /\ phase # "down"
    /\ phase' = "down"
    /\ mem' = NoMem
    /\ UNCHANGED <<mix, chain, db, upTo, reader>>

\* A batch is opened again when each of its leaves has a note.
Opened(notes) ==
    {chain[i].first : i \in {j \in db.feed : /\ chain[j].kind = "disburse"
                                             /\ LeavesOf(chain[j]) \subseteq {n.leaf : n \in notes}}}

\* The numbering goes on after the last durable item.
NextSeq(history) == IF history = {} THEN 0 ELSE Max({h.seq : h \in history}) + 1

BySeq(history) ==
    [k \in 1..Cardinality(history) |->
        CHOOSE h \in history : Cardinality({g \in history : g.seq < h.seq}) = k - 1]

boot ==
    /\ phase = "down"
    /\ mem' = [feed |-> db.feed, applied |-> db.applied, notes |-> db.notes, spent |-> db.spent,
               history |-> BySeq(db.history),
               alarms |-> db.alarms, filled |-> Opened(db.notes),
               nextSeq |-> NextSeq(db.history), dirty |-> NoDirt, last |-> db.cursor, open |-> FALSE]
    /\ phase' = "idle"
    /\ UNCHANGED <<mix, chain, db, upTo, reader, faults>>

-----------------------------------------------------------------------------
(* What is served.                                                         *)

ActivityOf(owner) == SelectSeq(mem.history, LAMBDA h : h.item.owner = owner)

\* Mutant of lastIndexBelow: the bound itself qualifies.
lastIndexBelowOrAt(feed, before) ==
    LET search[lo, hi, ans \in 0..Len(feed) + 1] ==
            IF lo > hi THEN ans
            ELSE LET mid == (lo + hi) \div 2
                 IN  IF feed[mid].seq <= before THEN search[mid + 1, hi, mid]
                                                ELSE search[lo, mid - 1, ans]
    IN  search[1, Len(feed), 0]

\* The last item of a feed whose number is below a bound, by bisection.
lastIndexBelow(feed, before) ==
    LET search[lo, hi, ans \in 0..Len(feed) + 1] ==
            IF lo > hi THEN ans
            ELSE LET mid == (lo + hi) \div 2
                 IN  IF feed[mid].seq < before THEN search[mid + 1, hi, mid]
                                               ELSE search[lo, mid - 1, ans]
    IN  search[1, Len(feed), 0]

\* The newest items of a feed down from one of its places.
historyOf(feed, start) ==
    [j \in 1..(IF start < PageSize THEN start ELSE PageSize) |-> feed[start - j + 1].seq]

Finished == -1

\* A page is asked for with the bound the last one gave; a short one is the last.
Read(owner, start, due) ==
    LET page == historyOf(ActivityOf(owner), start)
    IN  reader' = [owner |-> owner, due |-> due, got |-> reader.got \o page,
                   before |-> IF Len(page) = PageSize THEN Last(page) ELSE Finished,
                   pages |-> reader.pages + 1]

FirstPage ==
    /\ "paged" \in mix /\ mem.open /\ reader.owner = None
    /\ \E owner \in Owner :
          LET feed == ActivityOf(owner)
          IN  Read(owner, Len(feed), {feed[i].seq : i \in DOMAIN feed})
    /\ UNCHANGED <<mix, chain, mem, db, phase, upTo, faults>>

NextPage ==
    /\ mem.open /\ reader.owner # None
    /\ reader.before # Finished /\ reader.pages < MaxPages
    /\ Read(reader.owner, lastIndexBelow(ActivityOf(reader.owner), reader.before), reader.due)
    /\ UNCHANGED <<mix, chain, mem, db, phase, upTo, faults>>

Next == \/ Transact \/ pollOnce \/ persistAtomically \/ commitFlush \/ boot
        \/ pollThrows \/ RollBack \/ Crash
        \/ FirstPage \/ NextPage

Spec == Init /\ [][Next]_vars

-----------------------------------------------------------------------------
(* Properties.                                                             *)

Same(m, r) == /\ m.notes = r.notes /\ m.spent = r.spent
              /\ m.feed = r.feed /\ m.applied = r.applied

\* Whatever failed and was retried, and however often the process was restarted: the
\* rows are those of one replay of the chain up to the cursor, and what is served is
\* one replay of the operations seen so far, numbers and opened batches included.
LedgerTellsTheChain ==
    /\ LET r == Replayed(NoMem, OpsBetween(0, db.cursor))
       IN  Same(db, r) /\ db.history = ToSet(r.history) /\ ToSet(db.alarms) = ToSet(r.alarms)
    /\ LET r == Replayed(NoMem, InOrder(mem.feed))
       IN  Same(mem, r) /\ mem.history = r.history /\ mem.filled = r.filled

SumOf(owner, kinds) ==
    FoldLeft(LAMBDA sum, h : IF h.item.kind \in kinds THEN sum + h.item.amount ELSE sum,
             0, ActivityOf(owner))

Unspent(owner) == WorthOf({n \in mem.notes : n.owner = owner /\ n.leaf \notin mem.spent})

\* The two views the arbiter serves of an owner agree: when every operation could be
\* read, what its activity says it received less what it sent is what its unspent notes
\* are worth, change, splits and payments to oneself included.
BalancesAgree ==
    (\A i \in mem.feed : /\ chain[i].kind # "priv" /\ chain[i].kem = "good"
                         /\ chain[i].published \in {"whole", "junkReceivers"})
    => \A owner \in Owner :
           SumOf(owner, {"deposit", "received"}) - SumOf(owner, {"sent", "withdraw"}) = Unspent(owner)

\* No enterprise operation escapes the auditor silently: when its notes are not
\* in the ledger, an alarm about it is served, before and after any restart.
NoSilentGap ==
    \A i \in mem.feed :
        \/ chain[i].kind = "priv"
        \/ MadeBy({chain[i]}) \subseteq mem.notes
        \/ \E a \in ToSet(mem.alarms) : a.tx = chain[i].tx
        \/ chain[i] \in Disclosures(mem.feed)

\* A reader who pages through an owner's activity gets what was there at the first page,
\* each item once and newest first, whatever is added or retried in between.
PagesTellTheActivity ==
    /\ \A i, j \in DOMAIN reader.got : i < j => reader.got[i] > reader.got[j]
    /\ reader.owner # None /\ reader.before = Finished => ToSet(reader.got) = reader.due
=============================================================================
