------------------------------- MODULE Indexer -------------------------------
(***************************************************************************)
(* The EVM indexer (apps/indexer/src): it polls the logs of the pool and   *)
(* of the modules it watches, applies them to a read model in memory, and  *)
(* commits the rows they gave with the block cursor in one transaction.    *)
(* Any step may fail, and is then retried from the old cursor; a restart   *)
(* rebuilds the read model from the rows.                                  *)
(*                                                                         *)
(* Every block is one transaction.  A leaf stands for its index, a batch   *)
(* for the one node its attach inserts, a family event for the leaf it     *)
(* correlates with (its nullifiers are added in the same step as its feed  *)
(* entry, by the same first-sight gate, and need no state of their own).   *)
(***************************************************************************)
EXTENDS Integers, FiniteSets, Sequences, SequencesExt, Ordered

CONSTANTS Module,     \* the consumer module contracts
          Pool,       \* the pool, as the emitter of a log
          Chunk,      \* the KEM ciphertext chunks of a batch
          Traffics,   \* the mixes of transactions a chain may carry
          Calldata,   \* what decoding a chunk's calldata may give
          MaxBlocks,  \* bound on the chain
          MaxFaults   \* bound on crashes and failures

ASSUME IndexerAssumption ==
    /\ Pool \notin Module
    /\ Traffics \subseteq SUBSET {"pool", "module", "disburse", "bundle", "silent",
                                  "accept", "register", "remove"}
    /\ Calldata \subseteq {"bytes", "undecodable", "corrupt"}
    /\ MaxBlocks \in Nat /\ MaxFaults \in Nat

VARIABLES traffic,  \* what this chain carries
          chain,    \* the logs of the chain, in order
          mem,      \* the read model, its replay gates and write-behind buffers
          db,       \* the rows that are durable, and the cursor
          phase,    \* where the process is in a poll
          upTo,     \* the head block of the poll in flight
          todo,     \* the places of its logs not applied yet
          tree,     \* its tree events no family event took yet
          faults    \* the failures so far

vars == <<traffic, chain, mem, db, phase, upTo, todo, tree, faults>>

-----------------------------------------------------------------------------
(* The chain: the logs the pool and the modules emit.                      *)

headBlock == IF chain = <<>> THEN 0 ELSE chain[Len(chain)].block

IsTree(l) == l.name \in {"Appended", "SubtreeAppended"}
IsFamily(l) == l.name \in {"Op", "Disbursed"}
IsRegistry(l, m) == l.name \in {"ModuleRegistered", "ModuleRemoved"} /\ l.module = m

\* What the logs at some places of the chain come to.
LeavesOf(places) == {chain[i].leaf : i \in {j \in places : IsTree(chain[j])}}

FeedOf(places) ==
    LET of == {i \in places : IsFamily(chain[i])}
    IN  [k \in 1..Cardinality(of) |-> chain[InOrder(of)[k]].leaf]

RegistryOf(places) ==
    [m \in Module |->
        LET of == {i \in places : IsRegistry(chain[i], m)}
        IN  IF of = {} THEN "unknown"
            ELSE IF \E i \in of : /\ chain[i].name = "ModuleRegistered"
                                 /\ \A j \in of : j <= i
            THEN "registered" ELSE "removed"]

AcceptsOf(places) ==
    {<<chain[i].leaf, chain[i].chunk>> : i \in {j \in places : chain[j].name = "Accepted"}}

Until(b) == {i \in DOMAIN chain : chain[i].block <= b}

LeavesAt(b) == LeavesOf(Until(b))
FeedAt(b) == FeedOf(Until(b))
RegistryAt(b) == RegistryOf(Until(b))
AcceptsAt(b) == AcceptsOf(Until(b))

\* The logs of one operation: its tree event, from the pool, then its own.
OpLogs(name, from, leaf) ==
    << [name |-> IF name = "Disbursed" THEN "SubtreeAppended" ELSE "Appended",
        from |-> Pool, block |-> headBlock + 1, leaf |-> leaf],
       [name |-> name, from |-> from, block |-> headBlock + 1, leaf |-> leaf] >>

RegistryLog(name, m) == << [name |-> name, from |-> Pool, block |-> headBlock + 1, module |-> m] >>

\* A batch's own module accepts each of its chunks once, registered or not.
Unaccepted ==
    {l \in [name : {"Accepted"}, from : Module, block : {headBlock + 1},
            leaf : LeavesAt(headBlock), chunk : Chunk] :
        /\ \E i \in DOMAIN chain : /\ chain[i].name = "Disbursed"
                                   /\ chain[i].from = l.from
                                   /\ chain[i].leaf = l.leaf
        /\ <<l.leaf, l.chunk>> \notin AcceptsAt(headBlock)}

\* A registered module may change the tree and emit no event of its own.
TxsOf(kind) ==
    LET next == Cardinality(LeavesAt(headBlock))
        live == {m \in Module : RegistryAt(headBlock)[m] = "registered"}
    IN  CASE kind = "pool"     -> {OpLogs("Op", Pool, next)}
          [] kind = "module"   -> {OpLogs("Op", m, next) : m \in live}
          [] kind = "disburse" -> {OpLogs("Disbursed", m, next) : m \in live}
          [] kind = "bundle"   -> {OpLogs("Op", m, next) \o OpLogs("Op", Pool, next + 1) : m \in live}
          [] kind = "silent"   -> {<<OpLogs("Op", m, next)[1]>> : m \in live}
          [] kind = "accept"   -> {<<l>> : l \in Unaccepted}
          [] kind = "register" -> {RegistryLog("ModuleRegistered", m) : m \in Module \ live}
          [] kind = "remove"   -> {RegistryLog("ModuleRemoved", m) : m \in live}

Block ==
    /\ headBlock < MaxBlocks
    /\ phase # "applying"
    /\ \E kind \in traffic : \E tx \in TxsOf(kind) : chain' = chain \o tx
    /\ UNCHANGED <<traffic, mem, db, phase, upTo, todo, tree, faults>>

-----------------------------------------------------------------------------
(* What a poll delivers.                                                   *)

pendingModules(m) ==
    {b.module : b \in {x \in m.batches : \E c \in Chunk : <<x.leaf, c>> \notin m.accepted}}

\* Mutant of watchAddresses: only registered modules are watched.
watchRegistered(m) == {a \in Module : m.registry[a] = "registered"}

watchAddresses(m) ==
    {a \in Module : \/ m.registry[a] = "registered"
                    \/ m.registry[a] = "removed" /\ a \in pendingModules(m)}

\* The second scan asks for the watched modules and those registered in the
\* range; the address gate then admits a module's log when it is watched, or
\* registered earlier in the range, so what the gate keeps is what arrives.
Delivered ==
    LET new(l) == l.block > mem.lastBlock
        registered(l) == \E i \in DOMAIN chain : /\ chain[i].name = "ModuleRegistered"
                                                 /\ chain[i].module = l.from
                                                 /\ new(chain[i]) /\ chain[i].block < l.block
    IN  {i \in DOMAIN chain : /\ new(chain[i])
                              /\ \/ chain[i].from = Pool
                                 \/ chain[i].from \in watchAddresses(mem)
                                 \/ registered(chain[i])}

-----------------------------------------------------------------------------
(***************************************************************************)
(* applyLogs, one action per handler: first the tree events drive the      *)
(* mirror, then the other logs build the feed, each in chain order.  It    *)
(* runs in one turn of the event loop, so nothing happens in between.  A   *)
(* handler that throws ends the poll and leaves what the others changed.   *)
(***************************************************************************)
\* The log at place i is the one whose turn it is, and has one of the names.
NextIs(i, names) ==
    /\ phase = "applying" /\ chain[i].name \in names
    /\ \A j \in todo : IF IsTree(chain[i]) = IsTree(chain[j]) THEN i <= j ELSE IsTree(chain[i])

Go(i, m, left) ==
    /\ mem' = m
    /\ todo' = todo \ {i}
    /\ phase' = IF todo' = {} THEN "applied" ELSE "applying"
    /\ tree' = IF todo' = {} THEN {} ELSE left
    /\ UNCHANGED <<traffic, chain, db, upTo, faults>>

Throw(m) ==
    /\ mem' = m
    /\ todo' = {} /\ tree' = {}
    /\ phase' = "idle"
    /\ UNCHANGED <<traffic, chain, db, upTo, faults>>

\* The rows of leaves not recorded before.
recordLeaf(m, leaves) ==
    LET dirty == [m.dirty EXCEPT !.leaves = @ \cup (leaves \ m.leaves)]
    IN  [m EXCEPT !.leaves = @ \cup leaves, !.dirty = dirty]

\* An attach records the row of its batch, replayed or not.
rowOf(l) == IF l.name = "SubtreeAppended" THEN {l.leaf} ELSE {}

\* The mirror: an insert below the frontier is a replay and is skipped.
applyAppend ==
    \E i \in todo :
        LET l == chain[i]
            inserted == [mem EXCEPT !.frontier = IF l.leaf = @ THEN @ + 1 ELSE @]
        IN  /\ NextIs(i, {"Appended", "SubtreeAppended"})
            /\ IF l.leaf > mem.frontier
               THEN Throw([mem EXCEPT !.frontier = @ + 1])
               ELSE Go(i, recordLeaf(inserted, rowOf(l)), tree \cup {l})

seenEvent(m, l) == \E i \in DOMAIN m.feed : m.feed[i] = l.leaf

addEvent(m, l) ==
    LET dirty == [m.dirty EXCEPT !.feed = Append(@, l.leaf)]
    IN  IF seenEvent(m, l) THEN m
        ELSE [m EXCEPT !.feed = Append(@, l.leaf), !.dirty = dirty]

\* Done at the first sight of the event only.
recordBatch(m, l) ==
    LET batch == {[leaf |-> l.leaf, module |-> l.from]}
        dirty == [m.dirty EXCEPT !.batches = @ \cup batch]
    IN  IF seenEvent(m, l) \/ \E b \in m.batches : b.leaf = l.leaf
        THEN m
        ELSE [m EXCEPT !.batches = @ \cup batch, !.dirty = dirty]

\* What a family event adds to the read model.
FamilyAdds(m, l) == IF l.name = "Op" THEN addEvent(recordLeaf(m, {l.leaf}), l)
                                     ELSE addEvent(recordBatch(m, l), l)

\* The tree events of its transaction and kind that no family event took yet.
Untaken(l) == {t \in tree : /\ t.block = l.block
                            /\ (t.name = "SubtreeAppended") = (l.name = "Disbursed")}

\* Mutant of familyEvent: it takes the transaction's last tree event.
familyEventLast ==
    \E i \in todo :
        LET l == chain[i]
            next == CHOOSE t \in Untaken(l) : \A u \in Untaken(l) : t.leaf >= u.leaf
        IN  /\ NextIs(i, {"Op", "Disbursed"})
            /\ IF Untaken(l) = {} \/ next.leaf # l.leaf
               THEN Throw(mem)
               ELSE Go(i, FamilyAdds(mem, l), tree \ {next})

\* A family event takes its transaction's next tree event of its kind, and
\* throws unless that is its own.
familyEvent ==
    \E i \in todo :
        LET l == chain[i]
            next == CHOOSE t \in Untaken(l) : \A u \in Untaken(l) : t.leaf <= u.leaf
        IN  /\ NextIs(i, {"Op", "Disbursed"})
            /\ IF Untaken(l) = {} \/ next.leaf # l.leaf
               THEN Throw(mem)
               ELSE Go(i, FamilyAdds(mem, l), tree \ {next})

Marked(l) == [mem EXCEPT !.seen = @ \cup {l}]

\* The registry stream is balanced: anything else is corruption.
registryEvent ==
    \E i \in todo :
        LET l == chain[i]
            live == mem.registry[l.module] = "registered"
            registry == [mem.registry EXCEPT ![l.module] = IF live THEN "removed" ELSE "registered"]
            dirty == [mem.dirty EXCEPT !.modules = @ \cup {l.module}]
        IN  /\ NextIs(i, {"ModuleRegistered", "ModuleRemoved"})
            /\ IF l \in mem.seen THEN Go(i, mem, tree)
               ELSE IF live = (l.name = "ModuleRegistered") THEN Throw(Marked(l))
               ELSE Go(i, [Marked(l) EXCEPT !.registry = registry, !.dirty = dirty], tree)

\* An accept is marked seen before its bytes are checked against the hash.
acceptChunk ==
    \E i \in todo, got \in Calldata :
        LET l == chain[i]
            chunk == <<l.leaf, l.chunk>>
            bytes == IF got = "bytes" THEN {chunk} ELSE {}
            known == \E b \in mem.batches : b.leaf = l.leaf
            dirty == [mem.dirty EXCEPT !.accepted = @ \cup {chunk}, !.bytes = @ \cup bytes]
        IN  /\ NextIs(i, {"Accepted"})
            /\ IF l \in mem.seen THEN Go(i, mem, tree)
               ELSE IF ~known \/ chunk \in mem.accepted THEN Go(i, Marked(l), tree)
               ELSE IF got = "corrupt" THEN Throw(Marked(l))
               ELSE Go(i, [Marked(l) EXCEPT !.accepted = @ \cup {chunk},
                                            !.bytes = @ \cup bytes, !.dirty = dirty], tree)

-----------------------------------------------------------------------------
(* The process.                                                            *)

NoDirt == [leaves |-> {}, feed |-> <<>>, modules |-> {}, batches |-> {},
           accepted |-> {}, bytes |-> {}]

NoMem == [frontier |-> 0, leaves |-> {}, feed |-> <<>>,
          registry |-> [m \in Module |-> "unknown"],
          batches |-> {}, accepted |-> {}, bytes |-> {}, seen |-> {},
          dirty |-> NoDirt, lastBlock |-> 0]

Init ==
    /\ traffic \in Traffics
    /\ chain = <<>>
    /\ mem = NoMem
    /\ db = [leaves |-> {}, feed |-> <<>>, registry |-> [m \in Module |-> "unknown"],
             batches |-> {}, accepted |-> {}, bytes |-> {}, cursor |-> 0]
    /\ phase = "down" /\ upTo = 0 /\ todo = {} /\ tree = {} /\ faults = 0

\* The rows rebuild the mirror: without a gap, and to the root at the cursor.
Rebuilds == db.leaves = LeavesAt(db.cursor)

\* Boot also tries again to fetch the bytes of the chunks that have none.
bootPostgres ==
    /\ phase = "down"
    /\ Rebuilds
    /\ \E found \in SUBSET (db.accepted \ db.bytes) :
         mem' = [frontier |-> Cardinality(db.leaves), leaves |-> db.leaves,
                 feed |-> db.feed, registry |-> db.registry,
                 batches |-> db.batches, accepted |-> db.accepted,
                 bytes |-> db.bytes \cup found, seen |-> {},
                 dirty |-> [NoDirt EXCEPT !.bytes = found],
                 lastBlock |-> db.cursor]
    /\ phase' = "idle"
    /\ UNCHANGED <<traffic, chain, db, upTo, todo, tree, faults>>

\* A poll takes the head and scans up to it.
pollOnce ==
    /\ phase = "idle"
    /\ mem.lastBlock < headBlock
    /\ todo' = Delivered
    /\ phase' = IF todo' = {} THEN "applied" ELSE "applying"
    /\ upTo' = headBlock
    /\ UNCHANGED <<traffic, chain, mem, db, tree, faults>>

Unknown(rows) == Kept(rows, {k \in DOMAIN rows : rows[k] \notin ToSet(db.feed)})

\* The rows after the transaction; a row that is there already is left alone.
Flushed ==
    [leaves |-> db.leaves \cup mem.dirty.leaves,
     feed |-> db.feed \o Unknown(mem.dirty.feed),
     registry |-> [m \in Module |-> IF m \in mem.dirty.modules
                                    THEN mem.registry[m] ELSE db.registry[m]],
     batches |-> db.batches \cup mem.dirty.batches,
     accepted |-> db.accepted \cup mem.dirty.accepted,
     bytes |-> db.bytes \cup mem.dirty.bytes,
     cursor |-> upTo]

\* The head check: the mirror is the contract's tree at the scanned block.
MirrorAgrees == mem.frontier = Cardinality(LeavesAt(upTo))

persistAtomically ==
    /\ phase = "applied"
    /\ MirrorAgrees
    /\ db' = Flushed
    /\ phase' = "committed"
    /\ UNCHANGED <<traffic, chain, mem, upTo, todo, tree, faults>>

\* After COMMIT returns: the buffers are dropped and the cursor advances.
commitFlush ==
    /\ phase = "committed"
    /\ mem' = [mem EXCEPT !.dirty = NoDirt, !.lastBlock = upTo]
    /\ phase' = "idle"
    /\ UNCHANGED <<traffic, chain, db, upTo, todo, tree, faults>>

Fault == faults < MaxFaults /\ faults' = faults + 1

\* Mutant of RollBack: the buffers are dropped although nothing committed.
RollBackDropping ==
    /\ Fault
    /\ phase = "applied"
    /\ phase' = "idle"
    /\ mem' = [mem EXCEPT !.dirty = NoDirt]
    /\ UNCHANGED <<traffic, chain, db, upTo, todo, tree>>

\* The head check or the transaction fails: the range is retried.
RollBack ==
    /\ Fault
    /\ phase = "applied"
    /\ phase' = "idle"
    /\ UNCHANGED <<traffic, chain, mem, db, upTo, todo, tree>>

\* The transaction commits and the connection dies before it says so.
CommitUnheard ==
    /\ Fault
    /\ phase = "committed"
    /\ phase' = "idle"
    /\ UNCHANGED <<traffic, chain, mem, db, upTo, todo, tree>>

Crash ==
    /\ Fault
    /\ phase \notin {"down", "applying"}
    /\ phase' = "down"
    /\ mem' = NoMem
    /\ UNCHANGED <<traffic, chain, db, upTo, todo, tree>>

Next == \/ Block
        \/ bootPostgres \/ pollOnce
        \/ applyAppend \/ familyEvent \/ registryEvent \/ acceptChunk
        \/ persistAtomically \/ commitFlush
        \/ RollBack \/ CommitUnheard \/ Crash

Spec == Init /\ [][Next]_vars

\* The supervisor restarts a process that exits, the poll timer never stops,
\* and a poll that met no failure runs to its end.
Fairness == /\ WF_vars(bootPostgres) /\ WF_vars(pollOnce)
            /\ WF_vars(applyAppend \/ familyEvent \/ registryEvent \/ acceptChunk)
            /\ WF_vars(persistAtomically) /\ WF_vars(commitFlush)

FairSpec == Spec /\ Fairness

-----------------------------------------------------------------------------
\* A restart never gets stuck: whatever failed before, the leaf rows rebuild
\* the tree the contract had at the durable cursor, which boot insists on.
RestartRebuildsTheTree == Rebuilds

\* The rows are the chain's at the cursor, whatever was retried: the feed has every
\* event once and in order, and what is served is a prefix of it; the registry does not
\* run ahead with the one in memory; and no chunk accept is missed, not even one of a
\* removed module.
RowsTellTheChain ==
    /\ db.feed = FeedAt(db.cursor)
    /\ IsPrefix(mem.feed, FeedAt(headBlock))
    /\ db.registry = RegistryAt(db.cursor)
    /\ db.accepted = AcceptsAt(db.cursor)

\* The registry in memory runs ahead of the cursor: a module was removed further on
\* in the range, and so the next poll of it does not ask for one of its operations
\* (watchAddresses).  If that was followed by another in its transaction, the other
\* takes its tree event and throws, on every poll until a restart reads the rows.
Unwatched ==
    /\ phase # "down"
    /\ \E i, j \in DOMAIN chain :
         /\ i < j /\ IsFamily(chain[i]) /\ IsFamily(chain[j])
         /\ chain[i].block = chain[j].block
         /\ j \in Delivered /\ i \notin Delivered

\* Every block is committed eventually, whatever failed, with one exception: a process
\* that has a bundled operation unwatched for good retries the range in vain for ever.
CatchesUp ==
    \/ <>[]Unwatched
    \/ \A b \in 1..MaxBlocks : (headBlock >= b) ~> (db.cursor >= b)
=============================================================================
