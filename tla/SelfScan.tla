------------------------------ MODULE SelfScan ------------------------------
(***************************************************************************)
(* How a wallet without an arbiter finds its notes: passes over the public *)
(* feed (packages/client/src/scan/selfscan), the ScanSession that resumes  *)
(* them from memory or the device (scan/session.ts) and the page that      *)
(* starts them (apps/wallet-web/src/ui/App.tsx).                           *)
(*                                                                         *)
(* A pass awaits the indexer many times.  Meanwhile the feed grows, chunks *)
(* of a batch are delivered, another pass ends, the user signs out or      *)
(* disconnects, the wallet changes account, the page reloads.  An event    *)
(* appends one leaf and holds one note, named by the event's number; the   *)
(* numbers start at 1.  What a view tag lets through by chance is left     *)
(* out: the leaf match drops it.                                           *)
(***************************************************************************)
EXTENDS Naturals, Sequences, FiniteSets

CONSTANTS Owner,      \* owners of notes; the key of each can be held by the page
          None,       \* no owner, no state
          PageSize,   \* the events of a page of the feed
          Settings    \* the settings a behaviour may have, each with its bounds

Kind == {"single", "batch", "gated"}

\* Who is on the feed, with which events; the pages a pass may read; bounds on the
\* events, on the notes that are spent, on the reads that fail and on what the user and
\* the wallet do.
Setting == [owners : (SUBSET Owner) \ {{}}, kinds : SUBSET Kind, maxPages : Nat \ {0},
            MaxFeed : Nat, MaxSpends : Nat, MaxFaults : Nat, MaxMoves : Nat]

ASSUME SelfScanAssumption ==
    /\ None \notin Owner
    /\ PageSize \in Nat \ {0}
    /\ Settings \subseteq Setting

VARIABLES bound,      \* the setting of this behaviour
          feed,       \* the events, in order
          delivered,  \* the batches whose KEM ciphertexts the indexer assembled
          nullifiers, \* the notes whose nullifiers are public
          session,    \* who is signed in
          held,       \* whose key the page holds
          state,      \* the scan in memory
          owner,      \* the owner it is stamped with
          store,      \* each owner's row on the device
          passes,     \* the passes under way
          faults, moves

indexer == <<feed, delivered, nullifiers>>
page == <<session, held>>
scans == <<state, owner, store>>
vars == <<bound, indexer, page, scans, passes, faults, moves>>

\* The automatic refresh does not overlap itself; a manual one, or the reload
\* between the legs of a spend, may overlap it.
Slot == {"tick", "asked"}

\* "dropped" is not in the code: what this state's passes could not confirm.
EMPTY_SCAN_STATE == [cursor |-> 0, covered |-> 0, notes |-> {}, spent |-> {},
                     pending |-> {}, dropped |-> {}]

NoPass == [pc |-> "idle"]

Most(x, y) == IF x > y THEN x ELSE y

Of(o, seqs) == {i \in seqs : feed[i].to = o}

-----------------------------------------------------------------------------
(* The indexer: the feed and what is public beside it.                     *)

Append1 ==
    /\ Len(feed) < bound.MaxFeed
    /\ \E k \in bound.kinds, o \in bound.owners : feed' = Append(feed, [kind |-> k, to |-> o])
    /\ UNCHANGED <<delivered, nullifiers>>

Deliver ==
    /\ \E i \in DOMAIN feed \ delivered :
          feed[i].kind = "batch" /\ delivered' = delivered \cup {i}
    /\ UNCHANGED <<feed, nullifiers>>

SpendNote ==
    /\ Cardinality(nullifiers) < bound.MaxSpends
    /\ \E i \in DOMAIN feed \ nullifiers : nullifiers' = nullifiers \cup {i}
    /\ UNCHANGED <<feed, delivered>>

IndexerMoves ==
    /\ Append1 \/ Deliver \/ SpendNote
    /\ UNCHANGED <<bound, page, scans, passes, faults, moves>>

-----------------------------------------------------------------------------
(* The pure pass over the events that were read.                           *)

\* A batch's notes match its published run; whatever else was decrypted awaits a
\* path; a batch with our tag and no ciphertexts yet is pending.
scanEventsPass(seqs, complete, o) ==
    LET mine == Of(o, seqs)
        batch == {i \in mine : feed[i].kind = "batch"}
    IN [accepted |-> batch \cap complete,
        pending |-> batch \ complete,
        candidates |-> mine \ batch]

\* The path of an enterprise batch's leaf is refused to the public.
confirmed(candidates, failed) == {i \in candidates : feed[i].kind = "single"} \ failed

gated(candidates) == {i \in candidates : feed[i].kind = "gated"}

kept(p) == p.prev.pending \ p.reread

\* Leaves are numbered as events are, so the window covers up to its last event.
covered(p) == Most(p.prev.covered, IF p.exhausted THEN p.head ELSE p.at)

nextState(p) ==
    LET pass == scanEventsPass(((p.prev.cursor + 1)..p.at) \cup p.reread, p.complete, p.owner)
        notes == p.prev.notes \cup pass.accepted \cup confirmed(pass.candidates, p.failed)
    IN [cursor |-> p.at,
        covered |-> covered(p),
        notes |-> notes,
        spent |-> notes \cap nullifiers,
        pending |-> kept(p) \cup pass.pending \cup gated(pass.candidates),
        dropped |-> p.prev.dropped \cup p.failed]

-----------------------------------------------------------------------------
(* ScanSession.scan: resume, one pass, write the whole state back.         *)

\* Mutant: memory is resumed whoever's it is.
resumedUnstamped(o) == IF state /= None THEN state
                       ELSE IF store[o] /= None THEN store[o]
                       ELSE EMPTY_SCAN_STATE

\* Memory is resumed only under its owner's stamp.
resumed(o) == IF owner = o /\ state /= None THEN state
              ELSE IF store[o] /= None THEN store[o]
              ELSE EMPTY_SCAN_STATE

WriteBack(o, s) ==
    /\ state' = s /\ owner' = o
    /\ store' = [store EXCEPT ![o] = s]

\* A pass starts.  Without the key it serves what it has, at once.  A tick comes by
\* itself; what else starts a pass, an action or a change on the screen, is finite.
scan(slot) ==
    /\ session /= None /\ passes[slot] = NoPass
    /\ IF slot = "tick" THEN UNCHANGED moves
                        ELSE moves < bound.MaxMoves /\ moves' = moves + 1
    /\ LET prev == resumed(session) IN
       IF held = session
       THEN /\ passes' = [passes EXCEPT ![slot] =
                  [pc |-> "head", owner |-> session, prev |-> prev,
                   head |-> 0, at |-> prev.cursor, pages |-> 0, exhausted |-> FALSE,
                   complete |-> {}, reread |-> {}, failed |-> {}]]
            /\ UNCHANGED scans
       ELSE /\ WriteBack(session, prev)
            /\ UNCHANGED passes
    /\ UNCHANGED <<bound, indexer, page, faults>>

Awaits(slot, pc) == passes[slot].pc = pc

\* A step of a pass that only reads.
Reads(slot, p) ==
    /\ passes' = [passes EXCEPT ![slot] = p]
    /\ UNCHANGED <<bound, indexer, page, scans, moves>>

readHead(slot) ==
    /\ Awaits(slot, "head")
    /\ Reads(slot, [passes[slot] EXCEPT !.head = Len(feed), !.pc = "drain"])
    /\ UNCHANGED faults

\* A page that brings nothing ends the drain; so does the last page allowed.
readPage(slot) ==
    /\ Awaits(slot, "drain")
    /\ LET p == passes[slot]
           to == IF p.at + PageSize < Len(feed) THEN p.at + PageSize ELSE Len(feed)
           capped == p.pages + 1 = bound.maxPages
       IN Reads(slot, [p EXCEPT !.at = to,
                                !.pages = @ + 1,
                                !.complete = @ \cup (((p.at + 1)..to) \cap delivered),
                                !.exhausted = to = p.at,
                                !.pc = IF to = p.at \/ capped THEN "reread" ELSE "drain"])
    /\ UNCHANGED faults

\* Mutant: what is below the cursor was read before.
toRereadNew(p) == {i \in p.prev.pending : i > p.prev.cursor}

\* Every pending entry is read again, on every pass.
toReread(p) == p.prev.pending

\* One that fails stays pending.  Then the paths of the single appends; one that
\* cannot be read drops its note for good.  A path is there as soon as its event is,
\* so reading the paths is no step of its own.
rereadAndConfirm(slot) ==
    /\ Awaits(slot, "reread")
    /\ LET p == passes[slot]
           singles == {i \in Of(p.owner, (p.prev.cursor + 1)..p.at) : feed[i].kind = "single"}
       IN \E lost \in SUBSET toReread(p), failed \in SUBSET singles :
             /\ faults' = faults + Cardinality(lost) + Cardinality(failed)
             /\ faults' <= bound.MaxFaults
             /\ Reads(slot, [p EXCEPT !.reread = toReread(p) \ lost,
                                      !.complete = @ \cup ((toReread(p) \ lost) \cap delivered),
                                      !.failed = failed,
                                      !.pc = "nullifiers"])

\* The nullifiers are read and the pass ends, whoever is signed in by now.
finish(slot) ==
    /\ Awaits(slot, "nullifiers")
    /\ WriteBack(passes[slot].owner, nextState(passes[slot]))
    /\ passes' = [passes EXCEPT ![slot] = NoPass]
    /\ UNCHANGED <<bound, indexer, page, faults, moves>>

\* The head, a page or the nullifiers cannot be read: the pass ends with nothing done.
readFails(slot) ==
    /\ passes[slot].pc \in {"head", "drain", "nullifiers"}
    /\ faults < bound.MaxFaults /\ faults' = faults + 1
    /\ Reads(slot, NoPass)

PassStep(slot) ==
    \/ readHead(slot) \/ readPage(slot) \/ rereadAndConfirm(slot) \/ finish(slot)

-----------------------------------------------------------------------------
(* The session around the passes.                                          *)

Moves == moves < bound.MaxMoves /\ moves' = moves + 1 /\ UNCHANGED <<bound, indexer, faults>>

connectWallet(o) ==
    /\ session = None /\ Moves
    /\ session' = o /\ held' = o
    /\ UNCHANGED <<scans, passes>>

unlock ==
    /\ session /= None /\ held /= session
    /\ held' = session
    /\ UNCHANGED <<bound, indexer, session, scans, passes, faults, moves>>

\* The idle deadline drops the key alone.
IdleWipe ==
    /\ held /= None /\ Moves
    /\ held' = None
    /\ UNCHANGED <<session, scans, passes>>

\* Another account drops the key and the scan in memory; the stamp stays.
accountsChanged ==
    /\ session /= None /\ Moves
    /\ held' = None /\ state' = None
    /\ UNCHANGED <<session, owner, store, passes>>

\* A sign-out, or the explicit Disconnect, which clears the stamped owner's row.
\* Neither ends a pass that is under way.
endSession(forget) ==
    /\ session /= None /\ Moves
    /\ session' = None /\ held' = None
    /\ state' = None /\ owner' = None
    /\ store' = IF forget /\ owner /= None THEN [store EXCEPT ![owner] = None] ELSE store
    /\ UNCHANGED passes

\* A page opens without a login, or with the one the device remembers: locked, and
\* its first pass, which needs no key, serves the stored row at once.
Opened(o) ==
    /\ session' = o /\ held' = None
    /\ IF o = None
       THEN state' = None /\ owner' = None /\ UNCHANGED store
       ELSE WriteBack(o, IF store[o] = None THEN EMPTY_SCAN_STATE ELSE store[o])

\* A reload keeps the rows alone; the login comes back if its account does.
Reload ==
    /\ Moves
    /\ Opened(session) \/ Opened(None)
    /\ passes' = [s \in Slot |-> NoPass]

-----------------------------------------------------------------------------
\* The device remembers a login or none; no scan is stored on it yet.
Init ==
    /\ bound \in Settings
    /\ feed = <<>> /\ delivered = {} /\ nullifiers = {}
    /\ session \in bound.owners \cup {None} /\ held = None
    /\ owner = session
    /\ state = IF session = None THEN None ELSE EMPTY_SCAN_STATE
    /\ store = [o \in Owner |-> IF o = session THEN EMPTY_SCAN_STATE ELSE None]
    /\ passes = [s \in Slot |-> NoPass]
    /\ faults = 0 /\ moves = 0

Lifecycle ==
    \/ \E o \in bound.owners : connectWallet(o)
    \/ unlock \/ IdleWipe \/ accountsChanged \/ Reload
    \/ \E forget \in BOOLEAN : endSession(forget)

Next ==
    \/ IndexerMoves
    \/ Lifecycle
    \/ \E slot \in Slot : scan(slot) \/ PassStep(slot) \/ readFails(slot)

Spec == Init /\ [][Next]_vars

\* The tab stays visible, so a tick comes again and again, and reads are answered.
FairSpec ==
    /\ Spec
    /\ WF_vars(scan("tick"))
    /\ \A slot \in Slot : WF_vars(PassStep(slot))

-----------------------------------------------------------------------------
(* Properties.                                                             *)

\* Every state a scan may be resumed from, with its owner.
Resumable == {<<o, store[o]>> : o \in {o \in Owner : store[o] /= None}}
             \cup (IF state = None THEN {} ELSE {<<owner, state>>})

\* However the feed was cut into passes, which reads failed, which passes overlapped
\* and who was signed in meanwhile, a state is that of one scan up to its cursor: each
\* event that holds a note of the owner, and no other, is found, pending or was dropped
\* for its path; and the stamp the sync dot reads covers no leaf whose event was not
\* read (packages/client/src/scan/selfscan/run.ts, resumability and coverage).
AnyScanIsOneScan ==
    \A r \in Resumable :
        LET s == r[2] IN
        /\ s.notes \cup s.pending \cup s.dropped = Of(r[1], 1..s.cursor)
        /\ s.notes \cap (s.pending \cup s.dropped) = {}
        /\ s.covered <= s.cursor

\* What o's wallet can find of the feed, but for what its scan dropped.
Findable(o) == {i \in Of(o, DOMAIN feed) :
                  \/ feed[i].kind = "single"
                  \/ feed[i].kind = "batch" /\ i \in delivered}

FoundInFull(o) ==
    /\ state /= None /\ owner = o
    /\ state.notes = Findable(o) \ state.dropped
    /\ state.spent = state.notes \cap nullifiers

\* While an owner stays signed in with the key held, money sent to it is found
\* unprompted, and so is that it was spent: after failed reads, batches delivered late,
\* switches, reloads and passes of others that end meanwhile (App.tsx, the automatic
\* refresh; run.ts, the pending entries).
MoneyComesUp == \A o \in Owner :
    <>[](session = o /\ held = o) => <>[]FoundInFull(o)
==============================================================================
