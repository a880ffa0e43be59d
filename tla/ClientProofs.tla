----------------------------- MODULE ClientProofs -----------------------------
(***************************************************************************)
(* The client engine, for every account.  What a scan that is resumed has  *)
(* found, for any feed, any size of page and any bounds: passes that       *)
(* overlap, fail, end after a sign-out or outlive their session leave the  *)
(* state of one scan from the start.  And what spending and depositing     *)
(* does, for any purse, any asks of any number of pages and any arity of   *)
(* the circuits: plans are payable, only rivals collide, and the balance   *)
(* moves as asked.                                                         *)
(***************************************************************************)
EXTENDS SelfScan, Wallet, SharedLemmas

-----------------------------------------------------------------------------
(***************************************************************************)
(* Scanning.                                                               *)
(***************************************************************************)

Event == [kind : Kind, to : Owner]

ScanState == [cursor : Nat, covered : Nat, notes : SUBSET Nat, spent : SUBSET Nat,
              pending : SUBSET Nat, dropped : SUBSET Nat]

PassState == [pc : {"head", "drain", "reread", "nullifiers"}, owner : Owner,
              prev : ScanState, head : Nat, at : Nat, pages : Nat, exhausted : BOOLEAN,
              complete : SUBSET Nat, reread : SUBSET Nat, failed : SUBSET Nat]

Typed == /\ bound \in Settings
         /\ feed \in Seq(Event)
         /\ session \in Owner \cup {None}
         /\ store \in [Owner -> ScanState \cup {None}]
         /\ passes \in [Slot -> PassState \cup {NoPass}]

(***************************************************************************)
(* The invariant.  It speaks of what a pass has started from and read, for *)
(* a pass ends with what it started from, whatever was written meanwhile.  *)
(***************************************************************************)
\* The events of f among seqs with a note of o.
OfFeed(f, o, seqs) == {i \in seqs : f[i].to = o}

\* s is what one scan of f up to its cursor leaves.
OneScan(f, o, s) ==
    /\ s \in ScanState
    /\ s.cursor <= Len(f) /\ s.covered <= s.cursor
    /\ s.notes \cup s.pending \cup s.dropped = OfFeed(f, o, 1..s.cursor)
    /\ s.notes \cap (s.pending \cup s.dropped) = {}
    /\ s.pending \cap s.dropped = {}

Singles(f, p) == {i \in OfFeed(f, p.owner, (p.prev.cursor + 1)..p.at) : f[i].kind = "single"}

\* A pass that drained the feed has read up to the head it was told.
PassOK(f, p) ==
    /\ OneScan(f, p.owner, p.prev)
    /\ p.prev.cursor <= p.at /\ p.at <= Len(f) /\ p.head <= Len(f)
    /\ p.exhausted => p.pc \in {"reread", "nullifiers"} /\ p.head <= p.at
    /\ p.reread \subseteq p.prev.pending
    /\ p.failed \subseteq Singles(f, p)

ScansOK == /\ \A o \in Owner : store[o] /= None => OneScan(feed, o, store[o])
           /\ state /= None => owner \in Owner /\ OneScan(feed, owner, state)

PassesOK == \A slot \in Slot : passes[slot] /= NoPass => PassOK(feed, passes[slot])

Inv == Typed /\ ScansOK /\ PassesOK

-----------------------------------------------------------------------------
(* Lemmas.                                                                 *)

\* A pass under way is no NoPass, and is where its pc says.
LEMMA UnderWay ==
    ASSUME Inv, NEW slot \in Slot, passes[slot].pc /= "idle"
    PROVE  passes[slot] \in PassState /\ PassOK(feed, passes[slot])
<1>1. passes[slot] /= NoPass
  BY DEF NoPass
<1>. QED BY <1>1 DEF Inv, Typed, PassesOK

\* What was found in a feed is found there when it goes on.
LEMMA FeedGoesOn ==
    ASSUME NEW f \in Seq(Event), NEW g \in Seq(Event), Len(f) <= Len(g),
           \A i \in 1..Len(f) : g[i] = f[i]
    PROVE  /\ \A o, s : OneScan(f, o, s) => OneScan(g, o, s)
           /\ \A p \in PassState : PassOK(f, p) => PassOK(g, p)
<1>1. Len(f) \in Nat /\ Len(g) \in Nat
  OBVIOUS
<1>2. \A o, m, n : m \in Nat /\ n \in Nat /\ n <= Len(f) => OfFeed(g, o, (m + 1)..n) = OfFeed(f, o, (m + 1)..n)
  BY <1>1 DEF OfFeed
<1>3. ASSUME NEW o, NEW s, OneScan(f, o, s) PROVE OneScan(g, o, s)
  <2>1. s \in ScanState /\ s.cursor \in Nat /\ s.cursor <= Len(f)
    BY <1>3 DEF OneScan, ScanState
  <2>2. OfFeed(g, o, 1..s.cursor) = OfFeed(f, o, 1..s.cursor)
    BY <2>1 DEF OfFeed
  <2>3. s.cursor <= Len(g)
    BY <1>1, <2>1
  <2>. QED BY <1>3, <2>2, <2>3 DEF OneScan
<1>4. ASSUME NEW p \in PassState, PassOK(f, p) PROVE PassOK(g, p)
  <2>1. /\ p.at \in Nat /\ p.head \in Nat /\ p.prev.cursor \in Nat
        /\ p.at <= Len(f) /\ p.head <= Len(f)
    BY <1>4 DEF PassOK, PassState, ScanState
  <2>2. p.at <= Len(g) /\ p.head <= Len(g)
    BY <1>1, <2>1
  <2>3. \A i \in (p.prev.cursor + 1)..p.at : g[i] = f[i]
    BY <1>1, <2>1
  <2>4. Singles(g, p) = Singles(f, p)
    BY <2>3 DEF Singles, OfFeed
  <2>5. OneScan(g, p.owner, p.prev)
    BY <1>3, <1>4 DEF PassOK
  <2>. QED BY <1>4, <2>2, <2>4, <2>5 DEF PassOK
<1>. QED BY <1>3, <1>4

LEMMA EmptyIsOneScan ==
    ASSUME NEW f \in Seq(Event), NEW o
    PROVE  OneScan(f, o, EMPTY_SCAN_STATE)
<1>1. OfFeed(f, o, 1..0) = {}
  BY DEF OfFeed
<1>. QED BY <1>1 DEF OneScan, EMPTY_SCAN_STATE, ScanState

\* A scan is resumed from memory only under its owner's stamp.
LEMMA ResumedIsOneScan ==
    ASSUME Inv, NEW o \in Owner
    PROVE  OneScan(feed, o, resumed(o))
BY EmptyIsOneScan DEF Inv, Typed, ScansOK, resumed

\* The events a pass is done with.
LEMMA PassIsOneScan ==
    ASSUME Typed, NEW p \in PassState, PassOK(feed, p)
    PROVE  OneScan(feed, p.owner, nextState(p))
<1> DEFINE c == p.prev.cursor
           o == p.owner
           read == ((c + 1)..p.at) \cup p.reread
           mine == Of(o, read)
           batch == {i \in mine : feed[i].kind = "batch"}
           s == nextState(p)
<1>1. /\ c \in Nat /\ p.at \in Nat /\ c <= p.at /\ p.at <= Len(feed) /\ Len(feed) \in Nat
      /\ p.prev \in ScanState /\ p.head \in Nat /\ p.prev.covered \in Nat /\ p.prev.covered <= c
      /\ p.exhausted => p.head <= p.at
  BY DEF PassState, PassOK, ScanState, OneScan, Typed
<1>2. /\ p.prev.notes \cup p.prev.pending \cup p.prev.dropped = Of(o, 1..c)
      /\ p.prev.notes \cap (p.prev.pending \cup p.prev.dropped) = {}
      /\ p.prev.pending \cap p.prev.dropped = {}
      /\ p.reread \subseteq p.prev.pending
      /\ p.failed \subseteq {i \in Of(o, (c + 1)..p.at) : feed[i].kind = "single"}
  BY DEF PassOK, OneScan, OfFeed, Of, Singles
<1>3. /\ s.cursor = p.at
      /\ s.covered = covered(p)
      /\ s.notes = p.prev.notes \cup (batch \cap p.complete)
                      \cup ({i \in mine \ batch : feed[i].kind = "single"} \ p.failed)
      /\ s.spent = s.notes \cap nullifiers
      /\ s.pending = (p.prev.pending \ p.reread) \cup (batch \ p.complete)
                        \cup {i \in mine \ batch : feed[i].kind = "gated"}
      /\ s.dropped = p.prev.dropped \cup p.failed
      /\ s = [cursor |-> s.cursor, covered |-> s.covered, notes |-> s.notes, spent |-> s.spent,
              pending |-> s.pending, dropped |-> s.dropped]
  BY DEF nextState, scanEventsPass, confirmed, gated, kept
<1>4. covered(p) \in Nat /\ covered(p) <= p.at
  BY <1>1 DEF covered, Most, PassState
<1>5. /\ 1..p.at = (1..c) \cup ((c + 1)..p.at)
      /\ (1..c) \cap ((c + 1)..p.at) = {}
      /\ 1..p.at \subseteq DOMAIN feed /\ 1..p.at \subseteq Nat
  BY <1>1 DEF Typed
<1>6. \A i \in 1..p.at : feed[i].kind \in Kind
  <2>1. \A i \in DOMAIN feed : feed[i] \in Event
    BY DEF Typed
  <2>. QED BY <1>5, <2>1 DEF Event
<1>7. /\ mine = Of(o, (c + 1)..p.at) \cup p.reread
      /\ Of(o, 1..p.at) = Of(o, 1..c) \cup Of(o, (c + 1)..p.at)
      /\ Of(o, 1..c) \cap Of(o, (c + 1)..p.at) = {}
      /\ Of(o, 1..p.at) \subseteq 1..p.at
  <2>1. p.reread \subseteq Of(o, 1..c)
    BY <1>2
  <2>. QED BY <1>5, <2>1 DEF Of
<1>. HIDE DEF c, o, read, s, mine
<1>8. \A i \in mine : i \in batch \/ feed[i].kind = "single" \/ feed[i].kind = "gated"
  <2>1. mine \subseteq 1..p.at
    BY <1>2, <1>7
  <2>. QED BY <1>6, <2>1 DEF Kind
<1>9. s.notes \cup s.pending \cup s.dropped = Of(o, 1..p.at)
  <2>1. s.notes \cup s.pending \cup s.dropped \subseteq Of(o, 1..p.at)
    BY <1>2, <1>3, <1>7
  <2>2. ASSUME NEW i \in Of(o, 1..p.at) PROVE i \in s.notes \cup s.pending \cup s.dropped
    <3>1. CASE i \in mine
      BY <1>3, <1>8, <3>1
    <3>2. CASE i \notin mine
      <4>1. i \in Of(o, 1..c) /\ i \notin p.reread
        BY <1>7, <3>2
      <4>. QED BY <1>2, <1>3, <4>1
    <3>. QED BY <3>1, <3>2
  <2>. QED BY <2>1, <2>2
<1>10. s.notes \cap (s.pending \cup s.dropped) = {}
  BY <1>2, <1>3, <1>7
<1>11. s.pending \cap s.dropped = {}
  BY <1>2, <1>3, <1>7
<1>12. s \in ScanState
  <2>1. Of(o, 1..p.at) \subseteq Nat
    BY <1>5, <1>7
  <2>2. s.notes \in SUBSET Nat /\ s.pending \in SUBSET Nat /\ s.dropped \in SUBSET Nat
    BY <1>9, <2>1
  <2>. QED BY <1>1, <1>3, <1>4, <2>2 DEF ScanState
<1>. QED BY <1>1, <1>3, <1>4, <1>9, <1>10, <1>11, <1>12 DEF OneScan, OfFeed, Of, o, s

-----------------------------------------------------------------------------
(* The steps.                                                              *)

LEMMA InitInv == Init => Inv
<1>. SUFFICES ASSUME Init PROVE Inv
  OBVIOUS
<1>1. feed \in Seq(Event) /\ EMPTY_SCAN_STATE \in ScanState
  BY DEF Init, EMPTY_SCAN_STATE, ScanState
<1>2. bound.owners \subseteq Owner
  BY SelfScanAssumption DEF Init, Setting
<1>3. \A o : OneScan(feed, o, EMPTY_SCAN_STATE)
  BY <1>1, EmptyIsOneScan
<1>. QED BY <1>1, <1>2, <1>3 DEF Init, Inv, Typed, ScansOK, PassesOK

LEMMA IndexerMovesInv ==
    ASSUME Inv, IndexerMoves
    PROVE  Inv'
<1>1. /\ feed \in Seq(Event) /\ feed' \in Seq(Event) /\ Len(feed) <= Len(feed')
      /\ \A i \in 1..Len(feed) : feed'[i] = feed[i]
  <2>1. CASE Append1
    <3>1. PICK k \in bound.kinds, o \in bound.owners : feed' = Append(feed, [kind |-> k, to |-> o])
      BY <2>1 DEF Append1
    <3>2. k \in Kind /\ o \in Owner
      BY SelfScanAssumption DEF Inv, Typed, Setting
    <3>3. [kind |-> k, to |-> o] \in Event
      BY <3>2 DEF Event
    <3>. QED BY <3>1, <3>3 DEF Inv, Typed
  <2>2. CASE feed' = feed
    BY <2>2 DEF Inv, Typed
  <2>. QED BY <2>1, <2>2 DEF IndexerMoves, Deliver, SpendNote
<1>2. /\ \A o, s : OneScan(feed, o, s) => OneScan(feed', o, s)
      /\ \A p \in PassState : PassOK(feed, p) => PassOK(feed', p)
  BY <1>1, FeedGoesOn
<1>3. UNCHANGED <<bound, session, state, owner, store, passes>>
  BY DEF IndexerMoves, page, scans
<1>4. Typed'
  BY <1>1, <1>3 DEF Inv, Typed
<1>5. ScansOK'
  BY <1>2, <1>3 DEF Inv, ScansOK
<1>6. PassesOK'
  BY <1>2, <1>3 DEF Inv, Typed, PassesOK
<1>. QED BY <1>4, <1>5, <1>6 DEF Inv

\* What is written back is one scan of its owner's.
LEMMA WriteBackInv ==
    ASSUME Inv, NEW o \in Owner, NEW s, OneScan(feed, o, s), WriteBack(o, s), feed' = feed
    PROVE  ScansOK' /\ store' \in [Owner -> ScanState \cup {None}]
<1>1. s \in ScanState
  BY DEF OneScan
<1>. QED BY <1>1 DEF Inv, Typed, ScansOK, WriteBack

\* One pass goes on.
LEMMA PassInv ==
    ASSUME Inv, NEW slot \in Slot, NEW p,
           p = NoPass \/ (p \in PassState /\ PassOK(feed, p)),
           passes' = [passes EXCEPT ![slot] = p], feed' = feed
    PROVE  PassesOK' /\ passes' \in [Slot -> PassState \cup {NoPass}]
BY DEF Inv, Typed, PassesOK

LEMMA ReadsInv ==
    ASSUME Inv, NEW slot \in Slot, NEW p,
           p = NoPass \/ (p \in PassState /\ PassOK(feed, p)),
           Reads(slot, p)
    PROVE  Inv'
<1>1. passes' = [passes EXCEPT ![slot] = p] /\ UNCHANGED <<bound, feed, session, state, owner, store>>
  BY DEF Reads, indexer, page, scans
<1>2. PassesOK' /\ passes' \in [Slot -> PassState \cup {NoPass}]
  BY <1>1, PassInv
<1>3. ScansOK'
  BY <1>1 DEF Inv, ScansOK
<1>. QED BY <1>1, <1>2, <1>3 DEF Inv, Typed

LEMMA ScanInv ==
    ASSUME Inv, NEW slot \in Slot, scan(slot)
    PROVE  Inv'
<1> DEFINE prev == resumed(session)
           p == [pc |-> "head", owner |-> session, prev |-> prev,
                 head |-> 0, at |-> prev.cursor, pages |-> 0, exhausted |-> FALSE,
                 complete |-> {}, reread |-> {}, failed |-> {}]
<1>1. session \in Owner /\ UNCHANGED <<bound, feed, session>>
  BY DEF Inv, Typed, scan, indexer, page
<1>2. OneScan(feed, session, prev)
  BY <1>1, ResumedIsOneScan
<1>3. CASE held = session
  <2>1. passes' = [passes EXCEPT ![slot] = p] /\ UNCHANGED <<state, owner, store>>
    BY <1>3 DEF scan, scans
  <2>2. prev \in ScanState /\ prev.cursor \in Nat /\ prev.cursor <= Len(feed) /\ Len(feed) \in Nat
    BY <1>2 DEF OneScan, ScanState, Inv, Typed
  <2>. HIDE DEF prev
  <2>3. p \in PassState
    BY <1>1, <2>2 DEF PassState
  <2>4. PassOK(feed, p)
    BY <1>2, <2>2 DEF PassOK
  <2>. HIDE DEF p
  <2>5. PassesOK' /\ passes' \in [Slot -> PassState \cup {NoPass}]
    BY <1>1, <2>1, <2>3, <2>4, PassInv
  <2>6. ScansOK'
    BY <1>1, <2>1 DEF Inv, ScansOK
  <2>. QED BY <1>1, <2>1, <2>5, <2>6 DEF Inv, Typed
<1>4. CASE held /= session
  <2>1. WriteBack(session, prev) /\ passes' = passes
    BY <1>4 DEF scan
  <2>. HIDE DEF prev
  <2>2. ScansOK' /\ store' \in [Owner -> ScanState \cup {None}]
    BY <1>1, <1>2, <2>1, WriteBackInv
  <2>. QED BY <1>1, <2>1, <2>2 DEF Inv, Typed, PassesOK
<1>. QED BY <1>3, <1>4

LEMMA ReadHeadInv ==
    ASSUME Inv, NEW slot \in Slot, readHead(slot)
    PROVE  Inv'
<1> DEFINE p == passes[slot]
           q == [p EXCEPT !.head = Len(feed), !.pc = "drain"]
<1>1. p.pc = "head" /\ Reads(slot, q)
  BY DEF readHead, Awaits
<1>2. p \in PassState /\ PassOK(feed, p)
  BY <1>1, UnderWay
<1>. HIDE DEF p
<1>3. Len(feed) \in Nat
  BY DEF Inv, Typed
<1>4. q \in PassState
  BY <1>2, <1>3 DEF PassState
<1>5. PassOK(feed, q)
  <2>1. /\ q.prev = p.prev /\ q.owner = p.owner /\ q.at = p.at /\ q.exhausted = p.exhausted
        /\ q.reread = p.reread /\ q.failed = p.failed /\ q.head = Len(feed)
    BY <1>2 DEF PassState
  <2>2. ~p.exhausted
    BY <1>1, <1>2 DEF PassOK
  <2>. HIDE DEF q
  <2>. QED BY <1>2, <1>3, <2>1, <2>2 DEF PassOK, Singles
<1>. HIDE DEF q
<1>. QED BY <1>1, <1>4, <1>5, ReadsInv

LEMMA ReadPageInv ==
    ASSUME Inv, NEW slot \in Slot, readPage(slot)
    PROVE  Inv'
<1> DEFINE p == passes[slot]
           to == IF p.at + PageSize < Len(feed) THEN p.at + PageSize ELSE Len(feed)
           capped == p.pages + 1 = bound.maxPages
           q == [p EXCEPT !.at = to,
                          !.pages = @ + 1,
                          !.complete = @ \cup (((p.at + 1)..to) \cap delivered),
                          !.exhausted = to = p.at,
                          !.pc = IF to = p.at \/ capped THEN "reread" ELSE "drain"]
<1>1. p.pc = "drain" /\ Reads(slot, q)
  BY DEF readPage, Awaits
<1>2. p \in PassState /\ PassOK(feed, p)
  BY <1>1, UnderWay
<1>. HIDE DEF p, capped
<1>3. Len(feed) \in Nat /\ PageSize \in Nat \ {0}
  BY SelfScanAssumption DEF Inv, Typed
<1>4. /\ p.at \in Nat /\ p.at <= Len(feed) /\ p.head \in Nat /\ p.head <= Len(feed)
      /\ p.prev.cursor \in Nat /\ p.prev.cursor <= p.at
  BY <1>2 DEF PassOK, PassState, ScanState
\* A page that brings nothing says that all the feed was read.
<1>5. /\ to \in Nat /\ p.at <= to /\ to <= Len(feed)
      /\ to = p.at => p.head <= to
  BY <1>3, <1>4
<1>. HIDE DEF to
<1>6. q \in PassState
  <2>1. p.complete \cup (((p.at + 1)..to) \cap delivered) \in SUBSET Nat
    BY <1>2, <1>4, <1>5 DEF PassState
  <2>2. p.pages + 1 \in Nat
    BY <1>2 DEF PassState
  <2>3. (to = p.at) \in BOOLEAN
    OBVIOUS
  <2>. QED BY <1>2, <1>5, <2>1, <2>2, <2>3 DEF PassState
<1>7. PassOK(feed, q)
  <2>1. /\ q.prev = p.prev /\ q.owner = p.owner /\ q.at = to /\ q.exhausted = (to = p.at)
        /\ q.reread = p.reread /\ q.failed = p.failed /\ q.head = p.head
        /\ to = p.at => q.pc = "reread"
    BY <1>2 DEF PassState
  <2>. HIDE DEF q
  <2>2. Singles(feed, p) \subseteq Singles(feed, q)
    BY <1>4, <1>5, <2>1 DEF Singles, OfFeed
  <2>3. q.failed \subseteq Singles(feed, q)
    BY <1>2, <2>1, <2>2 DEF PassOK
  <2>4. q.prev.cursor <= q.at /\ q.at <= Len(feed) /\ q.head <= Len(feed)
    BY <1>4, <1>5, <2>1
  <2>. QED BY <1>2, <1>5, <2>1, <2>3, <2>4 DEF PassOK
<1>. HIDE DEF q
<1>. QED BY <1>1, <1>6, <1>7, ReadsInv

LEMMA RereadInv ==
    ASSUME Inv, NEW slot \in Slot, rereadAndConfirm(slot)
    PROVE  Inv'
<1> DEFINE p == passes[slot]
           singles == {i \in Of(p.owner, (p.prev.cursor + 1)..p.at) : feed[i].kind = "single"}
<1>1. p.pc = "reread"
  BY DEF rereadAndConfirm, Awaits
<1>2. p \in PassState /\ PassOK(feed, p)
  BY <1>1, UnderWay
<1>3. PICK lost \in SUBSET toReread(p), failed \in SUBSET singles :
         Reads(slot, [p EXCEPT !.reread = toReread(p) \ lost,
                               !.complete = @ \cup ((toReread(p) \ lost) \cap delivered),
                               !.failed = failed,
                               !.pc = "nullifiers"])
  BY DEF rereadAndConfirm
<1> DEFINE q == [p EXCEPT !.reread = toReread(p) \ lost,
                          !.complete = @ \cup ((toReread(p) \ lost) \cap delivered),
                          !.failed = failed,
                          !.pc = "nullifiers"]
<1>. HIDE DEF p
<1>4. toReread(p) = p.prev.pending /\ singles = Singles(feed, p)
  BY DEF toReread, Singles, Of, OfFeed
<1>5. q \in PassState
  <2>1. p.prev.pending \in SUBSET Nat /\ p.complete \in SUBSET Nat
    BY <1>2 DEF PassState, ScanState
  <2>2. singles \in SUBSET Nat
    BY <1>2 DEF PassState, ScanState, Of
  <2>. HIDE DEF singles
  <2>. QED BY <1>2, <1>4, <2>1, <2>2 DEF PassState
<1>6. PassOK(feed, q)
  <2>1. /\ q.prev = p.prev /\ q.owner = p.owner /\ q.at = p.at /\ q.exhausted = p.exhausted
        /\ q.reread \subseteq p.prev.pending /\ q.failed = failed /\ q.head = p.head
        /\ q.pc = "nullifiers"
    BY <1>2, <1>4 DEF PassState
  <2>2. Singles(feed, q) = Singles(feed, p)
    BY <2>1 DEF Singles
  <2>. HIDE DEF q, singles
  <2>. QED BY <1>2, <1>4, <2>1, <2>2 DEF PassOK
<1>7. Reads(slot, q)
  BY <1>3
<1>. HIDE DEF q
<1>. QED BY <1>5, <1>6, <1>7, ReadsInv

LEMMA FinishInv ==
    ASSUME Inv, NEW slot \in Slot, finish(slot)
    PROVE  Inv'
<1> DEFINE p == passes[slot]
<1>1. /\ p.pc = "nullifiers" /\ WriteBack(p.owner, nextState(p))
      /\ passes' = [passes EXCEPT ![slot] = NoPass]
      /\ UNCHANGED <<bound, feed, session>>
  BY DEF finish, Awaits, indexer, page
<1>2. p \in PassState /\ PassOK(feed, p)
  BY <1>1, UnderWay
<1>. HIDE DEF p
<1>3. OneScan(feed, p.owner, nextState(p)) /\ p.owner \in Owner
  BY <1>2, PassIsOneScan DEF Inv, PassState
<1>4. ScansOK' /\ store' \in [Owner -> ScanState \cup {None}]
  BY <1>1, <1>3, WriteBackInv
<1>5. PassesOK' /\ passes' \in [Slot -> PassState \cup {NoPass}]
  BY <1>1, PassInv
<1>. QED BY <1>1, <1>4, <1>5 DEF Inv, Typed

\* What the user and the wallet do touches no feed; it keeps, drops or serves scans.
LEMMA LifecycleInv ==
    ASSUME Inv, Lifecycle
    PROVE  Inv'
<1>1. UNCHANGED <<bound, feed>> /\ bound.owners \subseteq Owner
  <2>1. bound.owners \subseteq Owner
    BY SelfScanAssumption DEF Inv, Typed, Setting
  <2>. QED BY <2>1 DEF Lifecycle, connectWallet, unlock, IdleWipe, accountsChanged, Reload,
                       endSession, Moves, indexer
<1>2. ASSUME session' \in Owner \cup {None}, UNCHANGED <<store, passes>>,
             state' = None \/ UNCHANGED <<state, owner>>
      PROVE  Inv'
  BY <1>1, <1>2 DEF Inv, Typed, ScansOK, PassesOK
<1>3. ASSUME NEW o \in bound.owners, connectWallet(o) PROVE Inv'
  BY <1>1, <1>2, <1>3 DEF connectWallet, scans
<1>4. CASE unlock \/ IdleWipe \/ accountsChanged
  BY <1>2, <1>4 DEF unlock, IdleWipe, accountsChanged, scans, Inv, Typed
<1>5. ASSUME NEW forget \in BOOLEAN, endSession(forget) PROVE Inv'
  <2>1. /\ session' = None /\ state' = None /\ passes' = passes
        /\ store' = IF forget /\ owner /= None THEN [store EXCEPT ![owner] = None] ELSE store
    BY <1>5 DEF endSession
  <2>2. /\ store' \in [Owner -> ScanState \cup {None}]
        /\ \A o \in Owner : store'[o] /= None => store'[o] = store[o]
    BY <2>1 DEF Inv, Typed
  <2>. QED BY <1>1, <2>1, <2>2 DEF Inv, Typed, ScansOK, PassesOK
<1>6. CASE Reload
  <2>1. passes' = [s \in Slot |-> NoPass] /\ (Opened(session) \/ Opened(None))
    BY <1>6 DEF Reload
  <2>2. ASSUME NEW o \in Owner \cup {None}, Opened(o) PROVE Inv'
    <3>1. session' = o
      BY <2>2 DEF Opened
    <3>2. CASE o = None
      <4>1. state' = None /\ store' = store
        BY <2>2, <3>2 DEF Opened
      <4>. QED BY <1>1, <2>1, <3>1, <4>1 DEF Inv, Typed, ScansOK, PassesOK
    <3>3. CASE o /= None
      <4> DEFINE s == IF store[o] = None THEN EMPTY_SCAN_STATE ELSE store[o]
      <4>1. WriteBack(o, s) /\ o \in Owner
        BY <2>2, <3>3 DEF Opened
      <4>2. OneScan(feed, o, s)
        BY <4>1, EmptyIsOneScan DEF Inv, Typed, ScansOK
      <4>. HIDE DEF s
      <4>3. ScansOK' /\ store' \in [Owner -> ScanState \cup {None}]
        BY <1>1, <4>1, <4>2, WriteBackInv
      <4>. QED BY <1>1, <2>1, <3>1, <4>3 DEF Inv, Typed, PassesOK
    <3>. QED BY <3>2, <3>3
  <2>. QED BY <2>1, <2>2 DEF Inv, Typed
<1>. QED BY <1>3, <1>4, <1>5, <1>6 DEF Lifecycle

LEMMA NextInv == Inv /\ [Next]_vars => Inv'
<1>. SUFFICES ASSUME Inv, [Next]_vars PROVE Inv'
  OBVIOUS
<1>1. CASE IndexerMoves
  BY <1>1, IndexerMovesInv
<1>2. CASE Lifecycle
  BY <1>2, LifecycleInv
<1>3. ASSUME NEW slot \in Slot, scan(slot) \/ PassStep(slot) \/ readFails(slot)
      PROVE  Inv'
  <2>1. CASE readFails(slot)
    BY <2>1, ReadsInv DEF readFails
  <2>. QED BY <1>3, <2>1, ScanInv, ReadHeadInv, ReadPageInv, RereadInv, FinishInv DEF PassStep
<1>4. CASE UNCHANGED vars
  BY <1>4 DEF vars, indexer, page, scans, Inv, Typed, ScansOK, PassesOK
<1>. QED BY <1>1, <1>2, <1>3, <1>4 DEF Next

-----------------------------------------------------------------------------
\* However passes, sign-outs, switches and reloads interleave, every state a scan may be
\* resumed from is what one scan leaves, and every pass under way started from one.
THEOREM SelfScanInvariant == Spec => []Inv
<1>. QED BY InitInv, NextInv, PTL DEF Spec

\* However the feed was cut into passes, which reads failed, which passes overlapped
\* and who was signed in meanwhile, a state is that of one scan up to its cursor: no
\* event is forgotten, counted twice or somebody else's, and none is stamped as covered
\* that was not read (scan/selfscan/run.ts, scan/session.ts).
THEOREM SelfScanIsOneScan == Spec => []AnyScanIsOneScan
<1>1. Inv => AnyScanIsOneScan
  <2>1. ASSUME Inv, NEW r \in Resumable PROVE OneScan(feed, r[1], r[2])
    BY <2>1 DEF Inv, ScansOK, Resumable
  <2>. QED BY <2>1 DEF AnyScanIsOneScan, OneScan, OfFeed, Of
<1>. QED BY <1>1, SelfScanInvariant, PTL

-----------------------------------------------------------------------------
(***************************************************************************)
(* Spending and depositing.                                                *)
(***************************************************************************)

-----------------------------------------------------------------------------
(***************************************************************************)
(* Notes and what they are worth together.                                 *)
(***************************************************************************)
\* Finite sets of notes of which no two are at one leaf.
Apart(S) == \A m, n \in S : m.leaf = n.leaf => m = n
Pile == {S \in Parts(Selectable) : Apart(S)}

Weights == [n \in Selectable |-> n.value]

\* What notes are worth, as a sum over a set.
LEMMA TotalIsSum ==
    /\ Weights \in [Selectable -> Nat]
    /\ \A S : Total(S) = SumFunctionOnSet(Weights, S)
    /\ \A n \in Selectable : Weights[n] = n.value
BY DEF Weights, Total, Selectable

\* It is a number, and nothing is worth nothing.
LEMMA TotalNat ==
    /\ \A S \in Parts(Selectable) : Total(S) \in Nat
    /\ {} \in Parts(Selectable) /\ Total({}) = 0
BY TotalIsSum, SumOnNat

\* A note more adds its value.
LEMMA TotalAdd ==
    ASSUME NEW S \in Parts(Selectable), NEW n \in Selectable, n \notin S
    PROVE  S \cup {n} \in Parts(Selectable) /\ Total(S \cup {n}) = n.value + Total(S)
BY TotalIsSum, SumOnAdd

\* A part and the rest are worth the whole.
LEMMA TotalSplit ==
    ASSUME NEW S \in Parts(Selectable), NEW T \in SUBSET S
    PROVE  /\ T \in Parts(Selectable) /\ S \ T \in Parts(Selectable)
           /\ Total(S) = Total(T) + Total(S \ T)
<1>1. T \in Parts(Selectable) /\ S \ T \in Parts(Selectable)
  BY PartOfPart
<1>. QED BY <1>1, TotalIsSum, SumOnSplit

\* A part is worth no more.
LEMMA TotalMono ==
    ASSUME NEW S \in Parts(Selectable), NEW T \in SUBSET S
    PROVE  Total(T) <= Total(S)
BY TotalIsSum, SumOnMono

\* A part of a pile is one.
LEMMA PartOfPile ==
    ASSUME NEW S \in Pile, NEW T \in SUBSET S
    PROVE  T \in Pile
<1>1. T \in Parts(Selectable)
  BY PartOfPart DEF Pile
<1>. QED BY <1>1 DEF Pile, Apart

\* A pile is a finite set of notes.
LEMMA PileIsFinite ==
    ASSUME NEW S \in Pile
    PROVE  /\ S \in Parts(Selectable) /\ S \in SUBSET Selectable
           /\ IsFiniteSet(S) /\ Cardinality(S) \in Nat /\ Total(S) \in Nat
BY FS_CardinalityType, TotalNat DEF Pile, Parts

-----------------------------------------------------------------------------
(***************************************************************************)
(* The largest notes of a pile.                                            *)
(***************************************************************************)
RankIn(S, n) == Cardinality({m \in S : Before(m, n)})

\* The k largest are those of rank less than k.
LEMMA LargestIs ==
    \A S, k : unspentLargestFirst(S, k) = {n \in S : RankIn(S, n) < k}
BY DEF unspentLargestFirst, RankIn

\* Before orders the notes of a pile strictly, the larger first.
LEMMA BeforeIsOrder ==
    ASSUME NEW l \in Selectable, NEW m \in Selectable, NEW n \in Selectable
    PROVE  /\ ~Before(n, n)
           /\ Before(l, m) /\ Before(m, n) => Before(l, n)
           /\ m.leaf # n.leaf => Before(m, n) \/ Before(n, m)
           /\ Before(m, n) => m.value >= n.value
<1>1. l.value \in Nat /\ m.value \in Nat /\ n.value \in Nat
  BY DEF Selectable
<1>2. l.leaf \in Int /\ m.leaf \in Int /\ n.leaf \in Int
  BY DEF Selectable
<1>. QED BY <1>1, <1>2 DEF Before

\* A note is of higher rank than those before it.
LEMMA RankFacts ==
    ASSUME NEW S \in Pile, NEW n \in S
    PROVE  /\ RankIn(S, n) \in Nat /\ RankIn(S, n) < Cardinality(S)
           /\ \A m \in S : Before(m, n) => RankIn(S, m) < RankIn(S, n)
<1> DEFINE Ahead(x) == {m \in S : Before(m, x)}
<1>1. S \in SUBSET Selectable /\ IsFiniteSet(S) /\ Cardinality(S) \in Nat
  BY PileIsFinite
<1>2. ASSUME NEW T, IsFiniteSet(T), NEW U \in SUBSET T, NEW x \in T, x \notin U
      PROVE  /\ IsFiniteSet(U) /\ Cardinality(U) \in Nat /\ Cardinality(T) \in Nat
             /\ Cardinality(U) < Cardinality(T)
  <2>1. IsFiniteSet(U) /\ Cardinality(U) <= Cardinality(T) /\ Cardinality(U) # Cardinality(T)
    BY <1>2, FS_Subset
  <2>2. Cardinality(U) \in Nat /\ Cardinality(T) \in Nat
    BY <1>2, <2>1, FS_CardinalityType
  <2>. QED BY <2>1, <2>2
<1>3. Ahead(n) \in SUBSET S /\ n \notin Ahead(n)
  BY <1>1, BeforeIsOrder
<1>4. /\ IsFiniteSet(Ahead(n)) /\ Cardinality(Ahead(n)) \in Nat
      /\ Cardinality(Ahead(n)) < Cardinality(S)
  BY <1>1, <1>2, <1>3
<1>5. ASSUME NEW m \in S, Before(m, n)
      PROVE  Cardinality(Ahead(m)) < Cardinality(Ahead(n))
  <2>1. m \in Ahead(n) /\ m \notin Ahead(m)
    BY <1>1, <1>5, BeforeIsOrder
  <2>2. Ahead(m) \subseteq Ahead(n)
    <3>1. ASSUME NEW x \in Ahead(m) PROVE x \in Ahead(n)
      <4>1. x \in S /\ Before(x, m)
        OBVIOUS
      <4>2. x \in Selectable /\ m \in Selectable /\ n \in Selectable
        BY <1>1, <4>1
      <4>3. Before(x, n)
        BY <1>5, <4>1, <4>2, BeforeIsOrder
      <4>. QED BY <4>1, <4>3
    <3>. QED BY <3>1
  <2>. HIDE DEF Ahead
  <2>. QED BY <1>2, <1>4, <2>1, <2>2
<1>. QED BY <1>4, <1>5 DEF RankIn

\* No two notes are of one rank,
LEMMA RankIsOwn ==
    ASSUME NEW S \in Pile, NEW m \in S, NEW n \in S, RankIn(S, m) = RankIn(S, n)
    PROVE  m = n
<1>1. m \in Selectable /\ n \in Selectable
  BY PileIsFinite
<1>2. ~Before(m, n) /\ ~Before(n, m)
  <2>1. RankIn(S, m) \in Nat /\ RankIn(S, n) \in Nat
    BY RankFacts
  <2>2. Before(m, n) => RankIn(S, m) < RankIn(S, n)
    BY RankFacts
  <2>3. Before(n, m) => RankIn(S, n) < RankIn(S, m)
    BY RankFacts
  <2>. QED BY <2>1, <2>2, <2>3
<1>3. m.leaf = n.leaf
  BY <1>1, <1>2, BeforeIsOrder
<1>. QED BY <1>3 DEF Pile, Apart

\* and every rank is some note's.
LEMMA RankIsHeld ==
    ASSUME NEW S \in Pile, NEW k \in Nat, k < Cardinality(S)
    PROVE  \E n \in S : RankIn(S, n) = k
<1> DEFINE c == Cardinality(S)
           f == [n \in S |-> RankIn(S, n) + 1]
<1>1. c \in Nat /\ IsFiniteSet(S) /\ IsFiniteSet(1..c) /\ Cardinality(1..c) = c
  <2>1. c \in Nat /\ IsFiniteSet(S)
    BY PileIsFinite
  <2>2. IsFiniteSet(1..c) /\ Cardinality(1..c) = IF 1 > c THEN 0 ELSE c - 1 + 1
    BY <2>1, FS_Interval
  <2>. QED BY <2>1, <2>2
<1>2. f \in [S -> 1..c]
  <2>1. ASSUME NEW n \in S PROVE RankIn(S, n) + 1 \in 1..c
    <3>1. RankIn(S, n) \in Nat /\ RankIn(S, n) < c
      BY RankFacts
    <3>. QED BY <1>1, <3>1
  <2>. QED BY <2>1
<1>3. ASSUME NEW m \in S, NEW n \in S, f[m] = f[n] PROVE m = n
  <2>1. RankIn(S, m) \in Nat /\ RankIn(S, n) \in Nat
    BY RankFacts
  <2>2. RankIn(S, m) = RankIn(S, n)
    BY <1>3, <2>1
  <2>. QED BY <2>2, RankIsOwn
<1>. HIDE DEF f
<1>4. f \in Injection(S, 1..c)
  BY <1>2, <1>3 DEF Injection, IsInjective
<1>5. f \in Surjection(S, 1..c)
  <2>. HIDE DEF c
  <2>1. Cardinality(S) = Cardinality(1..c)
    BY <1>1 DEF c
  <2>. QED BY <1>1, <1>4, <2>1, FS_Injection
<1>6. k + 1 \in 1..c
  BY <1>1
<1>7. PICK n \in S : f[n] = k + 1
  BY <1>5, <1>6 DEF Surjection
<1>8. RankIn(S, n) = k
  <2>1. RankIn(S, n) \in Nat
    BY RankFacts
  <2>. QED BY <1>7, <2>1 DEF f
<1>. QED BY <1>8

\* One note more than the k largest.
LEMMA LargestNext ==
    ASSUME NEW S \in Pile, NEW k \in Nat
    PROVE  /\ unspentLargestFirst(S, 0) = {}
           /\ unspentLargestFirst(S, k) \in SUBSET S
           /\ k >= Cardinality(S) => unspentLargestFirst(S, k) = S
           /\ k < Cardinality(S) =>
                 \E n \in S : /\ RankIn(S, n) = k /\ n \notin unspentLargestFirst(S, k)
                              /\ unspentLargestFirst(S, k + 1) =
                                    unspentLargestFirst(S, k) \cup {n}
<1>1. ASSUME NEW n \in S PROVE RankIn(S, n) \in Nat /\ RankIn(S, n) < Cardinality(S)
  BY RankFacts
<1>2. Cardinality(S) \in Nat
  BY PileIsFinite
<1>3. unspentLargestFirst(S, 0) = {} /\ unspentLargestFirst(S, k) \in SUBSET S
  BY <1>1, LargestIs
<1>4. ASSUME k >= Cardinality(S) PROVE unspentLargestFirst(S, k) = S
  BY <1>1, <1>2, <1>4, LargestIs
<1>5. ASSUME k < Cardinality(S)
      PROVE  \E n \in S : /\ RankIn(S, n) = k /\ n \notin unspentLargestFirst(S, k)
                          /\ unspentLargestFirst(S, k + 1) = unspentLargestFirst(S, k) \cup {n}
  <2>1. PICK n \in S : RankIn(S, n) = k
    BY <1>5, RankIsHeld
  <2>2. n \notin unspentLargestFirst(S, k)
    BY <2>1, LargestIs
  <2>3. ASSUME NEW m \in S
        PROVE  RankIn(S, m) < k + 1 <=> RankIn(S, m) < k \/ m = n
    <3>1. RankIn(S, m) \in Nat
      BY <1>1
    <3>2. RankIn(S, m) = k => m = n
      BY <2>1, RankIsOwn
    <3>. QED BY <2>1, <3>1, <3>2
  <2>4. unspentLargestFirst(S, k + 1) = unspentLargestFirst(S, k) \cup {n}
    BY <2>3, LargestIs
  <2>. QED BY <2>1, <2>2, <2>4
<1>. QED BY <1>3, <1>4, <1>5

\* They are k, or all there are.
LEMMA LargestSize ==
    ASSUME NEW S \in Pile, NEW k \in Nat
    PROVE  /\ unspentLargestFirst(S, k) \in Pile
           /\ Cardinality(unspentLargestFirst(S, k)) =
                 IF k <= Cardinality(S) THEN k ELSE Cardinality(S)
<1> DEFINE P(j) == unspentLargestFirst(S, j)
           Bad == {j \in Nat : j <= Cardinality(S) /\ Cardinality(P(j)) # j}
<1>1. Cardinality(S) \in Nat
  BY PileIsFinite
<1>2. \A j \in Nat : P(j) \in Pile
  BY LargestNext, PartOfPile
<1>3. Bad = {}
  <2>1. SUFFICES ASSUME Bad # {} PROVE FALSE
    OBVIOUS
  <2>2. PICK j \in Bad : \A i \in Bad : j <= i
    BY <2>1, LeastNatural
  <2>3. j # 0
    <3>1. P(0) = {} /\ Cardinality({}) = 0
      BY LargestNext, FS_EmptySet
    <3>. QED BY <2>2, <3>1
  <2>4. j - 1 \in Nat /\ j - 1 \notin Bad /\ j - 1 < Cardinality(S)
    BY <1>1, <2>2, <2>3
  <2>5. Cardinality(P(j - 1)) = j - 1
    BY <1>1, <2>4
  <2>6. PICK n \in S : n \notin P(j - 1) /\ P((j - 1) + 1) = P(j - 1) \cup {n}
    BY <2>4, LargestNext
  <2>7. IsFiniteSet(P(j - 1))
    BY <1>2, <2>4, PileIsFinite
  <2>. HIDE DEF P
  <2>8. Cardinality(P(j - 1) \cup {n}) = Cardinality(P(j - 1)) + 1
    BY <2>6, <2>7, FS_AddElement
  <2>9. (j - 1) + 1 = j
    BY <2>2
  <2>. QED BY <2>2, <2>4, <2>5, <2>6, <2>8, <2>9
<1>4. CASE k <= Cardinality(S)
  BY <1>2, <1>3, <1>4
<1>5. CASE ~(k <= Cardinality(S))
  <2>1. P(k) = S
    BY <1>1, <1>5, LargestNext
  <2>. QED BY <1>2, <1>5, <2>1
<1>. QED BY <1>4, <1>5

\* More of the largest hold the fewer, and are worth as much.
LEMMA LargestGrow ==
    ASSUME NEW S \in Pile, NEW j \in Nat, NEW k \in Nat, j <= k
    PROVE  /\ unspentLargestFirst(S, j) \subseteq unspentLargestFirst(S, k)
           /\ Total(unspentLargestFirst(S, j)) <= Total(unspentLargestFirst(S, k))
<1>1. unspentLargestFirst(S, j) \subseteq unspentLargestFirst(S, k)
  <2>1. \A n \in S : RankIn(S, n) \in Nat
    BY RankFacts
  <2>. QED BY <2>1, LargestIs
<1>2. unspentLargestFirst(S, k) \in Parts(Selectable)
  BY LargestSize, PileIsFinite
<1>. QED BY <1>1, <1>2, TotalMono

-----------------------------------------------------------------------------
(***************************************************************************)
(* Selecting.                                                              *)
(***************************************************************************)
Selects(S, amount, k) ==
    /\ k \in 1..Cardinality(S)
    /\ Total(unspentLargestFirst(S, k)) >= amount
    /\ Total(unspentLargestFirst(S, k - 1)) < amount

\* No two numbers are the fewest.
LEMMA SelectsIsOne ==
    ASSUME NEW S \in Pile, NEW amount \in Nat,
           NEW j, Selects(S, amount, j), NEW k, Selects(S, amount, k)
    PROVE  j = k
<1>1. Cardinality(S) \in Nat
  BY PileIsFinite
<1>2. ASSUME NEW a, NEW b, Selects(S, amount, a), Selects(S, amount, b) PROVE ~(a < b)
  <2>1. SUFFICES ASSUME a < b PROVE FALSE
    OBVIOUS
  <2>2. a \in Nat /\ b - 1 \in Nat /\ a <= b - 1
    BY <1>1, <1>2, <2>1 DEF Selects
  <2>3. Total(unspentLargestFirst(S, a)) <= Total(unspentLargestFirst(S, b - 1))
    BY <2>2, LargestGrow
  <2>4. /\ Total(unspentLargestFirst(S, a)) \in Nat
        /\ Total(unspentLargestFirst(S, b - 1)) \in Nat
    BY <2>2, LargestSize, PileIsFinite
  <2>. QED BY <1>2, <2>3, <2>4 DEF Selects
<1>3. ~(j < k) /\ ~(k < j)
  BY <1>2
<1>. QED BY <1>1, <1>3 DEF Selects

\* The selection (selectInputNotes) is the fewest that cover the amount.
LEMMA SelectsOne ==
    ASSUME NEW S \in Pile, NEW amount \in Nat \ {0}, Total(S) >= amount
    PROVE  Selects(S, amount, selectInputNotes(S, amount))
<1> DEFINE Enough == {k \in Nat : Total(unspentLargestFirst(S, k)) >= amount}
<1>1. Cardinality(S) \in Nat
  BY PileIsFinite
<1>2. Cardinality(S) \in Enough
  BY <1>1, LargestNext
<1>3. PICK k \in Enough : \A j \in Enough : k <= j
  BY <1>2, LeastNatural
<1>4. k # 0
  <2>1. unspentLargestFirst(S, 0) = {} /\ Total({}) = 0
    BY LargestNext, TotalNat
  <2>. QED BY <1>3, <2>1
<1>5. k - 1 \in Nat /\ k - 1 \notin Enough /\ k <= Cardinality(S)
  BY <1>1, <1>2, <1>3, <1>4
<1>6. Total(unspentLargestFirst(S, k - 1)) < amount
  <2>1. Total(unspentLargestFirst(S, k - 1)) \in Nat
    BY <1>5, LargestSize, PileIsFinite
  <2>2. ~(Total(unspentLargestFirst(S, k - 1)) >= amount)
    BY <1>5
  <2>. QED BY <2>1, <2>2
<1>7. Selects(S, amount, k)
  <2>1. k \in 1..Cardinality(S)
    BY <1>1, <1>3, <1>4, <1>5
  <2>. QED BY <1>3, <1>6, <2>1 DEF Selects
<1>. QED BY <1>7 DEF selectInputNotes, Selects

-----------------------------------------------------------------------------
(***************************************************************************)
(* What a recursion over the numbers up to n computes, there is.           *)
(***************************************************************************)
Steps(n, X) == [1..n -> [X -> X]]

Recurs(f, n, X, a, F) ==
    f \in [0..n -> X] /\ f[0] = a /\ \A k \in 1..n : f[k] = F[k][f[k - 1]]

\* There is a function that a recursion over numbers describes.
LEMMA RecursionExists ==
    ASSUME NEW n \in Nat, NEW X, NEW a \in X, NEW F \in Steps(n, X)
    PROVE  \E f : Recurs(f, n, X, a, F)
<1> DEFINE Is(f, m) == f[0] = a /\ \A k \in 1..m : f[k] = F[k][f[k - 1]]
           Bad == {m \in 0..n : ~ \E f \in [0..m -> X] : Is(f, m)}
<1>1. SUFFICES ASSUME Bad # {} PROVE FALSE
  <2>1. n \in 0..n
    OBVIOUS
  <2>2. n \notin Bad => \E f \in [0..n -> X] : Is(f, n)
    BY <2>1
  <2>. QED BY <1>1, <2>2 DEF Recurs
<1>2. PICK m \in Bad : \A j \in Bad : m <= j
  <2>1. Bad \subseteq Nat
    OBVIOUS
  <2>. HIDE DEF Bad
  <2>. QED BY <1>1, <2>1, LeastNatural
<1>3. m # 0
  <2>1. [k \in 0..0 |-> a] \in [0..0 -> X] /\ Is([k \in 0..0 |-> a], 0)
    OBVIOUS
  <2>. QED BY <1>2, <2>1
<1>4. m - 1 \in 0..n /\ m - 1 \notin Bad /\ m \in 0..n
  <2>1. m \in 0..n
    OBVIOUS
  <2>2. m - 1 \in 0..n /\ ~(m <= m - 1)
    BY <1>3, <2>1
  <2>. HIDE DEF Bad
  <2>. QED BY <1>2, <2>1, <2>2
<1>5. PICK f \in [0..(m - 1) -> X] : Is(f, m - 1)
  BY <1>4
<1> DEFINE g == [k \in 0..m |-> IF k = m THEN F[m][f[m - 1]] ELSE f[k]]
<1>6. f[m - 1] \in X /\ m \in 1..n /\ F[m] \in [X -> X]
  BY <1>3, <1>4, <1>5 DEF Steps
<1>7. g \in [0..m -> X]
  <2>1. ASSUME NEW k \in 0..m PROVE g[k] \in X
    <3>1. F[m][f[m - 1]] \in X
      BY <1>6
    <3>2. k # m => k \in 0..(m - 1)
      BY <1>4
    <3>. QED BY <1>5, <3>1, <3>2
  <2>. QED BY <2>1
<1>8. Is(g, m)
  <2>1. g[0] = a
    BY <1>3, <1>4, <1>5
  <2>2. ASSUME NEW k \in 1..m PROVE g[k] = F[k][g[k - 1]]
    <3>1. g[k - 1] = f[k - 1]
      BY <1>4
    <3>2. CASE k = m
      <4>1. g[m] = F[m][f[m - 1]]
        BY <1>4
      <4>. HIDE DEF g
      <4>. QED BY <3>1, <3>2, <4>1
    <3>3. CASE k # m
      <4>1. k \in 1..(m - 1)
        BY <1>4, <3>3
      <4>2. f[k] = F[k][f[k - 1]]
        BY <1>5, <4>1
      <4>3. g[k] = f[k]
        BY <3>3
      <4>. QED BY <3>1, <4>2, <4>3
    <3>. QED BY <3>2, <3>3
  <2>. HIDE DEF g
  <2>. QED BY <2>1, <2>2
<1>. QED BY <1>2, <1>7, <1>8

-----------------------------------------------------------------------------
(***************************************************************************)
(* What the wallet will hold after each leg.                               *)
(***************************************************************************)
MergedAt(S, leg) == [leaf |-> pendingLeaf(leg), value |-> Total(Fold(S))]
FoldedAt(S, leg) == Unfolded(S) \cup {MergedAt(S, leg)}

IsWorking(f, S) ==
    f = [leg \in 0..Cardinality(S) |-> IF leg = 0 THEN S ELSE FoldedAt(f[leg - 1], leg)]

\* What a merge takes and what it leaves.
LEMMA FoldIsPart ==
    ASSUME NEW S \in Parts(Selectable), NEW leg \in Nat
    PROVE  /\ Fold(S) \in SUBSET S /\ Fold(S) \in Parts(Selectable)
           /\ Unfolded(S) = S \ Fold(S) /\ Unfolded(S) \in Parts(Selectable)
           /\ MergedAt(S, leg) \in Selectable
           /\ MergedAt(S, leg).leaf = 0 - leg /\ MergedAt(S, leg).value = Total(Fold(S))
           /\ FoldedAt(S, leg) \in Parts(Selectable)
<1>1. Fold(S) \in SUBSET S
  BY DEF Fold, unspentLargestFirst
<1>2. Fold(S) \in Parts(Selectable) /\ S \ Fold(S) \in Parts(Selectable)
  BY <1>1, PartOfPart
<1>3. Total(Fold(S)) \in Nat
  BY <1>2, TotalNat
<1>4. /\ MergedAt(S, leg) \in Selectable
      /\ MergedAt(S, leg).leaf = 0 - leg /\ MergedAt(S, leg).value = Total(Fold(S))
  BY <1>3 DEF MergedAt, Selectable, pendingLeaf
<1>5. Unfolded(S) \cup {MergedAt(S, leg)} \in Parts(Selectable)
  <2>1. IsFiniteSet(S \ Fold(S)) /\ S \ Fold(S) \subseteq Selectable
    BY <1>2 DEF Parts
  <2>2. IsFiniteSet((S \ Fold(S)) \cup {MergedAt(S, leg)})
    BY <2>1, FS_AddElement
  <2>. QED BY <1>4, <2>1, <2>2 DEF Parts, Unfolded
<1>. QED BY <1>1, <1>2, <1>4, <1>5 DEF Unfolded, FoldedAt

\* There are the working sets that the planner's recursion describes,
LEMMA WorkingExists ==
    ASSUME NEW S \in Parts(Selectable)
    PROVE  \E f : IsWorking(f, S)
<1> DEFINE n == Cardinality(S)
           X == Parts(Selectable)
           F == [k \in 1..n |-> [T \in X |-> FoldedAt(T, k)]]
<1>1. n \in Nat
  BY FS_CardinalityType DEF Parts
<1>2. F \in Steps(n, X)
  <2>1. ASSUME NEW k \in 1..n, NEW T \in X PROVE FoldedAt(T, k) \in X
    BY <1>1, FoldIsPart
  <2>. QED BY <2>1 DEF Steps
<1>3. PICK f : Recurs(f, n, X, S, F)
  <2>. HIDE DEF n, X, F
  <2>1. S \in X
    BY DEF X
  <2>. QED BY <1>1, <1>2, <2>1, RecursionExists
<1>. USE <1>3 DEF Recurs
<1>4. ASSUME NEW k \in 0..n PROVE f[k] = IF k = 0 THEN S ELSE FoldedAt(f[k - 1], k)
  <2>1. CASE k = 0
    BY <1>3, <2>1
  <2>2. CASE k # 0
    <3>1. k \in 1..n /\ k - 1 \in 0..n
      BY <1>1, <2>2
    <3>2. f[k - 1] \in X
      BY <1>3, <3>1
    <3>3. F[k][f[k - 1]] = FoldedAt(f[k - 1], k)
      BY <3>1, <3>2
    <3>. QED BY <1>3, <2>2, <3>1, <3>3
  <2>. QED BY <2>1, <2>2
<1>5. f = [k \in 0..n |-> IF k = 0 THEN S ELSE FoldedAt(f[k - 1], k)]
  <2>1. f = [k \in 0..n |-> f[k]]
    BY <1>3
  <2>. HIDE DEF n, X, F
  <2>. QED BY <1>4, <2>1
<1>. QED BY <1>5 DEF IsWorking

\* and the planner computes them.
LEMMA WorkingIs ==
    ASSUME NEW S \in Parts(Selectable)
    PROVE  /\ DOMAIN workingSets(S) = 0..Cardinality(S)
           /\ workingSets(S)[0] = S
           /\ \A leg \in 1..Cardinality(S) :
                 workingSets(S)[leg] = FoldedAt(workingSets(S)[leg - 1], leg)
<1>1. Cardinality(S) \in Nat
  BY FS_CardinalityType DEF Parts
<1>2. workingSets(S) = CHOOSE f : IsWorking(f, S)
  BY DEF workingSets, IsWorking, FoldedAt, MergedAt
<1>3. PICK f : f = workingSets(S)
  OBVIOUS
<1>4. IsWorking(f, S)
  <2>1. \E g : IsWorking(g, S)
    BY WorkingExists
  <2>. QED BY <1>2, <1>3, <2>1
<1>5. /\ DOMAIN f = 0..Cardinality(S) /\ f[0] = S
      /\ \A leg \in 1..Cardinality(S) : f[leg] = FoldedAt(f[leg - 1], leg)
  BY <1>1, <1>4 DEF IsWorking
<1>. QED BY <1>3, <1>5

Held(S, m) == workingSets(S)[m]

\* A working set is the one before it, folded.
LEMMA HeldIs ==
    ASSUME NEW S \in Parts(Selectable)
    PROVE  /\ Held(S, 0) = S
           /\ \A m \in 1..Cardinality(S) : Held(S, m) = FoldedAt(Held(S, m - 1), m)
BY WorkingIs DEF Held

\* The notes of a wallet are on the chain.
Purse == {S \in Pile : \A n \in S : n.leaf >= 1}

Whence(S, m, n) ==
    n \in S \/ \E l \in 1..m : n = MergedAt(Held(S, l - 1), l)

\* A working set is a pile that is worth the purse, of its notes and of merged ones.
LEMMA WorkingOK ==
    ASSUME NEW S \in Purse, NEW m \in 0..Cardinality(S)
    PROVE  /\ Held(S, m) \in Pile
           /\ Total(Held(S, m)) = Total(S)
           /\ \A n \in Held(S, m) : Whence(S, m, n)
<1> DEFINE Good(k) == /\ Held(S, k) \in Pile
                      /\ Total(Held(S, k)) = Total(S)
                      /\ \A n \in Held(S, k) : Whence(S, k, n)
           Bad == {k \in 0..Cardinality(S) : ~Good(k)}
<1>1. S \in Pile /\ S \in Parts(Selectable) /\ Cardinality(S) \in Nat
  BY PileIsFinite DEF Purse
<1>2. SUFFICES ASSUME Bad # {} PROVE FALSE
  OBVIOUS
<1>3. PICK k \in Bad : \A j \in Bad : k <= j
  <2>1. Bad \subseteq Nat
    BY <1>1
  <2>. HIDE DEF Bad
  <2>. QED BY <1>2, <2>1, LeastNatural
<1>4. k # 0
  <2>1. Held(S, 0) = S
    BY <1>1, HeldIs
  <2>2. Good(0)
    BY <1>1, <2>1 DEF Whence
  <2>. HIDE DEF Good
  <2>. QED BY <1>3, <2>2
<1>5. k - 1 \in 0..Cardinality(S) /\ k - 1 \notin Bad /\ k \in 1..Cardinality(S)
  BY <1>1, <1>3, <1>4
<1> DEFINE T == Held(S, k - 1)
<1>6. T \in Pile /\ Total(T) = Total(S) /\ \A n \in T : Whence(S, k - 1, n)
  BY <1>5
<1>7. Held(S, k) = FoldedAt(T, k)
  BY <1>1, <1>5, HeldIs
<1>. HIDE DEF T
<1> DEFINE new == MergedAt(T, k)
<1>8. T \in Parts(Selectable)
  BY <1>6, PileIsFinite
<1>9. /\ Fold(T) \in SUBSET T /\ new \in Selectable
      /\ new.leaf = 0 - k /\ new.value = Total(Fold(T))
      /\ FoldedAt(T, k) = (T \ Fold(T)) \cup {new}
  <2>1. k \in Nat
    BY <1>1, <1>5
  <2>. QED BY <1>8, <2>1, FoldIsPart DEF FoldedAt
<1>10. ASSUME NEW n \in T PROVE n.leaf # 0 - k
  <2>1. Whence(S, k - 1, n)
    BY <1>6
  <2>2. CASE n \in S
    <3>1. n.leaf >= 1 /\ n.leaf \in Int
      BY <1>1, <2>2 DEF Purse, Parts, Selectable
    <3>. QED BY <1>5, <3>1
  <2>3. CASE n \notin S
    <3>1. PICK l \in 1..(k - 1) : n = MergedAt(Held(S, l - 1), l)
      BY <2>1, <2>3 DEF Whence
    <3>2. n.leaf = 0 - l
      BY <3>1 DEF MergedAt, pendingLeaf
    <3>. QED BY <1>5, <3>2
  <2>. QED BY <2>2, <2>3
<1>. HIDE DEF new
<1>11. /\ T \ Fold(T) \in Parts(Selectable) /\ Fold(T) \in Parts(Selectable)
       /\ Total(T) = Total(Fold(T)) + Total(T \ Fold(T))
  BY <1>8, <1>9, TotalSplit
<1>12. /\ (T \ Fold(T)) \cup {new} \in Parts(Selectable)
       /\ Total((T \ Fold(T)) \cup {new}) = new.value + Total(T \ Fold(T))
  <2>1. new \notin T \ Fold(T)
    BY <1>9, <1>10
  <2>. QED BY <1>9, <1>11, <2>1, TotalAdd
<1>13. Held(S, k) \in Pile
  <2>1. \A m1, n1 \in T : m1.leaf = n1.leaf => m1 = n1
    BY <1>6 DEF Pile, Apart
  <2>2. \A m1, n1 \in (T \ Fold(T)) \cup {new} : m1.leaf = n1.leaf => m1 = n1
    BY <1>9, <1>10, <2>1
  <2>. QED BY <1>7, <1>9, <1>12, <2>2 DEF Pile, Apart
<1>14. Total(Held(S, k)) = Total(S)
  BY <1>6, <1>7, <1>9, <1>11, <1>12
<1>15. ASSUME NEW n \in Held(S, k) PROVE Whence(S, k, n)
  <2>1. CASE n \in T
    <3>1. Whence(S, k - 1, n)
      BY <1>6, <2>1
    <3>2. 1..(k - 1) \subseteq 1..k
      BY <1>5
    <3>. QED BY <3>1, <3>2 DEF Whence
  <2>2. CASE n \notin T
    <3>1. n = new /\ k \in 1..k
      BY <1>5, <1>7, <1>9, <2>2
    <3>2. n = MergedAt(Held(S, k - 1), k)
      BY <3>1 DEF new, T
    <3>. QED BY <3>1, <3>2 DEF Whence
  <2>. QED BY <2>1, <2>2
<1>. QED BY <1>3, <1>13, <1>14, <1>15

\* A leg folds notes of its working set into one that is new.
LEMMA WorkingStep ==
    ASSUME NEW S \in Purse, NEW m \in 1..Cardinality(S)
    PROVE  /\ Held(S, m - 1) \in Pile /\ Fold(Held(S, m - 1)) \in SUBSET Held(S, m - 1)
           /\ MergedAt(Held(S, m - 1), m) \in Selectable
           /\ MergedAt(Held(S, m - 1), m).leaf = 0 - m
           /\ MergedAt(Held(S, m - 1), m).value = Total(Fold(Held(S, m - 1)))
           /\ Held(S, m) = (Held(S, m - 1) \ Fold(Held(S, m - 1))) \cup
                               {MergedAt(Held(S, m - 1), m)}
           /\ \A n \in Held(S, m - 1) : n.leaf > 0 - m
<1> DEFINE T == Held(S, m - 1)
           new == MergedAt(T, m)
<1>1. S \in Pile /\ S \in Parts(Selectable) /\ Cardinality(S) \in Nat
  BY PileIsFinite DEF Purse
<1>2. m - 1 \in 0..Cardinality(S) /\ m \in Nat
  BY <1>1
<1>3. T \in Pile /\ \A n \in T : Whence(S, m - 1, n)
  BY <1>2, WorkingOK
<1>4. Held(S, m) = FoldedAt(T, m)
  BY <1>1, HeldIs
<1>5. ASSUME NEW n \in T PROVE n.leaf > 0 - m
  <2>1. Whence(S, m - 1, n)
    BY <1>3
  <2>2. CASE n \in S
    <3>1. n.leaf >= 1 /\ n.leaf \in Int
      BY <1>1, <2>2 DEF Purse, Parts, Selectable
    <3>. QED BY <1>2, <3>1
  <2>3. CASE n \notin S
    <3>1. PICK l \in 1..(m - 1) : n = MergedAt(Held(S, l - 1), l)
      BY <2>1, <2>3 DEF Whence
    <3>2. n.leaf = 0 - l
      BY <3>1 DEF MergedAt, pendingLeaf
    <3>. QED BY <1>2, <3>2
  <2>. QED BY <2>2, <2>3
<1>. HIDE DEF T
<1>6. T \in Parts(Selectable)
  BY <1>3, PileIsFinite
<1>7. /\ Fold(T) \in SUBSET T /\ new \in Selectable
      /\ new.leaf = 0 - m /\ new.value = Total(Fold(T))
      /\ FoldedAt(T, m) = (T \ Fold(T)) \cup {new}
  BY <1>2, <1>6, FoldIsPart DEF FoldedAt
<1>. QED BY <1>3, <1>4, <1>5, <1>7 DEF T

\* What is there at a leg and was there to be at an earlier one, was there.
LEMMA WorkingStays ==
    ASSUME NEW S \in Purse, NEW i \in 0..Cardinality(S), NEW j \in 0..Cardinality(S),
           i <= j, NEW n \in Held(S, j), n.leaf >= 0 - i
    PROVE  n \in Held(S, i)
<1> DEFINE Lost == {k \in i..j : n \in Held(S, k)}
<1>1. Cardinality(S) \in Nat
  BY PileIsFinite DEF Purse
<1>2. Lost \subseteq Nat /\ j \in Lost
  BY <1>1
<1>3. PICK k \in Lost : \A l \in Lost : k <= l
  <2>. HIDE DEF Lost
  <2>. QED BY <1>2, LeastNatural
<1>4. CASE k = i
  BY <1>3, <1>4
<1>5. CASE k # i
  <2>1. k \in 1..Cardinality(S) /\ k - 1 \in i..j /\ i < k
    BY <1>1, <1>3, <1>5
  <2>2. n \notin Held(S, k - 1)
    BY <1>3, <2>1
  <2>3. n = MergedAt(Held(S, k - 1), k)
    BY <1>3, <2>1, <2>2, WorkingStep
  <2>4. n.leaf = 0 - k
    BY <2>3 DEF MergedAt, pendingLeaf
  <2>. QED BY <1>1, <2>1, <2>4
<1>. QED BY <1>4, <1>5

\* What is folded once is not there to be folded again.
LEMMA FoldsApart ==
    ASSUME NEW S \in Purse, NEW i \in 1..Cardinality(S), NEW j \in 0..Cardinality(S), i <= j,
           NEW n \in Fold(Held(S, i - 1))
    PROVE  n \notin Held(S, j)
<1>1. SUFFICES ASSUME n \in Held(S, j) PROVE FALSE
  OBVIOUS
<1>2. Cardinality(S) \in Nat
  BY PileIsFinite DEF Purse
<1>3. n \in Held(S, i - 1) /\ n.leaf > 0 - i /\ n \in Selectable
  <2>1. n \in Held(S, i - 1) /\ n.leaf > 0 - i /\ Held(S, i - 1) \in Pile
    BY WorkingStep
  <2>. QED BY <2>1, PileIsFinite
<1>4. n.leaf >= 0 - i /\ n.leaf # 0 - i
  BY <1>2, <1>3 DEF Selectable
<1>5. n \in Held(S, i)
  BY <1>1, <1>2, <1>4, WorkingStays
<1>6. n = MergedAt(Held(S, i - 1), i)
  BY <1>5, WorkingStep
<1>7. n.leaf = 0 - i
  BY <1>6 DEF MergedAt, pendingLeaf
<1>. QED BY <1>4, <1>7

\* What is not folded stays.
LEMMA WorkingKeeps ==
    ASSUME NEW S \in Purse, NEW i \in 0..Cardinality(S), NEW j \in 0..Cardinality(S), i <= j,
           NEW n \in Held(S, i),
           \A l \in (i + 1)..j : n \notin Fold(Held(S, l - 1))
    PROVE  n \in Held(S, j)
<1> DEFINE Lost == {k \in i..j : n \notin Held(S, k)}
<1>1. Cardinality(S) \in Nat
  BY PileIsFinite DEF Purse
<1>2. SUFFICES ASSUME Lost # {} PROVE FALSE
  BY <1>1
<1>3. PICK k \in Lost : \A l \in Lost : k <= l
  <2>1. Lost \subseteq Nat
    BY <1>1
  <2>. HIDE DEF Lost
  <2>. QED BY <1>2, <2>1, LeastNatural
<1>4. k # i
  BY <1>3
<1>5. k \in 1..Cardinality(S) /\ k - 1 \in i..j /\ k \in (i + 1)..j
  BY <1>1, <1>3, <1>4
<1>6. n \in Held(S, k - 1)
  BY <1>3, <1>5
<1>7. n \notin Fold(Held(S, k - 1))
  BY <1>5
<1>8. n \in Held(S, k)
  BY <1>5, <1>6, <1>7, WorkingStep
<1>. QED BY <1>3, <1>8

-----------------------------------------------------------------------------
(***************************************************************************)
(* Plans.                                                                  *)
(***************************************************************************)
Spending == {"transfer", "withdraw", "disburse"}

\* Every circuit spends a note or more, a merge at least two.
LEMMA ArityIs ==
    /\ TRANSFER10_ARITY \in Nat /\ TRANSFER10_ARITY >= 2
    /\ \A kind \in Spending : terminalArity(kind) \in Nat /\ terminalArity(kind) >= 1
<1>1. TRANSFER10_ARITY \in Nat /\ TRANSFER10_ARITY >= 2
  BY WalletAssumption
<1>2. ASSUME NEW kind \in Spending
      PROVE  terminalArity(kind) \in {TRANSFER10_ARITY, 2, 1}
  <2>1. kind = "transfer" \/ kind = "withdraw" \/ kind = "disburse"
    BY DEF Spending
  <2>. QED BY <2>1 DEF terminalArity
<1>. QED BY <1>1, <1>2

\* A leg leaves as many notes fewer as it folds, but one.
LEMMA HeldSize ==
    ASSUME NEW S \in Purse, NEW m \in 1..Cardinality(S)
    PROVE  LET c == Cardinality(Held(S, m - 1))
           IN  /\ c \in Nat
               /\ Cardinality(Held(S, m)) =
                     IF TRANSFER10_ARITY <= c THEN c - TRANSFER10_ARITY + 1 ELSE 1
<1> DEFINE T == Held(S, m - 1)
           c == Cardinality(T)
           new == MergedAt(T, m)
<1>1. T \in Pile /\ Fold(T) \in SUBSET T /\ new.leaf = 0 - m
      /\ Held(S, m) = (T \ Fold(T)) \cup {new} /\ \A n \in T : n.leaf > 0 - m
  BY WorkingStep
<1>2. IsFiniteSet(T) /\ c \in Nat /\ T \in SUBSET Selectable
  BY <1>1, PileIsFinite
<1>. HIDE DEF T, new
<1>3. Cardinality(Fold(T)) = IF TRANSFER10_ARITY <= c THEN TRANSFER10_ARITY ELSE c
  BY <1>1, ArityIs, LargestSize DEF Fold
<1>4. IsFiniteSet(T \ Fold(T)) /\ Cardinality(T \ Fold(T)) = c - Cardinality(Fold(T))
  <2>1. T \cap Fold(T) = Fold(T)
    BY <1>1
  <2>. QED BY <1>2, <2>1, FS_Difference
<1>5. new \notin T \ Fold(T)
  <2>1. m \in Nat
    BY PileIsFinite DEF Purse
  <2>2. ASSUME new \in T PROVE FALSE
    <3>1. new.leaf > 0 - m
      BY <1>1, <2>2
    <3>. QED BY <1>1, <2>1, <3>1
  <2>. QED BY <2>2
<1>6. Cardinality((T \ Fold(T)) \cup {new}) = Cardinality(T \ Fold(T)) + 1
  BY <1>4, <1>5, FS_AddElement
<1>7. Cardinality(Held(S, m)) = IF TRANSFER10_ARITY <= c THEN c - TRANSFER10_ARITY + 1 ELSE 1
  <2>1. Cardinality(Held(S, m)) = c - Cardinality(Fold(T)) + 1
    BY <1>1, <1>4, <1>6
  <2>. QED BY <1>2, <1>3, <2>1, ArityIs
<1>. QED BY <1>2, <1>7 DEF T

\* What is not payable yet is in more notes than the last circuit spends.
LEMMA PayableOrMany ==
    ASSUME NEW T \in Pile, NEW kind \in Spending, NEW amount \in Nat \ {0},
           Total(T) >= amount, ~Payable(kind, T, amount)
    PROVE  Cardinality(T) > terminalArity(kind)
<1>1. Selects(T, amount, selectInputNotes(T, amount))
  BY SelectsOne
<1>2. Cardinality(T) \in Nat
  BY PileIsFinite
<1>. QED BY <1>1, <1>2, ArityIs DEF Payable, Selects

\* A purse that holds the amount, whichever leg it is at.
LEMMA HeldCovers ==
    ASSUME NEW S \in Purse, NEW m \in 0..Cardinality(S)
    PROVE  /\ Held(S, m) \in Pile /\ Total(Held(S, m)) = Total(S)
           /\ Cardinality(Held(S, m)) \in Nat
BY WorkingOK, PileIsFinite

IsMerges(S, kind, amount, m) ==
    /\ m \in 0..Cardinality(S)
    /\ Payable(kind, Held(S, m), amount)
    /\ \A l \in 0..(m - 1) : ~Payable(kind, Held(S, l), amount)

\* The number of merges is one,
LEMMA MergesIsOne ==
    ASSUME NEW S \in Purse, NEW kind, NEW amount,
           NEW j, IsMerges(S, kind, amount, j), NEW k, IsMerges(S, kind, amount, k)
    PROVE  j = k
<1>1. Cardinality(S) \in Nat
  BY PileIsFinite DEF Purse
<1>2. j \in Nat /\ k \in Nat
  BY <1>1 DEF IsMerges
<1>3. ~(j < k)
  <2>1. j < k => j \in 0..(k - 1)
    BY <1>2
  <2>. QED BY <2>1 DEF IsMerges
<1>4. ~(k < j)
  <2>1. k < j => k \in 0..(j - 1)
    BY <1>2
  <2>. QED BY <2>1 DEF IsMerges
<1>. QED BY <1>2, <1>3, <1>4

\* and there is one: a working set of a single note is payable.
LEMMA MergesExists ==
    ASSUME NEW S \in Purse, NEW kind \in Spending, NEW amount \in Nat \ {0},
           Total(S) >= amount
    PROVE  \E m : IsMerges(S, kind, amount, m)
<1> DEFINE c(m) == Cardinality(Held(S, m))
           Pays == {m \in 0..Cardinality(S) : Payable(kind, Held(S, m), amount)}
<1>1. Cardinality(S) \in Nat /\ S \in Parts(Selectable)
  BY PileIsFinite DEF Purse
<1>2. Pays # {}
  <2>1. SUFFICES ASSUME Pays = {} PROVE FALSE
    OBVIOUS
  <2>2. ASSUME NEW m \in 0..Cardinality(S) PROVE c(m) \in Nat /\ c(m) > terminalArity(kind)
    <3>1. ~Payable(kind, Held(S, m), amount)
      BY <2>1
    <3>. QED BY <3>1, HeldCovers, PayableOrMany
  <2> DEFINE Bad == {m \in 0..Cardinality(S) : ~(c(m) <= Cardinality(S) - m)}
  <2>3. Bad = {}
    <3>1. SUFFICES ASSUME Bad # {} PROVE FALSE
      OBVIOUS
    <3>2. PICK m \in Bad : \A j \in Bad : m <= j
      <4>1. Bad \subseteq Nat
        BY <1>1
      <4>. HIDE DEF Bad
      <4>. QED BY <3>1, <4>1, LeastNatural
    <3>3. m \in 0..Cardinality(S) /\ ~(c(m) <= Cardinality(S) - m)
      OBVIOUS
    <3>4. m # 0
      <4>1. c(0) = Cardinality(S)
        BY <1>1, HeldIs
      <4>. QED BY <1>1, <3>3, <4>1
    <3>5. m \in 1..Cardinality(S) /\ m - 1 \in 0..Cardinality(S) /\ ~(m <= m - 1)
      BY <1>1, <3>3, <3>4
    <3>6. c(m - 1) <= Cardinality(S) - (m - 1)
      <4>1. m - 1 \notin Bad
        BY <3>2, <3>5
      <4>. QED BY <3>5, <4>1
    <3>7. c(m) = IF TRANSFER10_ARITY <= c(m - 1) THEN c(m - 1) - TRANSFER10_ARITY + 1 ELSE 1
      BY <3>5, HeldSize
    <3>8. c(m - 1) \in Nat /\ c(m - 1) >= 2
      BY <2>2, <3>5, ArityIs
    <3>. HIDE DEF c
    <3>. QED BY <1>1, <3>3, <3>5, <3>6, <3>7, <3>8, ArityIs
  <2>4. Cardinality(S) \in 0..Cardinality(S)
    BY <1>1
  <2>5. c(Cardinality(S)) <= Cardinality(S) - Cardinality(S)
    BY <2>3, <2>4
  <2>6. c(Cardinality(S)) \in Nat /\ c(Cardinality(S)) > terminalArity(kind)
    BY <2>2, <2>4
  <2>. HIDE DEF c
  <2>. QED BY <1>1, <2>5, <2>6, ArityIs
<1>3. PICK m \in Pays : \A j \in Pays : m <= j
  <2>1. Pays \subseteq Nat
    BY <1>1
  <2>. HIDE DEF Pays
  <2>. QED BY <1>2, <2>1, LeastNatural
<1>4. m \in 0..Cardinality(S) /\ Payable(kind, Held(S, m), amount)
  OBVIOUS
<1>5. ASSUME NEW l \in 0..(m - 1) PROVE ~Payable(kind, Held(S, l), amount)
  <2>1. l \in 0..Cardinality(S) /\ ~(m <= l)
    BY <1>1, <1>4
  <2>2. l \notin Pays
    BY <1>3, <2>1
  <2>. QED BY <2>1, <2>2
<1>. QED BY <1>4, <1>5 DEF IsMerges

\* As many merges as the planner says at most.
LEMMA MergesBound ==
    ASSUME NEW S \in Purse, NEW kind \in Spending, NEW amount \in Nat \ {0},
           Total(S) >= amount, NEW M, IsMerges(S, kind, amount, M), M # 0
    PROVE  M * (TRANSFER10_ARITY - 1)
              < Cardinality(S) - terminalArity(kind) + TRANSFER10_ARITY - 1
<1> DEFINE c(m) == Cardinality(Held(S, m))
           B == TRANSFER10_ARITY - 1
           Bad == {m \in 0..(M - 1) : c(m) # Cardinality(S) - m * B}
<1>1. Cardinality(S) \in Nat /\ S \in Parts(Selectable)
  BY PileIsFinite DEF Purse
<1>2. M \in 1..Cardinality(S) /\ B \in Nat
  BY <1>1, ArityIs DEF IsMerges
<1>3. ASSUME NEW m \in 0..(M - 1) PROVE c(m) \in Nat /\ c(m) > terminalArity(kind)
  <2>1. ~Payable(kind, Held(S, m), amount) /\ m \in 0..Cardinality(S)
    BY <1>1, <1>2 DEF IsMerges
  <2>. QED BY <2>1, HeldCovers, PayableOrMany
<1>4. Bad = {}
  <2>1. SUFFICES ASSUME Bad # {} PROVE FALSE
    OBVIOUS
  <2>2. PICK m \in Bad : \A j \in Bad : m <= j
    <3>1. Bad \subseteq Nat
      BY <1>2
    <3>. HIDE DEF Bad
    <3>. QED BY <2>1, <3>1, LeastNatural
  <2>3. m \in 0..(M - 1) /\ c(m) # Cardinality(S) - m * B
    OBVIOUS
  <2>4. m # 0
    <3>1. c(0) = Cardinality(S)
      BY <1>1, HeldIs
    <3>2. 0 * B = 0
      BY <1>2
    <3>. HIDE DEF c, B
    <3>. QED BY <1>1, <2>3, <3>1, <3>2
  <2>5. m \in 1..Cardinality(S) /\ m - 1 \in 0..(M - 1) /\ ~(m <= m - 1)
    BY <1>1, <1>2, <2>3, <2>4
  <2>6. c(m - 1) = Cardinality(S) - (m - 1) * B
    <3>1. m - 1 \notin Bad
      BY <2>2, <2>5
    <3>. QED BY <2>5, <3>1
  <2>7. c(m) = IF TRANSFER10_ARITY <= c(m - 1) THEN c(m - 1) - TRANSFER10_ARITY + 1 ELSE 1
    BY <2>5, HeldSize
  <2>8. c(m) >= 2 /\ c(m) \in Nat /\ c(m - 1) \in Nat
    BY <1>3, <2>3, <2>5, ArityIs
  <2>9. c(m) = c(m - 1) - B
    <3>. HIDE DEF c
    <3>. QED BY <2>7, <2>8, ArityIs
  <2>10. (m - 1) * B = m * B - B
    <3>. HIDE DEF B
    <3>. QED BY <1>2, <2>5
  <2>11. m * B \in Int
    <3>. HIDE DEF B
    <3>. QED BY <1>2, <2>5
  <2>. HIDE DEF c, B
  <2>. QED BY <1>1, <1>2, <2>3, <2>6, <2>9, <2>10, <2>11
<1>5. c(M - 1) = Cardinality(S) - (M - 1) * B /\ c(M - 1) > terminalArity(kind)
  <2>1. M - 1 \in 0..(M - 1)
    BY <1>2
  <2>. HIDE DEF c, B
  <2>. QED BY <1>3, <1>4, <2>1 DEF Bad
<1>. HIDE DEF c
<1>6. (M - 1) * B = M * B - B /\ M * B \in Int
  <2>. HIDE DEF B
  <2>. QED BY <1>1, <1>2
<1>7. M * B < Cardinality(S) - terminalArity(kind) + B
  <2>. HIDE DEF B
  <2>. QED BY <1>1, <1>2, <1>5, <1>6, ArityIs
<1>. QED BY <1>1, <1>2, <1>7, ArityIs

Funds(T, amount) == unspentLargestFirst(T, selectInputNotes(T, amount))

MergeLeg(S, leg) == [merge |-> TRUE, ins |-> Fold(Held(S, leg - 1)),
                     value |-> Total(Fold(Held(S, leg - 1)))]
LastLeg(S, amount, M) == [merge |-> FALSE, ins |-> Funds(Held(S, M), amount), value |-> amount]

Plan(S, amount, M) ==
    [leg \in 1..(M + 1) |-> IF leg <= M THEN MergeLeg(S, leg) ELSE LastLeg(S, amount, M)]

\* The planner's chain is so many merges and one last leg.
LEMMA PlanIs ==
    ASSUME NEW S \in Purse, NEW kind \in Spending, NEW amount \in Nat \ {0},
           Total(S) >= amount
    PROVE  \E M : /\ IsMerges(S, kind, amount, M)
                  /\ planSpendChain(kind, S, amount) = Plan(S, amount, M)
<1>1. S \in Parts(Selectable)
  BY PileIsFinite DEF Purse
<1>2. PICK M : IsMerges(S, kind, amount, M)
  BY MergesExists
<1> DEFINE merges == CHOOSE m \in DOMAIN workingSets(S) :
                        /\ Payable(kind, workingSets(S)[m], amount)
                        /\ \A l \in 0..(m - 1) : ~Payable(kind, workingSets(S)[l], amount)
<1>3. merges = CHOOSE m \in 0..Cardinality(S) : IsMerges(S, kind, amount, m)
  <2>1. DOMAIN workingSets(S) = 0..Cardinality(S)
    BY <1>1, WorkingIs
  <2>. QED BY <2>1 DEF IsMerges, Held
<1>4. M \in 0..Cardinality(S)
  BY <1>2 DEF IsMerges
<1>5. IsMerges(S, kind, amount, merges)
  <2>. HIDE DEF merges
  <2>. QED BY <1>2, <1>3, <1>4
<1>6. merges = M
  <2>. HIDE DEF merges
  <2>. QED BY <1>2, <1>5, MergesIsOne
<1>7. planSpendChain(kind, S, amount) = Plan(S, amount, merges)
  BY DEF planSpendChain, Plan, MergeLeg, LastLeg, Funds, Held
<1>. HIDE DEF merges
<1>. QED BY <1>2, <1>6, <1>7

PlanLeg == [merge : BOOLEAN, ins : SUBSET Selectable, value : Nat]

\* What PlansCover asks of a plan, and where its notes come from.
InsFrom(plan, S, i) ==
    \A n \in plan[i].ins : \/ n \in S
                           \/ /\ 0 - n.leaf \in 1..(i - 1)
                              /\ n.value = plan[0 - n.leaf].value

LegOK(plan, S, kind, i) ==
    /\ plan[i].merge <=> i < Len(plan)
    /\ plan[i].ins \in Pile
    /\ Cardinality(plan[i].ins) <= IF plan[i].merge THEN TRANSFER10_ARITY ELSE terminalArity(kind)
    /\ InsFrom(plan, S, i)
    /\ \A j \in 1..Len(plan) : i # j => plan[i].ins \cap plan[j].ins = {}
    /\ i < Len(plan) => Total(plan[i].ins) = plan[i].value

PlanOK(plan, S, kind, amount) ==
    /\ plan \in Seq(PlanLeg) /\ Len(plan) >= 1
    /\ \A i \in 1..Len(plan) : LegOK(plan, S, kind, i)
    /\ plan[Len(plan)].value = amount
    /\ Total(plan[Len(plan)].ins) >= amount
    /\ \/ (Len(plan) - 1) * (TRANSFER10_ARITY - 1)
             < Cardinality(S) - terminalArity(kind) + TRANSFER10_ARITY - 1
       \/ Len(plan) = 1

\* A plan of a purse that covers the amount is payable as it stands.
LEMMA PlanFacts ==
    ASSUME NEW S \in Purse, NEW kind \in Spending, NEW amount \in Nat \ {0},
           Total(S) >= amount
    PROVE  PlanOK(planSpendChain(kind, S, amount), S, kind, amount)
<1>1. PICK M : /\ IsMerges(S, kind, amount, M)
               /\ planSpendChain(kind, S, amount) = Plan(S, amount, M)
  BY PlanIs
<1>2. PICK plan : plan = Plan(S, amount, M)
  OBVIOUS
<1>3. Cardinality(S) \in Nat /\ M \in 0..Cardinality(S) /\ M \in Nat
  BY <1>1, PileIsFinite DEF Purse, IsMerges
<1>4. ASSUME NEW i \in 1..(M + 1)
      PROVE  /\ Held(S, i - 1) \in Pile /\ plan[i].ins \in SUBSET Held(S, i - 1)
             /\ i \in Nat /\ i - 1 \in 0..Cardinality(S)
  <2>1. i \in Nat /\ i - 1 \in 0..Cardinality(S)
    BY <1>3
  <2>2. Held(S, i - 1) \in Pile
    BY <2>1, HeldCovers
  <2>3. Fold(Held(S, i - 1)) \in SUBSET Held(S, i - 1)
    BY DEF Fold, unspentLargestFirst
  <2>4. Funds(Held(S, M), amount) \in SUBSET Held(S, M)
    BY DEF Funds, unspentLargestFirst
  <2>5. CASE i <= M
    <3>1. plan[i] = MergeLeg(S, i)
      BY <1>2, <1>3, <2>5 DEF Plan
    <3>. QED BY <2>1, <2>2, <2>3, <3>1 DEF MergeLeg
  <2>6. CASE ~(i <= M)
    <3>1. plan[i] = LastLeg(S, amount, M) /\ i = M + 1 /\ i - 1 = M
      BY <1>2, <1>3, <2>6 DEF Plan
    <3>. QED BY <2>1, <2>2, <2>4, <3>1 DEF LastLeg
  <2>. QED BY <2>5, <2>6
<1>5. ASSUME NEW i \in 1..M
      PROVE  /\ plan[i].merge /\ plan[i].ins = Fold(Held(S, i - 1))
             /\ plan[i].value = Total(Fold(Held(S, i - 1)))
             /\ i \in 1..(M + 1) /\ i \in 1..Cardinality(S)
  <2>1. i \in 1..(M + 1) /\ i <= M /\ i \in 1..Cardinality(S)
    BY <1>3
  <2>2. plan[i] = MergeLeg(S, i)
    BY <1>2, <2>1 DEF Plan
  <2>. QED BY <2>1, <2>2 DEF MergeLeg
<1>6. /\ ~plan[M + 1].merge /\ plan[M + 1].ins = Funds(Held(S, M), amount)
      /\ plan[M + 1].value = amount
  <2>1. M + 1 \in 1..(M + 1) /\ ~(M + 1 <= M)
    BY <1>3
  <2>2. plan[M + 1] = LastLeg(S, amount, M)
    BY <1>2, <2>1 DEF Plan
  <2>. QED BY <2>2 DEF LastLeg
<1>7. Selects(Held(S, M), amount, selectInputNotes(Held(S, M), amount))
      /\ selectInputNotes(Held(S, M), amount) <= terminalArity(kind)
  <2>1. Held(S, M) \in Pile /\ Total(Held(S, M)) >= amount
    BY <1>3, HeldCovers
  <2>2. Payable(kind, Held(S, M), amount)
    BY <1>1 DEF IsMerges
  <2>. QED BY <2>1, <2>2, SelectsOne DEF Payable
<1>8. ASSUME NEW i \in 1..(M + 1) PROVE plan[i] \in PlanLeg
  <2>1. plan[i].ins \in SUBSET Selectable /\ plan[i].ins \in Parts(Selectable)
    BY <1>4, PartOfPile, PileIsFinite
  <2>2. CASE i <= M
    <3>1. plan[i] = MergeLeg(S, i) /\ i \in 1..M
      BY <1>2, <1>3, <2>2 DEF Plan
    <3>2. Total(plan[i].ins) \in Nat
      BY <2>1, TotalNat
    <3>. QED BY <1>5, <2>1, <3>1, <3>2 DEF MergeLeg, PlanLeg
  <2>3. CASE ~(i <= M)
    <3>1. plan[i] = LastLeg(S, amount, M)
      BY <1>2, <1>3, <2>3 DEF Plan
    <3>. QED BY <2>1, <3>1 DEF LastLeg, PlanLeg
  <2>. QED BY <2>2, <2>3
<1>9. plan \in Seq(PlanLeg) /\ Len(plan) = M + 1
  <2>1. plan = [i \in 1..(M + 1) |-> plan[i]] /\ M + 1 \in Nat
    BY <1>2, <1>3 DEF Plan
  <2>. QED BY <1>8, <2>1
<1>10. ASSUME NEW i \in 1..(M + 1), NEW n \in plan[i].ins
       PROVE  n \in S \/ (0 - n.leaf \in 1..(i - 1) /\ n.value = plan[0 - n.leaf].value)
  <2>1. Whence(S, i - 1, n)
    BY <1>4, WorkingOK
  <2>2. CASE n \notin S
    <3>1. PICK l \in 1..(i - 1) : n = MergedAt(Held(S, l - 1), l)
      BY <2>1, <2>2 DEF Whence
    <3>2. n.leaf = 0 - l /\ n.value = Total(Fold(Held(S, l - 1)))
      BY <3>1 DEF MergedAt, pendingLeaf
    <3>3. l \in 1..M /\ 0 - n.leaf = l
      BY <1>3, <3>2
    <3>. QED BY <1>5, <3>2, <3>3
  <2>. QED BY <2>2
<1>11. ASSUME NEW i \in 1..(M + 1), NEW j \in 1..(M + 1), i < j
       PROVE  plan[i].ins \cap plan[j].ins = {}
  <2>1. i \in 1..M /\ i <= j - 1
    BY <1>3, <1>11
  <2>2. ASSUME NEW n \in plan[i].ins, n \in plan[j].ins PROVE FALSE
    <3>1. n \in Fold(Held(S, i - 1)) /\ i \in 1..Cardinality(S)
      BY <1>5, <2>1
    <3>2. n \in Held(S, j - 1) /\ j - 1 \in 0..Cardinality(S)
      BY <1>4, <2>2
    <3>. QED BY <2>1, <3>1, <3>2, FoldsApart
  <2>. QED BY <2>2
<1>12. ASSUME NEW i \in 1..Len(plan) PROVE LegOK(plan, S, kind, i)
  <2>1. i \in 1..(M + 1) /\ i \in Nat
    BY <1>3, <1>9
  <2>2. plan[i].merge <=> i < Len(plan)
    <3>1. CASE i \in 1..M
      BY <1>3, <1>5, <1>9, <3>1
    <3>2. CASE i \notin 1..M
      <4>1. i = M + 1
        BY <1>3, <2>1, <3>2
      <4>. QED BY <1>3, <1>6, <1>9, <4>1
    <3>. QED BY <3>1, <3>2
  <2>3. plan[i].ins \in Pile
    BY <1>4, <2>1, PartOfPile
  <2>4. Cardinality(plan[i].ins)
           <= IF plan[i].merge THEN TRANSFER10_ARITY ELSE terminalArity(kind)
    <3>1. CASE i \in 1..M
      <4>1. Held(S, i - 1) \in Pile
        BY <1>4, <2>1
      <4>2. Cardinality(Fold(Held(S, i - 1))) <= TRANSFER10_ARITY
        <5>1. Cardinality(Held(S, i - 1)) \in Nat
          BY <4>1, PileIsFinite
        <5>2. Cardinality(unspentLargestFirst(Held(S, i - 1), TRANSFER10_ARITY)) =
                IF TRANSFER10_ARITY <= Cardinality(Held(S, i - 1)) THEN TRANSFER10_ARITY
                ELSE Cardinality(Held(S, i - 1))
          BY <4>1, ArityIs, LargestSize
        <5>. QED BY <5>1, <5>2, ArityIs DEF Fold
      <4>. QED BY <1>5, <3>1, <4>2
    <3>2. CASE i \notin 1..M
      <4>1. i = M + 1
        BY <1>3, <2>1, <3>2
      <4>2. Held(S, M) \in Pile /\ Cardinality(Held(S, M)) \in Nat
        BY <1>3, HeldCovers
      <4>3. selectInputNotes(Held(S, M), amount) \in Nat
            /\ selectInputNotes(Held(S, M), amount) <= Cardinality(Held(S, M))
        BY <1>7, <4>2 DEF Selects
      <4>4. Cardinality(Funds(Held(S, M), amount)) = selectInputNotes(Held(S, M), amount)
        BY <4>2, <4>3, LargestSize DEF Funds
      <4>. QED BY <1>6, <1>7, <4>1, <4>4
    <3>. QED BY <3>1, <3>2
  <2>5. InsFrom(plan, S, i)
    BY <1>10, <2>1 DEF InsFrom
  <2>6. ASSUME NEW j \in 1..Len(plan), i # j PROVE plan[i].ins \cap plan[j].ins = {}
    <3>1. j \in 1..(M + 1) /\ (i < j \/ j < i)
      BY <1>3, <1>9, <2>1, <2>6
    <3>. QED BY <1>11, <2>1, <3>1
  <2>7. i < Len(plan) => Total(plan[i].ins) = plan[i].value
    <3>1. i < Len(plan) => i \in 1..M
      BY <1>3, <1>9, <2>1
    <3>. QED BY <1>5, <3>1
  <2>. QED BY <2>2, <2>3, <2>4, <2>5, <2>6, <2>7 DEF LegOK
<1>13. Total(plan[Len(plan)].ins) >= amount
  BY <1>6, <1>7, <1>9 DEF Selects, Funds
<1>14. \/ (Len(plan) - 1) * (TRANSFER10_ARITY - 1)
             < Cardinality(S) - terminalArity(kind) + TRANSFER10_ARITY - 1
       \/ Len(plan) = 1
  <2>1. Len(plan) - 1 = M
    BY <1>3, <1>9
  <2>2. CASE M = 0
    BY <1>9, <2>2
  <2>3. CASE M # 0
    BY <1>1, <2>1, <2>3, MergesBound
  <2>. QED BY <2>2, <2>3
<1>15. PlanOK(plan, S, kind, amount)
  BY <1>3, <1>6, <1>9, <1>12, <1>13, <1>14 DEF PlanOK
<1>. QED BY <1>1, <1>2, <1>15

-----------------------------------------------------------------------------
(***************************************************************************)
(* The tree a chain makes of a purse: what is there after each of the      *)
(* transactions L, of which one spends ins and makes outs.                 *)
(***************************************************************************)
OutRec == [value : Nat, mine : BOOLEAN]
Entry == [ins : SUBSET Nat, outs : Seq(OutRec)]

First(p) == [i \in DOMAIN p |-> Out(p[i], TRUE)]

IsGround(f, p, L) ==
    f = [k \in 0..Len(L) |-> IF k = 0 THEN First(p) ELSE f[k - 1] \o L[k].outs]

Ground(p, L, h) == (CHOOSE f : IsGround(f, p, L))[h]

\* An output is what it is made of.
LEMMA OutIs ==
    ASSUME NEW v \in Nat, NEW b \in BOOLEAN
    PROVE  Out(v, b) \in OutRec /\ Out(v, b).value = v /\ (Out(v, b).mine <=> b)
BY DEF Out, OutRec

\* The leaves of the purse.
LEMMA FirstIs ==
    ASSUME NEW p \in Seq(Nat)
    PROVE  /\ First(p) \in Seq(OutRec) /\ Len(First(p)) = Len(p)
           /\ \A i \in 1..Len(p) : First(p)[i].value = p[i] /\ First(p)[i].mine
<1>1. Len(p) \in Nat /\ DOMAIN p = 1..Len(p) /\ \A i \in 1..Len(p) : p[i] \in Nat
  OBVIOUS
<1>2. First(p) = [i \in 1..Len(p) |-> Out(p[i], TRUE)]
  BY <1>1 DEF First
<1>3. \A i \in 1..Len(p) :
         Out(p[i], TRUE) \in OutRec /\ Out(p[i], TRUE).value = p[i] /\ Out(p[i], TRUE).mine
  BY <1>1, OutIs
<1>4. First(p) \in Seq(OutRec) /\ Len(First(p)) = Len(p)
  <2>1. \A i \in 1..Len(p) : First(p)[i] \in OutRec
    BY <1>2, <1>3
  <2>2. First(p) = [i \in 1..Len(p) |-> First(p)[i]]
    BY <1>2
  <2>. QED BY <1>1, <2>1, <2>2
<1>. QED BY <1>2, <1>3, <1>4

\* There are the leaves that the chain's recursion describes,
LEMMA GroundExists ==
    ASSUME NEW p \in Seq(Nat), NEW L \in Seq(Entry)
    PROVE  \E f : IsGround(f, p, L)
<1> DEFINE n == Len(L)
           X == Seq(OutRec)
           F == [k \in 1..n |-> [s \in X |-> s \o L[k].outs]]
<1>1. n \in Nat /\ First(p) \in X
  BY FirstIs
<1>2. F \in Steps(n, X)
  <2>1. ASSUME NEW k \in 1..n, NEW s \in X PROVE s \o L[k].outs \in X
    <3>1. L[k] \in Entry
      OBVIOUS
    <3>2. L[k].outs \in X
      BY <3>1 DEF Entry
    <3>. QED BY <3>2
  <2>. QED BY <2>1 DEF Steps
<1>3. PICK f : Recurs(f, n, X, First(p), F)
  <2>. HIDE DEF n, X, F
  <2>. QED BY <1>1, <1>2, RecursionExists
<1>4. ASSUME NEW k \in 0..n PROVE f[k] = IF k = 0 THEN First(p) ELSE f[k - 1] \o L[k].outs
  <2>1. CASE k = 0
    BY <1>3, <2>1 DEF Recurs
  <2>2. CASE k # 0
    <3>1. k \in 1..n /\ k - 1 \in 0..n
      BY <1>1, <2>2
    <3>2. f[k - 1] \in X /\ f[k] = F[k][f[k - 1]]
      BY <1>3, <3>1 DEF Recurs
    <3>3. F[k][f[k - 1]] = f[k - 1] \o L[k].outs
      BY <3>1, <3>2
    <3>. QED BY <2>2, <3>2, <3>3
  <2>. QED BY <2>1, <2>2
<1>5. f = [k \in 0..n |-> IF k = 0 THEN First(p) ELSE f[k - 1] \o L[k].outs]
  <2>1. f = [k \in 0..n |-> f[k]]
    BY <1>3 DEF Recurs
  <2>. HIDE DEF n, X, F
  <2>. QED BY <1>4, <2>1
<1>. QED BY <1>5 DEF IsGround

\* and each transaction appends its own.
LEMMA GroundIs ==
    ASSUME NEW p \in Seq(Nat), NEW L \in Seq(Entry)
    PROVE  /\ Ground(p, L, 0) = First(p)
           /\ \A k \in 1..Len(L) : Ground(p, L, k) = Ground(p, L, k - 1) \o L[k].outs
           /\ \A k \in 0..Len(L) : Ground(p, L, k) \in Seq(OutRec)
<1>1. PICK f : f = CHOOSE g : IsGround(g, p, L)
  OBVIOUS
<1>2. IsGround(f, p, L)
  <2>1. \E g : IsGround(g, p, L)
    BY GroundExists
  <2>. QED BY <1>1, <2>1
<1>3. \A h : Ground(p, L, h) = f[h]
  BY <1>1 DEF Ground
<1>4. Len(L) \in Nat
  OBVIOUS
<1>5. f[0] = First(p) /\ \A k \in 1..Len(L) : f[k] = f[k - 1] \o L[k].outs
  <2>1. ASSUME NEW k \in 0..Len(L)
        PROVE  f[k] = IF k = 0 THEN First(p) ELSE f[k - 1] \o L[k].outs
    BY <1>2 DEF IsGround
  <2>2. f[0] = First(p)
    BY <1>4, <2>1
  <2>3. ASSUME NEW k \in 1..Len(L) PROVE f[k] = f[k - 1] \o L[k].outs
    <3>1. k \in 0..Len(L) /\ k # 0
      BY <1>4
    <3>. QED BY <2>1, <3>1
  <2>. QED BY <2>2, <2>3
<1> DEFINE Bad == {k \in 0..Len(L) : f[k] \notin Seq(OutRec)}
<1>6. Bad = {}
  <2>1. SUFFICES ASSUME Bad # {} PROVE FALSE
    OBVIOUS
  <2>2. PICK k \in Bad : \A j \in Bad : k <= j
    <3>1. Bad \subseteq Nat
      BY <1>4
    <3>. HIDE DEF Bad
    <3>. QED BY <2>1, <3>1, LeastNatural
  <2>3. k \in 0..Len(L) /\ f[k] \notin Seq(OutRec)
    OBVIOUS
  <2>4. k # 0
    BY <1>5, <2>3, FirstIs
  <2>5. k \in 1..Len(L) /\ k - 1 \in 0..Len(L) /\ ~(k <= k - 1)
    BY <1>4, <2>3, <2>4
  <2>6. f[k - 1] \in Seq(OutRec)
    <3>1. k - 1 \notin Bad
      BY <2>2, <2>5
    <3>. QED BY <2>5, <3>1
  <2>7. L[k] \in Entry
    BY <2>5
  <2>8. L[k].outs \in Seq(OutRec)
    BY <2>7 DEF Entry
  <2>9. f[k] = f[k - 1] \o L[k].outs
    BY <1>5, <2>5
  <2>10. f[k - 1] \o L[k].outs \in Seq(OutRec)
    BY <2>6, <2>8
  <2>. QED BY <2>3, <2>9, <2>10
<1>. QED BY <1>3, <1>5, <1>6

\* A leaf stays what it is.
LEMMA GroundGrows ==
    ASSUME NEW p \in Seq(Nat), NEW L \in Seq(Entry),
           NEW j \in 0..Len(L), NEW k \in 0..Len(L), j <= k
    PROVE  /\ Len(Ground(p, L, j)) \in Nat /\ Len(Ground(p, L, k)) \in Nat
           /\ Len(Ground(p, L, j)) <= Len(Ground(p, L, k))
           /\ \A i \in 1..Len(Ground(p, L, j)) : Ground(p, L, k)[i] = Ground(p, L, j)[i]
<1> DEFINE Good(m) == /\ Len(Ground(p, L, j)) <= Len(Ground(p, L, m))
                      /\ \A i \in 1..Len(Ground(p, L, j)) : Ground(p, L, m)[i] = Ground(p, L, j)[i]
           Bad == {m \in j..k : ~Good(m)}
<1>1. Len(L) \in Nat /\ j \in Nat /\ k \in Nat
  OBVIOUS
<1>2. \A m \in 0..Len(L) : Len(Ground(p, L, m)) \in Nat
  BY GroundIs
<1>3. SUFFICES ASSUME Bad # {} PROVE FALSE
  BY <1>1, <1>2
<1>4. PICK m \in Bad : \A i \in Bad : m <= i
  <2>1. Bad \subseteq Nat
    BY <1>1
  <2>. HIDE DEF Bad
  <2>. QED BY <1>3, <2>1, LeastNatural
<1>5. m \in j..k /\ ~Good(m)
  OBVIOUS
<1>6. m # j
  BY <1>1, <1>2, <1>5
<1>7. m \in 1..Len(L) /\ m - 1 \in j..k /\ m - 1 \in 0..Len(L) /\ ~(m <= m - 1)
  BY <1>1, <1>5, <1>6
<1>8. Good(m - 1)
  <2>1. m - 1 \notin Bad
    BY <1>4, <1>7
  <2>. QED BY <1>7, <2>1
<1>9. PICK s, t : s = Ground(p, L, m - 1) /\ t = L[m].outs
  OBVIOUS
<1>10. s \in Seq(OutRec) /\ t \in Seq(OutRec)
  <2>1. L[m] \in Entry
    BY <1>7
  <2>. QED BY <1>7, <1>9, <2>1, GroundIs DEF Entry
<1>11. Ground(p, L, m) = s \o t
  BY <1>7, <1>9, GroundIs
<1>12. Len(s \o t) = Len(s) + Len(t) /\ \A i \in 1..Len(s) : (s \o t)[i] = s[i]
       /\ Len(s) \in Nat /\ Len(t) \in Nat
  BY <1>10
<1>13. Good(m)
  <2>1. Len(Ground(p, L, j)) \in Nat /\ Len(Ground(p, L, j)) <= Len(s)
    BY <1>2, <1>8, <1>9
  <2>2. Len(Ground(p, L, j)) <= Len(Ground(p, L, m))
    BY <1>11, <1>12, <2>1
  <2>3. ASSUME NEW i \in 1..Len(Ground(p, L, j))
        PROVE  Ground(p, L, m)[i] = Ground(p, L, j)[i]
    <3>1. i \in 1..Len(s)
      BY <1>12, <2>1
    <3>2. (s \o t)[i] = s[i] /\ s[i] = Ground(p, L, j)[i]
      BY <1>8, <1>9, <1>12, <3>1
    <3>. QED BY <1>11, <3>2
  <2>. QED BY <2>2, <2>3
<1>. QED BY <1>5, <1>13

\* A sequence with one entry more.
LEMMA AppendIs ==
    ASSUME NEW T, NEW L \in Seq(T), NEW e \in T
    PROVE  /\ Append(L, e) \in Seq(T) /\ Len(Append(L, e)) = Len(L) + 1 /\ Len(L) \in Nat
           /\ \A k \in 1..Len(L) : Append(L, e)[k] = L[k]
           /\ Append(L, e)[Len(L) + 1] = e
OBVIOUS

\* A transaction changes no leaves at an earlier height.
LEMMA GroundStays ==
    ASSUME NEW p \in Seq(Nat), NEW L \in Seq(Entry), NEW e \in Entry, NEW h \in 0..Len(L)
    PROVE  Ground(p, Append(L, e), h) = Ground(p, L, h)
<1> DEFINE M == Append(L, e)
           Bad == {k \in 0..Len(L) : Ground(p, M, k) # Ground(p, L, k)}
<1>1. M \in Seq(Entry) /\ Len(M) = Len(L) + 1 /\ Len(L) \in Nat
      /\ \A k \in 1..Len(L) : M[k] = L[k]
  BY AppendIs
<1>. HIDE DEF M
<1>2. SUFFICES ASSUME Bad # {} PROVE FALSE
  BY DEF M
<1>3. PICK k \in Bad : \A j \in Bad : k <= j
  <2>1. Bad \subseteq Nat
    BY <1>1
  <2>. HIDE DEF Bad
  <2>. QED BY <1>2, <2>1, LeastNatural
<1>4. k \in 0..Len(L) /\ Ground(p, M, k) # Ground(p, L, k)
  OBVIOUS
<1>5. k # 0
  BY <1>1, <1>4, GroundIs
<1>6. k \in 1..Len(L) /\ k - 1 \in 0..Len(L) /\ ~(k <= k - 1) /\ k \in 1..Len(M)
  BY <1>1, <1>4, <1>5
<1>7. Ground(p, M, k - 1) = Ground(p, L, k - 1)
  <2>1. k - 1 \notin Bad
    BY <1>3, <1>6
  <2>. QED BY <1>6, <2>1
<1>8. Ground(p, M, k) = Ground(p, M, k - 1) \o M[k].outs
  BY <1>1, <1>6, GroundIs
<1>9. Ground(p, L, k) = Ground(p, L, k - 1) \o L[k].outs
  BY <1>6, GroundIs
<1>. QED BY <1>1, <1>4, <1>6, <1>7, <1>8, <1>9

-----------------------------------------------------------------------------
(***************************************************************************)
(* The notes of the account among the leaves.                              *)
(***************************************************************************)
Gone(L, h) == UNION {L[k].ins : k \in 1..h}

CoinAt(G, i) == [leaf |-> i, value |-> G[i].value]

Coins(p, L, h) ==
    {CoinAt(Ground(p, L, h), i) :
        i \in {j \in DOMAIN Ground(p, L, h) : Ground(p, L, h)[j].mine /\ j \notin Gone(L, h)}}

IsCoin(n, p, L, h) ==
    /\ n \in Selectable /\ n.leaf \in 1..Len(Ground(p, L, h))
    /\ Ground(p, L, h)[n.leaf].mine
    /\ n.value = Ground(p, L, h)[n.leaf].value
    /\ n.leaf \notin Gone(L, h)

\* The note of a leaf.
LEMMA CoinAtIs ==
    ASSUME NEW G \in Seq(OutRec), NEW i \in 1..Len(G)
    PROVE  CoinAt(G, i) \in Selectable /\ CoinAt(G, i).leaf = i /\ CoinAt(G, i).value = G[i].value
<1>1. G[i] \in OutRec
  OBVIOUS
<1>2. G[i].value \in Nat /\ i \in Int
  BY <1>1 DEF OutRec
<1>. QED BY <1>2 DEF CoinAt, Selectable

\* A note is its leaf and its value.
LEMMA SelectableIs ==
    ASSUME NEW m \in Selectable, NEW n \in Selectable, m.leaf = n.leaf, m.value = n.value
    PROVE  m = n
BY DEF Selectable

\* The account's notes at a height are its unspent leaves,
LEMMA CoinsIs ==
    ASSUME NEW p \in Seq(Nat), NEW L \in Seq(Entry), NEW h \in 0..Len(L)
    PROVE  \A n : n \in Coins(p, L, h) <=> IsCoin(n, p, L, h)
<1>1. PICK G : G = Ground(p, L, h)
  OBVIOUS
<1>2. G \in Seq(OutRec) /\ DOMAIN G = 1..Len(G)
  <2>1. G \in Seq(OutRec)
    BY <1>1, GroundIs
  <2>. QED BY <2>1
<1>3. ASSUME NEW n, n \in Coins(p, L, h) PROVE IsCoin(n, p, L, h)
  <2>1. PICK i \in DOMAIN G : G[i].mine /\ i \notin Gone(L, h) /\ n = CoinAt(G, i)
    BY <1>1, <1>3 DEF Coins
  <2>. QED BY <1>1, <1>2, <2>1, CoinAtIs DEF IsCoin
<1>4. ASSUME NEW n, IsCoin(n, p, L, h) PROVE n \in Coins(p, L, h)
  <2>1. /\ n \in Selectable /\ n.leaf \in 1..Len(G) /\ G[n.leaf].mine
        /\ n.value = G[n.leaf].value /\ n.leaf \notin Gone(L, h)
    BY <1>1, <1>4 DEF IsCoin
  <2>2. n = CoinAt(G, n.leaf)
    <3>1. PICK m : m = CoinAt(G, n.leaf)
      OBVIOUS
    <3>2. m \in Selectable /\ m.leaf = n.leaf /\ m.value = G[n.leaf].value
      BY <1>2, <2>1, <3>1, CoinAtIs
    <3>. QED BY <2>1, <3>1, <3>2, SelectableIs
  <2>. QED BY <1>1, <1>2, <2>1, <2>2 DEF Coins
<1>. QED BY <1>3, <1>4

\* and of each leaf there is one.
LEMMA CoinsArePurse ==
    ASSUME NEW p \in Seq(Nat), NEW L \in Seq(Entry), NEW h \in 0..Len(L)
    PROVE  Coins(p, L, h) \in Purse
<1>1. PICK S, n : S = Coins(p, L, h) /\ n = Len(Ground(p, L, h))
  OBVIOUS
<1>2. n \in Nat
  BY <1>1, GroundIs
<1>3. ASSUME NEW x \in S
      PROVE  /\ x \in Selectable /\ x.leaf \in 1..n
             /\ x.value = Ground(p, L, h)[x.leaf].value
  BY <1>1, CoinsIs DEF IsCoin
<1>4. Apart(S)
  <2>1. ASSUME NEW x \in S, NEW y \in S, x.leaf = y.leaf PROVE x = y
    BY <1>3, <2>1, SelectableIs
  <2>. QED BY <2>1 DEF Apart
<1>5. IsFiniteSet(S)
  <2> DEFINE f == [x \in S |-> x.leaf]
  <2>1. f \in [S -> 1..n]
    BY <1>3
  <2>2. \A x, y \in S : f[x] = f[y] => x = y
    BY <1>4 DEF Apart
  <2>. HIDE DEF f
  <2>3. f \in Injection(S, 1..n)
    BY <2>1, <2>2 DEF Injection, IsInjective
  <2>4. 1 \in Int /\ n \in Int
    BY <1>2
  <2>5. IsFiniteSet(1..n)
    BY <2>4, FS_Interval
  <2>. QED BY <2>3, <2>5, FS_Injection
<1>6. S \in Pile
  <2>1. S \subseteq Selectable
    BY <1>3
  <2>. QED BY <1>4, <1>5, <2>1 DEF Pile, Parts
<1>7. \A x \in S : x.leaf >= 1
  BY <1>2, <1>3
<1>. QED BY <1>1, <1>6, <1>7 DEF Purse

\* A transaction spends its inputs beside what was spent.
LEMMA GoneIs ==
    ASSUME NEW L \in Seq(Entry), NEW e \in Entry
    PROVE  /\ \A h \in 0..Len(L) : Gone(Append(L, e), h) = Gone(L, h)
           /\ Gone(Append(L, e), Len(L) + 1) = Gone(L, Len(L)) \cup e.ins
<1>1. PICK M : M = Append(L, e)
  OBVIOUS
<1>2. /\ M \in Seq(Entry) /\ Len(M) = Len(L) + 1 /\ Len(L) \in Nat
      /\ \A k \in 1..Len(L) : M[k] = L[k]
      /\ M[Len(L) + 1] = e
  BY <1>1, AppendIs
<1>3. ASSUME NEW h \in 0..Len(L) PROVE Gone(M, h) = Gone(L, h)
  <2>1. \A k \in 1..h : M[k] = L[k]
    BY <1>2
  <2>. QED BY <2>1 DEF Gone
<1>4. Gone(M, Len(L) + 1) = Gone(L, Len(L)) \cup e.ins
  <2>1. 1..(Len(L) + 1) = (1..Len(L)) \cup {Len(L) + 1}
    BY <1>2
  <2>2. {M[k].ins : k \in 1..(Len(L) + 1)} = {L[k].ins : k \in 1..Len(L)} \cup {e.ins}
    BY <1>2, <2>1
  <2>. QED BY <2>2 DEF Gone
<1>. QED BY <1>1, <1>3, <1>4

\* It changes no notes at an earlier height.
LEMMA CoinsStay ==
    ASSUME NEW p \in Seq(Nat), NEW L \in Seq(Entry), NEW e \in Entry, NEW h \in 0..Len(L)
    PROVE  Coins(p, Append(L, e), h) = Coins(p, L, h)
BY GoneIs, GroundStays DEF Coins

\* What the account begins with.
LEMMA CoinsFirst ==
    ASSUME NEW p \in Seq(Nat), NEW L \in Seq(Entry)
    PROVE  Total(Coins(p, L, 0)) = SumFunction(p)
<1> DEFINE S == 1..Len(p)
           T == Coins(p, L, 0)
           G == Ground(p, L, 0)
           f == [i \in S |-> CoinAt(G, i)]
<1>1. Len(p) \in Nat /\ p \in [S -> Nat] /\ DOMAIN p = S
  OBVIOUS
<1>2. S \in Parts(S)
  <2>1. 1 \in Int /\ Len(p) \in Int
    BY <1>1
  <2>2. IsFiniteSet(S)
    BY <2>1, FS_Interval
  <2>. QED BY <2>2 DEF Parts
<1>3. T \in Parts(Selectable)
  <2>1. 0 \in 0..Len(L)
    OBVIOUS
  <2>2. T \in Purse
    BY <2>1, CoinsArePurse
  <2>. QED BY <2>2, PileIsFinite DEF Purse
<1>4. /\ G \in Seq(OutRec) /\ Len(G) = Len(p)
      /\ \A i \in S : G[i].value = p[i] /\ G[i].mine
  BY GroundIs, FirstIs
<1>5. Gone(L, 0) = {}
  BY DEF Gone
<1>6. ASSUME NEW i \in S
      PROVE  f[i] \in T /\ f[i] \in Selectable /\ f[i].leaf = i /\ f[i].value = p[i]
  <2>1. CoinAt(G, i) \in Selectable /\ CoinAt(G, i).leaf = i /\ CoinAt(G, i).value = G[i].value
    <3>. HIDE DEF G
    <3>. QED BY <1>4, CoinAtIs
  <2>2. DOMAIN G = S
    <3>. HIDE DEF G
    <3>. QED BY <1>4
  <2>3. CoinAt(G, i) \in T
    BY <1>4, <1>5, <2>2 DEF Coins
  <2>. HIDE DEF G, T
  <2>. QED BY <1>4, <2>1, <2>3
<1>7. ASSUME NEW n \in T PROVE \E i \in S : f[i] = n
  <2>1. DOMAIN G = S
    <3>. HIDE DEF G
    <3>. QED BY <1>4
  <2>2. PICK i \in DOMAIN G : n = CoinAt(G, i)
    BY DEF Coins
  <2>. HIDE DEF G, T
  <2>. QED BY <2>1, <2>2
<1>. HIDE DEF T, G, f
<1>8. f \in [S -> T]
  <2>1. DOMAIN f = S /\ f = [i \in S |-> f[i]]
    BY DEF f
  <2>. HIDE DEF S
  <2>. QED BY <1>6, <2>1
<1>9. \A i \in S : Weights[f[i]] = p[i]
  BY <1>6, TotalIsSum
<1>10. \A i, j \in S : f[i] = f[j] => i = j
  <2>. HIDE DEF S
  <2>1. \A i \in S : f[i].leaf = i
    BY <1>6
  <2>. QED BY <2>1
<1>11. SumFunctionOnSet(p, S) = SumFunctionOnSet(Weights, T)
  <2>1. Weights \in [Selectable -> Nat]
    BY TotalIsSum
  <2>. HIDE DEF S
  <2>2. Matches(f, p, S, Weights, T)
    BY <1>7, <1>8, <1>9, <1>10 DEF Matches
  <2>. QED BY <1>1, <1>2, <1>3, <2>1, <2>2, SumOnImage
<1>12. Total(T) = SumFunctionOnSet(p, S)
  BY <1>11, TotalIsSum
<1>. QED BY <1>1, <1>12 DEF SumFunction, T

-----------------------------------------------------------------------------
(***************************************************************************)
(* What a transaction changes.                                             *)
(***************************************************************************)
\* What is spent is there.
BookOK(p, L) ==
    L \in Seq(Entry) /\ Gone(L, Len(L)) \subseteq 1..Len(Ground(p, L, Len(L)))

Made(n, outs) ==
    {[leaf |-> n + j, value |-> outs[j].value] : j \in {i \in DOMAIN outs : outs[i].mine}}

\* The leaves after a transaction.
LEMMA GroundAfter ==
    ASSUME NEW p \in Seq(Nat), NEW L \in Seq(Entry), NEW e \in Entry
    PROVE  LET G == Ground(p, L, Len(L))
               H == Ground(p, Append(L, e), Len(L) + 1)
           IN  /\ G \in Seq(OutRec) /\ H = G \o e.outs /\ H \in Seq(OutRec)
               /\ Len(H) = Len(G) + Len(e.outs) /\ Len(G) \in Nat /\ Len(e.outs) \in Nat
               /\ \A i \in 1..Len(G) : H[i] = G[i]
               /\ \A i \in 1..Len(e.outs) : H[Len(G) + i] = e.outs[i]
<1>1. PICK G, H, M, o : /\ G = Ground(p, L, Len(L)) /\ M = Append(L, e)
                        /\ H = Ground(p, M, Len(L) + 1) /\ o = e.outs
  OBVIOUS
<1>2. /\ M \in Seq(Entry) /\ Len(M) = Len(L) + 1 /\ Len(L) \in Nat
      /\ M[Len(L) + 1] = e
  BY <1>1, AppendIs
<1>3. o \in Seq(OutRec)
  BY <1>1 DEF Entry
<1>4. Len(L) \in 0..Len(L) /\ Len(L) + 1 \in 1..Len(M) /\ (Len(L) + 1) - 1 = Len(L)
  BY <1>2
<1>5. G \in Seq(OutRec)
  BY <1>1, <1>4, GroundIs
<1>6. H = G \o o
  <2>1. Ground(p, M, Len(L) + 1) = Ground(p, M, (Len(L) + 1) - 1) \o M[Len(L) + 1].outs
    BY <1>2, <1>4, GroundIs
  <2>2. Ground(p, M, Len(L)) = G
    BY <1>1, <1>4, GroundStays
  <2>. QED BY <1>1, <1>2, <1>4, <2>1, <2>2
<1>7. /\ G \o o \in Seq(OutRec) /\ Len(G \o o) = Len(G) + Len(o)
      /\ Len(G) \in Nat /\ Len(o) \in Nat
      /\ \A i \in 1..Len(G) : (G \o o)[i] = G[i]
      /\ \A i \in 1..Len(o) : (G \o o)[Len(G) + i] = o[i]
  BY <1>3, <1>5
<1>. QED BY <1>1, <1>5, <1>6, <1>7

\* The notes after it: those it does not spend, and those it makes.
LEMMA CoinsAfter ==
    ASSUME NEW p \in Seq(Nat), NEW L, BookOK(p, L), NEW e \in Entry,
           e.ins \subseteq 1..Len(Ground(p, L, Len(L)))
    PROVE  Coins(p, Append(L, e), Len(L) + 1) =
              {c \in Coins(p, L, Len(L)) : c.leaf \notin e.ins}
                 \cup Made(Len(Ground(p, L, Len(L))), e.outs)
<1>1. L \in Seq(Entry) /\ Len(L) \in Nat /\ Len(L) \in 0..Len(L)
  BY DEF BookOK
<1>2. PICK G, H, M, o, n : /\ G = Ground(p, L, Len(L)) /\ M = Append(L, e)
                           /\ H = Ground(p, M, Len(L) + 1) /\ o = e.outs /\ n = Len(G)
  OBVIOUS
<1>3. /\ G \in Seq(OutRec) /\ H \in Seq(OutRec)
      /\ Len(H) = n + Len(o) /\ n \in Nat /\ Len(o) \in Nat
      /\ \A i \in 1..n : H[i] = G[i]
      /\ \A i \in 1..Len(o) : H[n + i] = o[i]
  BY <1>1, <1>2, GroundAfter
<1>4. /\ M \in Seq(Entry) /\ Len(M) = Len(L) + 1 /\ Len(L) + 1 \in 0..Len(M)
  BY <1>1, <1>2, AppendIs
<1>5. Gone(M, Len(L) + 1) = Gone(L, Len(L)) \cup e.ins
  BY <1>1, <1>2, GoneIs
<1>6. Gone(L, Len(L)) \subseteq 1..n
  BY <1>2 DEF BookOK
<1>7. o \in Seq(OutRec) /\ DOMAIN o = 1..Len(o)
  BY <1>2 DEF Entry
<1>8. ASSUME NEW c, IsCoin(c, p, M, Len(L) + 1)
      PROVE  \/ IsCoin(c, p, L, Len(L)) /\ c.leaf \notin e.ins
             \/ c \in Made(n, o)
  <2>1. /\ c \in Selectable /\ c.leaf \in 1..Len(H) /\ H[c.leaf].mine
        /\ c.value = H[c.leaf].value /\ c.leaf \notin Gone(M, Len(L) + 1)
    BY <1>2, <1>8 DEF IsCoin
  <2>2. CASE c.leaf \in 1..n
    BY <1>2, <1>3, <1>5, <2>1, <2>2 DEF IsCoin
  <2>3. CASE c.leaf \notin 1..n
    <3>1. c.leaf - n \in 1..Len(o) /\ n + (c.leaf - n) = c.leaf
      BY <1>3, <2>1, <2>3
    <3>2. H[c.leaf] = o[c.leaf - n]
      BY <1>3, <3>1
    <3>3. [leaf |-> n + (c.leaf - n), value |-> o[c.leaf - n].value] \in Made(n, o)
      BY <1>7, <2>1, <3>1, <3>2 DEF Made
    <3>4. c = [leaf |-> n + (c.leaf - n), value |-> o[c.leaf - n].value]
      BY <2>1, <3>1, <3>2 DEF Selectable
    <3>. QED BY <3>3, <3>4
  <2>. QED BY <2>2, <2>3
<1>9. ASSUME NEW c, IsCoin(c, p, L, Len(L)), c.leaf \notin e.ins
      PROVE  IsCoin(c, p, M, Len(L) + 1)
  <2>1. /\ c \in Selectable /\ c.leaf \in 1..n /\ G[c.leaf].mine
        /\ c.value = G[c.leaf].value /\ c.leaf \notin Gone(L, Len(L))
    BY <1>2, <1>9 DEF IsCoin
  <2>2. c.leaf \in 1..Len(H) /\ H[c.leaf] = G[c.leaf]
    BY <1>3, <2>1
  <2>. QED BY <1>2, <1>5, <1>9, <2>1, <2>2 DEF IsCoin
<1>10. ASSUME NEW c \in Made(n, o) PROVE IsCoin(c, p, M, Len(L) + 1)
  <2>1. PICK j \in 1..Len(o) : o[j].mine /\ c = [leaf |-> n + j, value |-> o[j].value]
    BY <1>7 DEF Made
  <2>2. o[j] \in OutRec
    BY <1>7
  <2>3. c \in Selectable /\ c.leaf = n + j /\ c.value = o[j].value
    BY <1>3, <2>1, <2>2 DEF Selectable, OutRec
  <2>4. c.leaf \in 1..Len(H) /\ H[c.leaf] = o[j] /\ c.leaf \notin 1..n
    <3>1. n \in Nat /\ Len(o) \in Nat /\ j \in 1..Len(o) /\ Len(H) = n + Len(o)
      BY <1>3
    <3>2. n + j \in 1..Len(H) /\ n + j \notin 1..n
      BY <3>1
    <3>3. H[n + j] = o[j]
      BY <1>3
    <3>. QED BY <2>3, <3>2, <3>3
  <2>5. c.leaf \notin Gone(M, Len(L) + 1)
    BY <1>2, <1>5, <1>6, <2>4
  <2>. QED BY <1>2, <2>1, <2>3, <2>4, <2>5 DEF IsCoin
<1>11. /\ \A c : c \in Coins(p, M, Len(L) + 1) <=> IsCoin(c, p, M, Len(L) + 1)
       /\ \A c : c \in Coins(p, L, Len(L)) <=> IsCoin(c, p, L, Len(L))
  BY <1>1, <1>4, CoinsIs
<1>12. Coins(p, M, Len(L) + 1) = {c \in Coins(p, L, Len(L)) : c.leaf \notin e.ins} \cup Made(n, o)
  BY <1>8, <1>9, <1>10, <1>11
<1>. QED BY <1>2, <1>12

\* What a transaction adds to what the wallet is worth.
LEMMA TotalAfter ==
    ASSUME NEW p \in Seq(Nat), NEW L, BookOK(p, L), NEW e \in Entry,
           NEW C, C = Coins(p, L, Len(L)), NEW D, D = Coins(p, Append(L, e), Len(L) + 1),
           NEW made, made = Made(Len(Ground(p, L, Len(L))), e.outs),
           NEW N, N \subseteq C, \A c \in C : c.leaf \in e.ins <=> c \in N,
           e.ins \subseteq 1..Len(Ground(p, L, Len(L)))
    PROVE  /\ made \in Parts(Selectable) /\ C \in Parts(Selectable) /\ D \in Parts(Selectable)
           /\ D = (C \ N) \cup made /\ (C \ N) \cap made = {}
           /\ Total(D) + Total(N) = Total(C) + Total(made)
<1>1. L \in Seq(Entry) /\ Len(L) \in Nat /\ Len(L) \in 0..Len(L)
  BY DEF BookOK
<1>2. PICK M, n, left :
         /\ M = Append(L, e) /\ n = Len(Ground(p, L, Len(L)))
         /\ C = Coins(p, L, Len(L)) /\ D = Coins(p, M, Len(L) + 1)
         /\ made = Made(n, e.outs) /\ left = {c \in C : c.leaf \notin e.ins}
  OBVIOUS
<1>3. M \in Seq(Entry) /\ Len(L) + 1 \in 0..Len(M)
  BY <1>1, <1>2, AppendIs
<1>4. C \in Parts(Selectable) /\ D \in Parts(Selectable)
  <2>1. C \in Purse /\ D \in Purse
    BY <1>1, <1>2, <1>3, CoinsArePurse
  <2>. QED BY <2>1, PileIsFinite DEF Purse
<1>5. D = left \cup made
  BY <1>2, CoinsAfter
<1>6. left \in SUBSET D /\ left = C \ N /\ left \in SUBSET C
  BY <1>2, <1>5
<1>7. left \cap made = {}
  <2>1. ASSUME NEW c \in C PROVE c.leaf \in 1..n
    BY <1>1, <1>2, <2>1, CoinsIs DEF IsCoin
  <2>2. n \in Nat
    BY <1>1, <1>2, GroundIs
  <2>3. ASSUME NEW c \in made PROVE c.leaf \notin 1..n
    <3>1. e.outs \in Seq(OutRec)
      BY DEF Entry
    <3>2. PICK j \in 1..Len(e.outs) : c = [leaf |-> n + j, value |-> e.outs[j].value]
      <4>1. DOMAIN e.outs = 1..Len(e.outs)
        BY <3>1
      <4>. QED BY <1>2, <4>1 DEF Made
    <3>3. c.leaf = n + j /\ j \in Nat /\ j >= 1
      BY <3>1, <3>2
    <3>. QED BY <2>2, <3>3
  <2>. QED BY <1>6, <2>1, <2>3
<1>8. made = D \ left /\ made \in Parts(Selectable) /\ left \in Parts(Selectable)
  <2>1. made = D \ left
    BY <1>5, <1>7
  <2>. QED BY <1>4, <1>6, <2>1, TotalSplit
<1>9. Total(D) = Total(left) + Total(made)
  BY <1>4, <1>6, <1>8, TotalSplit
<1>10. Total(C) = Total(N) + Total(left)
  <2>1. N \in SUBSET C
    BY <1>2
  <2>. QED BY <1>4, <1>6, <2>1, TotalSplit
<1>11. Total(D) + Total(N) = Total(C) + Total(made)
  <2>1. N \in Parts(Selectable)
    BY <1>2, <1>4, TotalSplit
  <2>2. Total(D) \in Nat /\ Total(C) \in Nat /\ Total(left) \in Nat /\ Total(made) \in Nat
        /\ Total(N) \in Nat
    BY <1>4, <1>8, <2>1, TotalNat
  <2>. QED BY <1>9, <1>10, <2>2
<1>. QED BY <1>4, <1>5, <1>6, <1>7, <1>8, <1>11

-----------------------------------------------------------------------------
(***************************************************************************)
(* What the account can spend of a transaction's outputs.                  *)
(***************************************************************************)
Mine(out) == IF out.mine THEN out.value ELSE 0

\* What the account gets of one output,
LEMMA MadeOne ==
    ASSUME NEW n \in Nat, NEW a \in OutRec
    PROVE  Total(Made(n, <<a>>)) = Mine(a)
<1>1. Made(n, <<a>>) = IF a.mine THEN {[leaf |-> n + 1, value |-> a.value]} ELSE {}
  BY DEF Made
<1>2. [leaf |-> n + 1, value |-> a.value] \in Selectable
  BY DEF OutRec, Selectable
<1>3. ASSUME NEW x \in Selectable PROVE Total({x}) = x.value
  BY TotalIsSum, SumOnOfOne
<1>. QED BY <1>1, <1>2, <1>3, TotalNat DEF Mine

\* and of two.
LEMMA MadeTwo ==
    ASSUME NEW n \in Nat, NEW a \in OutRec, NEW b \in OutRec
    PROVE  Total(Made(n, <<a, b>>)) = Mine(a) + Mine(b)
<1>1. PICK x, y : x = [leaf |-> n + 1, value |-> a.value] /\ y = [leaf |-> n + 2, value |-> b.value]
  OBVIOUS
<1>2. x \in Selectable /\ y \in Selectable /\ x # y /\ x.value = a.value /\ y.value = b.value
  <2>1. x.leaf # y.leaf
    BY <1>1
  <2>. QED BY <1>1, <2>1 DEF OutRec, Selectable
<1>3. Made(n, <<a, b>>) = (IF a.mine THEN {x} ELSE {}) \cup (IF b.mine THEN {y} ELSE {})
  BY <1>1 DEF Made
<1>4. ASSUME NEW z \in Selectable PROVE Total({z}) = z.value /\ {z} \in Parts(Selectable)
  <2>1. {z} \in Parts(Selectable)
    BY TotalAdd, TotalNat
  <2>. QED BY <2>1, TotalIsSum, SumOnOfOne
<1>5. Total({x} \cup {y}) = a.value + b.value
  <2>1. y \notin {x} /\ {x} \in Parts(Selectable) /\ Total({x}) = a.value
    BY <1>2, <1>4
  <2>2. Total({x} \cup {y}) = y.value + Total({x})
    BY <1>2, <2>1, TotalAdd
  <2>3. a.value \in Nat /\ b.value \in Nat
    BY DEF OutRec
  <2>. QED BY <1>2, <2>1, <2>2, <2>3
<1>6. a.value \in Nat /\ b.value \in Nat /\ a.mine \in BOOLEAN /\ b.mine \in BOOLEAN
  BY DEF OutRec
<1>7. CASE a.mine /\ b.mine
  BY <1>3, <1>5, <1>7 DEF Mine
<1>8. CASE a.mine /\ ~b.mine
  <2>1. Made(n, <<a, b>>) = {x}
    BY <1>3, <1>8
  <2>. QED BY <1>2, <1>4, <1>6, <1>8, <2>1 DEF Mine
<1>9. CASE ~a.mine /\ b.mine
  <2>1. Made(n, <<a, b>>) = {y}
    BY <1>3, <1>9
  <2>. QED BY <1>2, <1>4, <1>6, <1>9, <2>1 DEF Mine
<1>10. CASE ~a.mine /\ ~b.mine
  <2>1. Made(n, <<a, b>>) = {}
    BY <1>3, <1>10
  <2>. QED BY <1>6, <1>10, <2>1, TotalNat DEF Mine
<1>. QED BY <1>6, <1>7, <1>8, <1>9, <1>10

-----------------------------------------------------------------------------
(***************************************************************************)
(* The chain of a state.                                                   *)
(***************************************************************************)
Book == [k \in 1..Len(log) |-> [ins |-> txs[log[k]].ins, outs |-> txs[log[k]].outs]]

\* A transaction by what it is for: an approval is for no leg.
Kinds == Spending \cup Deposits

TxRec == [run : Nat, leg : Nat, type : Kinds \cup {"merge", "approve"}, amount : Nat,
          ins : SUBSET Nat, proved : BOOLEAN, outs : Seq(OutRec),
          status : {"pending", "landed", "reverted"}]

RunRec == [device : Device, kind : Kinds, amount : Nat \ {0}, relayed : BOOLEAN,
           notes : Purse, plan : Seq(PlanLeg), leg : Nat \ {0}, merged : Seq(Selectable),
           head : Nat, paths : Nat, polls : Nat, allowance : Nat, tx : Nat,
           pc : {"token", "unlock", "approving", "session", "paths", "prove", "relay",
                 "sent", "waiting"} \cup Over]

TypesOK ==
    /\ purse \in Seq(Nat)
    /\ txs \in Seq(TxRec)
    /\ log \in Seq(DOMAIN txs)
    /\ token \in [balance : Nat, allowance : Nat]
    /\ height \in 0..Len(log)
    /\ view \in [Device -> 0..Len(log)]
    /\ runs \in Seq(RunRec)

\* The log is what landed, once each.
LogOK ==
    /\ \A a, b \in DOMAIN log : log[a] = log[b] => a = b
    /\ \A i \in DOMAIN txs : txs[i].type # "approve" =>
          (txs[i].status = "landed" <=> \E k \in DOMAIN log : log[k] = i)
    /\ \A k \in DOMAIN log : txs[log[k]].type # "approve"
    /\ \A i \in DOMAIN txs : txs[i].type = "approve" => txs[i].status # "reverted"

\* A plan is of notes that were there before the run's own.
PlanMade(r) ==
    /\ runs[r].plan = planOf(runs[r], runs[r].notes)
    /\ runs[r].kind \in Spending => Total(runs[r].notes) >= runs[r].amount
    /\ \E v \in 0..Len(log) : /\ runs[r].notes = NotesAt(v)
                              /\ \A k \in 1..v : txs[log[k]].run # r

MergedOK(r) ==
    /\ Len(runs[r].merged) = runs[r].leg - 1 /\ runs[r].leg <= Len(runs[r].plan)
    /\ \A l \in 1..(runs[r].leg - 1) :
          \E k \in DOMAIN log :
             /\ txs[log[k]].run = r /\ txs[log[k]].leg = l
             /\ runs[r].merged[l] = [leaf |-> Len(Leaves(k - 1)) + 1,
                                     value |-> runs[r].plan[l].value]

\* Where a run is, and what it has sent.
Unsent == {"token", "unlock", "approving", "session", "paths", "prove", "relay"}

Stands(r, run) ==
    /\ run.kind \in Deposits => run.pc \notin {"session", "paths", "relay"}
    /\ run.kind \notin Deposits => run.pc \notin {"token", "unlock", "approving"}
    /\ run.pc # "paths" => run.head = run.paths
    /\ \A i \in Txs(r) : /\ txs[i].leg <= run.leg
                         /\ run.pc \in Unsent => txs[i].leg < run.leg
                         /\ run.pc \notin {"token", "unlock"}
    /\ run.pc \in {"sent", "waiting"} =>
          /\ run.tx \in Txs(r) /\ txs[run.tx].leg = run.leg
          /\ run.pc = "waiting" => run.plan[run.leg].merge
    /\ run.pc = "approving" => run.tx \in Txs(r) /\ txs[run.tx].type = "approve"

IsAt(r) == Stands(r, runs[r])

\* What a transaction spends, as its run resolves it.
Resolved(r, n) == IF n.leaf < 0 THEN runs[r].merged[0 - n.leaf] ELSE n

Inputs(r, leg) == {Resolved(r, n) : n \in runs[r].plan[leg].ins}

\* What a transaction of a type makes.
OutsOf(type, value, rest) ==
    CASE type = "merge" -> <<MergedNote(value), Out(rest, TRUE)>>
      [] type = "transfer" -> payeeOuts(value, rest)
      [] type = "withdraw" -> withdrawOuts(rest)
      [] type = "disburse" -> disburseOuts(value, rest)
      [] type = "deposit" -> depositOuts(value)
      [] type = "depositPriv" -> depositPrivOuts(value)

TypeOf(r, leg) == IF runs[r].plan[leg].merge THEN "merge" ELSE runs[r].kind

LegTx(i, r, l) ==
    /\ txs[i].type = TypeOf(r, l) /\ txs[i].amount = runs[r].plan[l].value /\ txs[i].proved
    /\ txs[i].ins = {n.leaf : n \in Inputs(r, l)}
    /\ txs[i].outs = OutsOf(TypeOf(r, l), runs[r].plan[l].value,
                            Total(Inputs(r, l)) - runs[r].plan[l].value)

IsLegTx(i) ==
    \E r \in DOMAIN runs : \E l \in 1..runs[r].leg :
        txs[i].run = r /\ txs[i].leg = l /\ LegTx(i, r, l)

TxsOK ==
    /\ \A i \in DOMAIN txs : txs[i].run \in DOMAIN runs
    /\ \A i \in DOMAIN txs :
          IF txs[i].type = "approve"
          THEN /\ txs[i].leg = 0 /\ runs[txs[i].run].kind \in Deposits
               /\ txs[i].amount = runs[txs[i].run].amount
          ELSE IsLegTx(i)
    /\ \A i, j \in DOMAIN txs :
          txs[i].run = txs[j].run /\ txs[i].leg = txs[j].leg /\ txs[i].leg # 0 => i = j

\* A run's transactions land in the order of their legs; if they are alone, at their legs.
LandsInOrder ==
    /\ \A a, b \in DOMAIN log :
          a < b /\ txs[log[a]].run = txs[log[b]].run => txs[log[a]].leg < txs[log[b]].leg
    /\ \A k \in DOMAIN log :
          (\A a \in 1..k : txs[log[a]].run = txs[log[k]].run) => txs[log[k]].leg = k

\* Another run's transaction moved the account's tokens.
Rivals(r) == {j \in Landed \ Txs(r) : txs[j].type \in Deposits \cup {"approve"}}

Affords(r, run) ==
    run.kind \in Deposits /\ Rivals(r) = {} =>
        /\ run.pc \in {"unlock", "approving"} => run.amount <= token.balance
        /\ run.pc = "unlock" => run.allowance <= token.allowance
        /\ run.pc = "prove" => run.amount <= token.balance /\ run.amount <= token.allowance

TxTokensOK(i, r) ==
    Rivals(r) = {} =>
        /\ txs[i].type \in Deposits /\ txs[i].status = "pending" =>
              txs[i].amount <= token.balance /\ txs[i].amount <= token.allowance
        /\ /\ txs[i].type = "approve" /\ txs[i].status = "landed"
           /\ \A j \in Txs(r) : txs[j].type \in Deposits => txs[j].status # "landed"
           => txs[i].amount <= token.allowance

TokensOK ==
    \A r \in DOMAIN runs : /\ Affords(r, runs[r])
                           /\ \A i \in Txs(r) : TxTokensOK(i, r)

WalletInv ==
    /\ TypesOK /\ LogOK
    /\ \A r \in DOMAIN runs : PlanMade(r) /\ MergedOK(r) /\ IsAt(r)
    /\ TxsOK /\ LandsInOrder /\ TokensOK

-----------------------------------------------------------------------------
\* The leaves and the notes of a state are those of its chain.
BookTypes == purse \in Seq(Nat) /\ txs \in Seq(TxRec) /\ log \in Seq(DOMAIN txs)

\* The transactions of the log, by what they spend and make.
LEMMA BookIs ==
    BookTypes => /\ Book \in Seq(Entry) /\ Len(Book) = Len(log)
                 /\ \A k \in 1..Len(log) : /\ Book[k].ins = txs[log[k]].ins
                                           /\ Book[k].outs = txs[log[k]].outs
<1>1. SUFFICES ASSUME BookTypes
      PROVE  /\ Book \in Seq(Entry) /\ Len(Book) = Len(log)
             /\ \A k \in 1..Len(log) : /\ Book[k].ins = txs[log[k]].ins
                                       /\ Book[k].outs = txs[log[k]].outs
  OBVIOUS
<1>2. Len(log) \in Nat /\ \A k \in 1..Len(log) : log[k] \in DOMAIN txs
  BY <1>1 DEF BookTypes
<1>3. ASSUME NEW k \in 1..Len(log)
      PROVE  [ins |-> txs[log[k]].ins, outs |-> txs[log[k]].outs] \in Entry
  <2>1. txs[log[k]] \in TxRec
    BY <1>1, <1>2 DEF BookTypes
  <2>. QED BY <2>1 DEF TxRec, Entry
<1>. QED BY <1>2, <1>3 DEF Book

\* The leaves of a state are those its chain makes of the purse.
LEMMA LeavesAre ==
    BookTypes => \A h \in 0..Len(log) : Leaves(h) = Ground(purse, Book, h)
<1>1. SUFFICES ASSUME BookTypes, NEW h \in 0..Len(log)
      PROVE  Leaves(h) = Ground(purse, Book, h)
  OBVIOUS
<1>2. Leaves(h) = (CHOOSE f : f = [k \in 0..Len(log) |->
                        IF k = 0 THEN [i \in DOMAIN purse |-> Out(purse[i], TRUE)]
                                 ELSE f[k - 1] \o txs[log[k]].outs])[h]
  BY DEF Leaves
<1>3. ASSUME NEW f
      PROVE  [k \in 0..Len(log) |-> IF k = 0 THEN [i \in DOMAIN purse |-> Out(purse[i], TRUE)]
                                             ELSE f[k - 1] \o txs[log[k]].outs]
             = [k \in 0..Len(Book) |-> IF k = 0 THEN First(purse) ELSE f[k - 1] \o Book[k].outs]
  <2>1. Len(Book) = Len(log) /\ Len(log) \in Nat
        /\ \A k \in 1..Len(log) : Book[k].outs = txs[log[k]].outs
    BY <1>1, BookIs DEF BookTypes
  <2>2. ASSUME NEW k \in 0..Len(log), k # 0 PROVE Book[k].outs = txs[log[k]].outs
    BY <2>1, <2>2
  <2>. QED BY <2>1, <2>2 DEF First
<1>4. Leaves(h) = (CHOOSE f : IsGround(f, purse, Book))[h]
  BY <1>2, <1>3 DEF IsGround
<1>. QED BY <1>4 DEF Ground

\* Its notes are those among them that are the account's and unspent.
LEMMA NotesAre ==
    BookTypes => \A h \in 0..Len(log) : /\ SpentAt(h) = Gone(Book, h)
                                        /\ NotesAt(h) = Coins(purse, Book, h)
<1>1. SUFFICES ASSUME BookTypes, NEW h \in 0..Len(log)
      PROVE  SpentAt(h) = Gone(Book, h) /\ NotesAt(h) = Coins(purse, Book, h)
  OBVIOUS
<1>2. SpentAt(h) = Gone(Book, h)
  <2>1. \A k \in 1..h : Book[k].ins = txs[log[k]].ins
    BY <1>1, BookIs DEF BookTypes
  <2>. QED BY <2>1 DEF SpentAt, Gone
<1>3. Leaves(h) = Ground(purse, Book, h)
  BY <1>1, LeavesAre
<1>. QED BY <1>2, <1>3 DEF NotesAt, Coins, CoinAt

-----------------------------------------------------------------------------
(***************************************************************************)
(* What a run's plan is in every state.                                    *)
(***************************************************************************)
PlanFits(plan, S, kind, amount) ==
    /\ plan \in Seq(PlanLeg) /\ Len(plan) >= 1
    /\ \A i \in 1..Len(plan) :
          /\ plan[i].merge <=> i < Len(plan)
          /\ plan[i].ins \in Pile
          /\ InsFrom(plan, S, i)
          /\ \A j \in 1..Len(plan) : i # j => plan[i].ins \cap plan[j].ins = {}
          /\ i < Len(plan) => Total(plan[i].ins) = plan[i].value
    /\ plan[Len(plan)].value = amount
    /\ kind \in Spending => Total(plan[Len(plan)].ins) >= amount
    /\ kind \in Deposits => Len(plan) = 1 /\ plan[1].ins = {}

\* Nothing is a pile.
LEMMA NothingIsPile ==
    {} \in Pile /\ Total({}) = 0
BY TotalNat DEF Pile, Apart

\* The plan of an ask the page can cover fits it,
LEMMA PlanOfFits ==
    ASSUME NEW ask, ask.kind \in Kinds, ask.amount \in Nat \ {0}, NEW S \in Purse,
           ask.kind \in Spending => Total(S) >= ask.amount
    PROVE  PlanFits(planOf(ask, S), S, ask.kind, ask.amount)
<1>1. CASE ask.kind \in Deposits
  <2>1. PICK leg : leg = [merge |-> FALSE, ins |-> {}, value |-> ask.amount]
    OBVIOUS
  <2>2. planOf(ask, S) = <<leg>>
    BY <1>1, <2>1 DEF planOf
  <2>3. leg \in PlanLeg /\ ~leg.merge /\ leg.ins = {} /\ leg.value = ask.amount
    BY <2>1 DEF PlanLeg
  <2>4. ask.kind \notin Spending
    BY <1>1 DEF Spending, Deposits
  <2>5. PICK plan : plan = <<leg>>
    OBVIOUS
  <2>6. plan \in Seq(PlanLeg) /\ Len(plan) = 1 /\ plan[1] = leg
    BY <2>3, <2>5
  <2>7. ASSUME NEW i \in 1..1 PROVE i = 1
    OBVIOUS
  <2>8. PlanFits(plan, S, ask.kind, ask.amount)
    <3>1. ASSUME NEW i \in 1..Len(plan)
          PROVE  /\ plan[i].merge <=> i < Len(plan)
                 /\ plan[i].ins \in Pile
                 /\ InsFrom(plan, S, i)
                 /\ \A j \in 1..Len(plan) : i # j => plan[i].ins \cap plan[j].ins = {}
                 /\ i < Len(plan) => Total(plan[i].ins) = plan[i].value
      <4>1. i = 1 /\ Len(plan) = 1 /\ plan[i] = leg
        BY <2>6, <2>7
      <4>. QED BY <2>3, <2>7, <4>1, NothingIsPile DEF InsFrom
    <3>. QED BY <2>3, <2>4, <2>6, <3>1 DEF PlanFits
  <2>. QED BY <2>2, <2>5, <2>8
<1>2. CASE ask.kind \notin Deposits
  <2>1. ask.kind \in Spending
    BY <1>2 DEF Kinds
  <2>2. PICK plan : plan = planOf(ask, S)
    OBVIOUS
  <2>3. plan = planSpendChain(ask.kind, S, ask.amount)
    BY <1>2, <2>2 DEF planOf
  <2>4. PlanOK(plan, S, ask.kind, ask.amount)
    BY <2>1, <2>3, PlanFacts
  <2>5. PlanFits(plan, S, ask.kind, ask.amount)
    BY <1>2, <2>4 DEF PlanFits, PlanOK, LegOK
  <2>. QED BY <2>2, <2>5
<1>. QED BY <1>1, <1>2

\* A run is a record of its fields.
LEMMA RunIs ==
    TypesOK => \A r \in DOMAIN runs : runs[r] \in RunRec
BY DEF TypesOK

\* and so does a run's plan.
LEMMA RunPlanFits ==
    TypesOK => \A r \in DOMAIN runs : PlanMade(r) =>
                  PlanFits(runs[r].plan, runs[r].notes, runs[r].kind, runs[r].amount)
<1>1. SUFFICES ASSUME TypesOK, NEW r \in DOMAIN runs, PlanMade(r)
      PROVE  PlanFits(runs[r].plan, runs[r].notes, runs[r].kind, runs[r].amount)
  OBVIOUS
<1>2. PICK run : run = runs[r]
  OBVIOUS
<1>3. run.kind \in Kinds /\ run.amount \in Nat \ {0} /\ run.notes \in Purse
  BY <1>1, <1>2, RunIs DEF RunRec
<1>4. /\ run.kind \in Spending => Total(run.notes) >= run.amount
      /\ run.plan = planOf(run, run.notes)
  BY <1>1, <1>2 DEF PlanMade
<1>5. PlanFits(planOf(run, run.notes), run.notes, run.kind, run.amount)
  BY <1>3, <1>4, PlanOfFits
<1>. QED BY <1>2, <1>4, <1>5

-----------------------------------------------------------------------------
(***************************************************************************)
(* What the state of a run says of the chain.                              *)
(***************************************************************************)
ChainOK == BookTypes /\ TypesOK /\ LogOK /\ TxsOK
           /\ \A r \in DOMAIN runs : PlanMade(r) /\ MergedOK(r)

\* The part of the invariant that speaks of the chain.
LEMMA InvIsChainOK ==
    WalletInv => ChainOK
BY DEF WalletInv, ChainOK, BookTypes, TypesOK

\* The leaves at a height of a chain that is longer.
LEMMA LeavesGrow ==
    BookTypes => \A j, k \in 0..Len(log) : j <= k =>
        /\ Leaves(j) \in Seq(OutRec) /\ Leaves(k) \in Seq(OutRec)
        /\ Len(Leaves(j)) \in Nat /\ Len(Leaves(k)) \in Nat
        /\ Len(Leaves(j)) <= Len(Leaves(k))
        /\ \A i \in 1..Len(Leaves(j)) : Leaves(k)[i] = Leaves(j)[i]
<1>1. SUFFICES ASSUME BookTypes, NEW j \in 0..Len(log), NEW k \in 0..Len(log), j <= k
      PROVE  /\ Leaves(j) \in Seq(OutRec) /\ Leaves(k) \in Seq(OutRec)
             /\ Len(Leaves(j)) \in Nat /\ Len(Leaves(k)) \in Nat
             /\ Len(Leaves(j)) <= Len(Leaves(k))
             /\ \A i \in 1..Len(Leaves(j)) : Leaves(k)[i] = Leaves(j)[i]
  OBVIOUS
<1>2. purse \in Seq(Nat) /\ Book \in Seq(Entry) /\ Len(Book) = Len(log)
  BY <1>1, BookIs DEF BookTypes
<1>3. Leaves(j) = Ground(purse, Book, j) /\ Leaves(k) = Ground(purse, Book, k)
  BY <1>1, LeavesAre
<1>4. Ground(purse, Book, j) \in Seq(OutRec) /\ Ground(purse, Book, k) \in Seq(OutRec)
  BY <1>2, GroundIs
<1>5. /\ Len(Ground(purse, Book, j)) \in Nat /\ Len(Ground(purse, Book, k)) \in Nat
      /\ Len(Ground(purse, Book, j)) <= Len(Ground(purse, Book, k))
      /\ \A i \in 1..Len(Ground(purse, Book, j)) :
            Ground(purse, Book, k)[i] = Ground(purse, Book, j)[i]
  BY <1>1, <1>2, GroundGrows
<1>. QED BY <1>3, <1>4, <1>5

\* The leaves a transaction of the log made.
LEMMA LeavesOf ==
    BookTypes => \A k \in 1..Len(log) :
        LET outs == txs[log[k]].outs
        IN  /\ outs \in Seq(OutRec) /\ k - 1 \in 0..Len(log)
            /\ Len(Leaves(k)) = Len(Leaves(k - 1)) + Len(outs)
            /\ \A i \in 1..Len(outs) : Leaves(k)[Len(Leaves(k - 1)) + i] = outs[i]
<1>1. SUFFICES ASSUME BookTypes, NEW k \in 1..Len(log),
                      NEW outs, outs = txs[log[k]].outs
      PROVE  /\ outs \in Seq(OutRec) /\ k - 1 \in 0..Len(log)
             /\ Len(Leaves(k)) = Len(Leaves(k - 1)) + Len(outs)
             /\ \A i \in 1..Len(outs) : Leaves(k)[Len(Leaves(k - 1)) + i] = outs[i]
  OBVIOUS
<1>2. /\ purse \in Seq(Nat) /\ Book \in Seq(Entry) /\ Len(Book) = Len(log)
      /\ Book[k].outs = outs
  BY <1>1, BookIs DEF BookTypes
<1>3. Len(log) \in Nat /\ k \in 0..Len(log) /\ k - 1 \in 0..Len(log) /\ k \in 1..Len(Book)
  BY <1>1, <1>2 DEF BookTypes
<1>4. PICK s : s = Leaves(k - 1)
  OBVIOUS
<1>5. s \in Seq(OutRec) /\ Leaves(k) = s \o outs
  BY <1>1, <1>2, <1>3, <1>4, LeavesAre, GroundIs
<1>6. outs \in Seq(OutRec)
  <2>1. Book[k] \in Entry
    BY <1>2, <1>3
  <2>. QED BY <1>2, <2>1 DEF Entry
<1>7. Len(s \o outs) = Len(s) + Len(outs)
      /\ \A i \in 1..Len(outs) : (s \o outs)[Len(s) + i] = outs[i]
  BY <1>5, <1>6
<1>. QED BY <1>3, <1>4, <1>5, <1>6, <1>7

\* A note at a height, as it stands.
IsThere(n, h) ==
    /\ n \in Selectable /\ n.leaf \in 1..Len(Leaves(h))
    /\ Leaves(h)[n.leaf].mine /\ n.value = Leaves(h)[n.leaf].value

\* A note is there at a height if it is unspent there.
LEMMA NotesAreThere ==
    BookTypes => \A h \in 0..Len(log) :
        /\ NotesAt(h) \in Purse
        /\ \A n : n \in NotesAt(h) <=> IsThere(n, h) /\ n.leaf \notin SpentAt(h)
<1>1. SUFFICES ASSUME BookTypes, NEW h \in 0..Len(log)
      PROVE  /\ NotesAt(h) \in Purse
             /\ \A n : n \in NotesAt(h) <=> IsThere(n, h) /\ n.leaf \notin SpentAt(h)
  OBVIOUS
<1>2. purse \in Seq(Nat) /\ Book \in Seq(Entry) /\ Len(Book) = Len(log)
  BY <1>1, BookIs DEF BookTypes
<1>3. /\ Leaves(h) = Ground(purse, Book, h) /\ NotesAt(h) = Coins(purse, Book, h)
      /\ SpentAt(h) = Gone(Book, h)
  BY <1>1, LeavesAre, NotesAre
<1>4. Coins(purse, Book, h) \in Purse
  BY <1>2, CoinsArePurse
<1>5. \A n : n \in Coins(purse, Book, h) <=> IsCoin(n, purse, Book, h)
  BY <1>2, CoinsIs
<1>. QED BY <1>3, <1>4, <1>5 DEF IsCoin, IsThere

\* A leaf that is there stays.
LEMMA StaysThere ==
    BookTypes => \A j, k \in 0..Len(log) : j <= k => \A n : IsThere(n, j) => IsThere(n, k)
<1>1. SUFFICES ASSUME BookTypes, NEW j \in 0..Len(log), NEW k \in 0..Len(log), j <= k,
                      NEW n, IsThere(n, j)
      PROVE  IsThere(n, k)
  OBVIOUS
<1>2. /\ Len(Leaves(j)) \in Nat /\ Len(Leaves(k)) \in Nat
      /\ Len(Leaves(j)) <= Len(Leaves(k))
      /\ \A i \in 1..Len(Leaves(j)) : Leaves(k)[i] = Leaves(j)[i]
  BY <1>1, LeavesGrow
<1>. QED BY <1>1, <1>2 DEF IsThere

-----------------------------------------------------------------------------
(***************************************************************************)
(* The notes a leg spends.                                                 *)
(***************************************************************************)
LEMMA OutsAre ==
    /\ \A type \in Kinds \cup {"merge"} : \A v, rest :
          Len(OutsOf(type, v, rest)) \in Nat /\ Len(OutsOf(type, v, rest)) >= 1
    /\ \A v, rest : /\ OutsOf("merge", v, rest) = <<MergedNote(v), Out(rest, TRUE)>>
                    /\ Len(OutsOf("merge", v, rest)) = 2
                    /\ OutsOf("merge", v, rest)[1] = Out(v, TRUE)
                    /\ OutsOf("merge", v, rest)[2] = Out(rest, TRUE)
<1>1. \A a, b : /\ Len(<<a, b>>) = 2 /\ Len(<<a>>) = 1
                /\ <<a, b>>[1] = a /\ <<a, b>>[2] = b
  OBVIOUS
<1>2. ASSUME NEW v, NEW rest
      PROVE  /\ \A type \in Kinds \cup {"merge"} :
                   Len(OutsOf(type, v, rest)) \in Nat /\ Len(OutsOf(type, v, rest)) >= 1
             /\ OutsOf("merge", v, rest) = <<MergedNote(v), Out(rest, TRUE)>>
             /\ Len(OutsOf("merge", v, rest)) = 2
             /\ OutsOf("merge", v, rest)[1] = Out(v, TRUE)
             /\ OutsOf("merge", v, rest)[2] = Out(rest, TRUE)
  <2>1. PICK paid, own, change, none :
           /\ paid = Out(v, FALSE) /\ own = Out(v, TRUE)
           /\ change = Out(rest, TRUE) /\ none = Out(0, TRUE)
    OBVIOUS
  <2>2. /\ OutsOf("merge", v, rest) = <<own, change>>
        /\ OutsOf("transfer", v, rest) = <<paid, change>>
        /\ OutsOf("withdraw", v, rest) = <<change>>
        /\ OutsOf("deposit", v, rest) = <<own, none>>
        /\ OutsOf("depositPriv", v, rest) = <<paid, none>>
        /\ MergedNote(v) = own
    BY <2>1 DEF OutsOf, MergedNote, payeeOuts, withdrawOuts, depositOuts, depositPrivOuts
  <2>3. \E a, b : OutsOf("disburse", v, rest) = <<a, b>>
    <3>1. OutsOf("disburse", v, rest) = disburseOuts(v, rest)
      BY DEF OutsOf
    <3>2. \E a, b : disburseOuts(v, rest) = <<a, b>>
      BY Zenon DEF disburseOuts
    <3>. QED BY <3>1, <3>2
  <2>4. /\ Len(OutsOf("merge", v, rest)) = 2 /\ Len(OutsOf("transfer", v, rest)) = 2
        /\ Len(OutsOf("withdraw", v, rest)) = 1 /\ Len(OutsOf("disburse", v, rest)) = 2
        /\ Len(OutsOf("deposit", v, rest)) = 2 /\ Len(OutsOf("depositPriv", v, rest)) = 2
        /\ OutsOf("merge", v, rest)[1] = own /\ OutsOf("merge", v, rest)[2] = change
    BY <1>1, <2>2, <2>3
  <2>5. \A type \in Kinds \cup {"merge"} :
           type \in {"merge", "transfer", "withdraw", "disburse", "deposit", "depositPriv"}
    BY DEF Kinds, Spending, Deposits
  <2>6. ASSUME NEW type \in Kinds \cup {"merge"}
        PROVE  Len(OutsOf(type, v, rest)) \in Nat /\ Len(OutsOf(type, v, rest)) >= 1
    <3>1. Len(OutsOf(type, v, rest)) = 1 \/ Len(OutsOf(type, v, rest)) = 2
      BY <2>4, <2>5
    <3>. QED BY <3>1
  <2>7. OutsOf("merge", v, rest) = <<MergedNote(v), Out(rest, TRUE)>>
    BY <2>1, <2>2
  <2>. QED BY <2>1, <2>4, <2>6, <2>7
<1>. QED BY <1>2

\* A leg that a run is at or is past.
LEMMA LegIs ==
    ChainOK => \A r \in DOMAIN runs : \A l \in 1..runs[r].leg :
        /\ runs[r] \in RunRec /\ runs[r].leg \in Nat
        /\ l \in 1..Len(runs[r].plan) /\ runs[r].plan[l] \in PlanLeg
        /\ runs[r].plan[l].value \in Nat
        /\ runs[r].plan[l].ins \in Pile
        /\ InsFrom(runs[r].plan, runs[r].notes, l)
        /\ l < runs[r].leg => runs[r].plan[l].merge
        /\ runs[r].notes \in Purse
<1>1. SUFFICES ASSUME ChainOK, NEW r \in DOMAIN runs, NEW l \in 1..runs[r].leg
      PROVE  /\ runs[r] \in RunRec /\ runs[r].leg \in Nat
             /\ l \in 1..Len(runs[r].plan) /\ runs[r].plan[l] \in PlanLeg
             /\ runs[r].plan[l].value \in Nat
             /\ runs[r].plan[l].ins \in Pile
             /\ InsFrom(runs[r].plan, runs[r].notes, l)
             /\ l < runs[r].leg => runs[r].plan[l].merge
             /\ runs[r].notes \in Purse
  OBVIOUS
<1>2. PICK run : run = runs[r]
  OBVIOUS
<1>3. run \in RunRec /\ run.leg \in Nat /\ run.notes \in Purse /\ run.plan \in Seq(PlanLeg)
  BY <1>1, <1>2, RunIs DEF ChainOK, RunRec
<1>4. run.leg <= Len(run.plan)
  BY <1>1, <1>2 DEF ChainOK, MergedOK
<1>5. l \in 1..Len(run.plan)
  BY <1>1, <1>2, <1>3, <1>4
<1>6. PlanFits(run.plan, run.notes, run.kind, run.amount)
  BY <1>1, <1>2, RunPlanFits DEF ChainOK
<1>7. run.plan[l] \in PlanLeg
  BY <1>3, <1>5
<1>8. run.plan[l].value \in Nat
  BY <1>7 DEF PlanLeg
<1>9. /\ run.plan[l].ins \in Pile /\ InsFrom(run.plan, run.notes, l)
      /\ run.plan[l].merge <=> l < Len(run.plan)
  BY <1>5, <1>6 DEF PlanFits
<1>10. l < run.leg => l < Len(run.plan)
  BY <1>1, <1>2, <1>3, <1>4
<1>. QED BY <1>2, <1>3, <1>5, <1>7, <1>8, <1>9, <1>10

\* The note a merge made, where it is.
MadeAt(n, r, l, k) ==
    /\ k \in 1..Len(log) /\ txs[log[k]].run = r /\ txs[log[k]].leg = l
    /\ n.leaf = Len(Leaves(k - 1)) + 1 /\ n.value = runs[r].plan[l].value
    /\ IsThere(n, k) /\ Len(Leaves(k - 1)) < Len(Leaves(k))

\* A merge on the chain made the note its leg planned.
LEMMA MadeByMerge ==
    ChainOK => \A r \in DOMAIN runs : \A k \in 1..Len(log) :
        /\ txs[log[k]].run = r /\ runs[r].plan[txs[log[k]].leg].merge
        => MadeAt([leaf |-> Len(Leaves(k - 1)) + 1,
                   value |-> runs[r].plan[txs[log[k]].leg].value], r, txs[log[k]].leg, k)
<1>1. SUFFICES ASSUME ChainOK, NEW r \in DOMAIN runs, NEW k \in 1..Len(log),
                      NEW i, i = log[k], NEW l, l = txs[i].leg,
                      txs[i].run = r, runs[r].plan[l].merge
      PROVE  MadeAt([leaf |-> Len(Leaves(k - 1)) + 1, value |-> runs[r].plan[l].value],
                    r, l, k)
  OBVIOUS
<1>2. /\ BookTypes /\ i \in DOMAIN txs /\ txs[i].type # "approve"
      /\ Len(log) \in Nat /\ k \in 0..Len(log)
  BY <1>1 DEF ChainOK, BookTypes, LogOK
<1>3. IsLegTx(i)
  BY <1>1, <1>2 DEF ChainOK, TxsOK
<1>4. PICK outs, v, rest : outs = txs[i].outs /\ v = runs[r].plan[l].value
                           /\ outs = OutsOf("merge", v, rest)
  <2>1. TypeOf(r, l) = "merge"
    BY <1>1 DEF TypeOf
  <2>2. txs[i].outs = OutsOf(TypeOf(r, l), runs[r].plan[l].value,
                             Total(Inputs(r, l)) - runs[r].plan[l].value)
    BY <1>1, <1>3 DEF IsLegTx, LegTx
  <2>. QED BY <2>1, <2>2
<1>5. Len(outs) = 2 /\ outs[1] = Out(v, TRUE)
  BY <1>4, OutsAre
<1>6. /\ k - 1 \in 0..Len(log) /\ Len(Leaves(k)) = Len(Leaves(k - 1)) + 2
      /\ Leaves(k)[Len(Leaves(k - 1)) + 1] = outs[1]
  <2>1. /\ k - 1 \in 0..Len(log)
        /\ Len(Leaves(k)) = Len(Leaves(k - 1)) + Len(txs[log[k]].outs)
        /\ \A a \in 1..Len(txs[log[k]].outs) :
              Leaves(k)[Len(Leaves(k - 1)) + a] = txs[log[k]].outs[a]
    BY <1>2, LeavesOf
  <2>2. 1 \in 1..Len(outs)
    BY <1>5
  <2>. QED BY <1>1, <1>4, <1>5, <2>1, <2>2
<1>7. Len(Leaves(k - 1)) \in Nat /\ Len(Leaves(k)) \in Nat
  BY <1>2, <1>6, LeavesGrow
<1>8. l \in 1..runs[r].leg
  BY <1>1, <1>3 DEF IsLegTx, LegTx
<1>9. v \in Nat
  BY <1>1, <1>4, <1>8, LegIs
<1>10. PICK n : n = [leaf |-> Len(Leaves(k - 1)) + 1, value |-> v]
  OBVIOUS
<1>11. n \in Selectable /\ n.leaf = Len(Leaves(k - 1)) + 1 /\ n.value = v
  BY <1>7, <1>9, <1>10 DEF Selectable
<1>12. Leaves(k)[n.leaf].mine /\ Leaves(k)[n.leaf].value = v
  BY <1>5, <1>6, <1>9, <1>11, OutIs
<1>13. n.leaf \in 1..Len(Leaves(k))
  BY <1>6, <1>7, <1>11
<1>14. Len(Leaves(k - 1)) < Len(Leaves(k))
  BY <1>6, <1>7
<1>. QED BY <1>1, <1>4, <1>10, <1>11, <1>12, <1>13, <1>14 DEF MadeAt, IsThere

\* The notes a run has merged are on the chain,
LEMMA MergedIs ==
    ChainOK => \A r \in DOMAIN runs : \A l \in 1..(runs[r].leg - 1) :
        \E k : MadeAt(runs[r].merged[l], r, l, k)
<1>1. SUFFICES ASSUME ChainOK, NEW r \in DOMAIN runs, NEW l \in 1..(runs[r].leg - 1)
      PROVE  \E k : MadeAt(runs[r].merged[l], r, l, k)
  OBVIOUS
<1>2. PICK k \in DOMAIN log :
         /\ txs[log[k]].run = r /\ txs[log[k]].leg = l
         /\ runs[r].merged[l] = [leaf |-> Len(Leaves(k - 1)) + 1,
                                 value |-> runs[r].plan[l].value]
  BY <1>1 DEF ChainOK, MergedOK
<1>3. k \in 1..Len(log)
  BY <1>1, <1>2 DEF ChainOK, BookTypes
<1>4. runs[r].plan[l].merge
  <2>1. runs[r].leg \in Nat
    <3>1. runs[r] \in RunRec
      BY <1>1, RunIs DEF ChainOK
    <3>. QED BY <3>1 DEF RunRec
  <2>2. l \in 1..runs[r].leg /\ l < runs[r].leg
    BY <2>1
  <2>. QED BY <1>1, <2>2, LegIs
<1>. QED BY <1>1, <1>2, <1>3, <1>4, MadeByMerge

\* Two merges make two notes.
LEMMA MadeApart ==
    ChainOK => \A r, l, k, n, m, j, i : MadeAt(n, r, l, k) /\ MadeAt(m, r, j, i) /\ n.leaf = m.leaf
                  => l = j
<1>1. SUFFICES ASSUME ChainOK, NEW r, NEW l, NEW k, NEW n, NEW m, NEW j, NEW i,
                      MadeAt(n, r, l, k), MadeAt(m, r, j, i), n.leaf = m.leaf
      PROVE  l = j
  OBVIOUS
<1>2. BookTypes /\ Len(log) \in Nat /\ k \in 1..Len(log) /\ i \in 1..Len(log)
  BY <1>1 DEF ChainOK, BookTypes, MadeAt
<1>3. Len(Leaves(k - 1)) = Len(Leaves(i - 1))
  <2>1. k - 1 \in 0..Len(log) /\ i - 1 \in 0..Len(log)
    BY <1>2
  <2>2. Len(Leaves(k - 1)) \in Nat /\ Len(Leaves(i - 1)) \in Nat
    BY <1>2, <2>1, LeavesGrow
  <2>. QED BY <1>1, <2>2 DEF MadeAt
<1>4. ASSUME NEW a \in 1..Len(log), NEW b \in 1..Len(log), a < b,
             Len(Leaves(a - 1)) < Len(Leaves(a)), Len(Leaves(a - 1)) = Len(Leaves(b - 1))
      PROVE  FALSE
  <2>1. a \in 0..Len(log) /\ b - 1 \in 0..Len(log) /\ a <= b - 1 /\ a - 1 \in 0..Len(log)
    BY <1>2, <1>4
  <2>2. Len(Leaves(a)) \in Nat /\ Len(Leaves(b - 1)) \in Nat /\ Len(Leaves(a)) <= Len(Leaves(b - 1))
    BY <1>2, <2>1, LeavesGrow
  <2>. QED BY <1>4, <2>2
<1>5. ~(k < i) /\ ~(i < k)
  BY <1>1, <1>2, <1>3, <1>4 DEF MadeAt
<1>6. k = i
  BY <1>2, <1>5
<1>. QED BY <1>1, <1>6 DEF MadeAt

\* And no plan of the run knew them.
LEMMA MadeIsNew ==
    ChainOK => \A r \in DOMAIN runs : \A l, k, n : MadeAt(n, r, l, k) =>
                  \A m \in runs[r].notes : m.leaf \in Int /\ 1 <= m.leaf /\ m.leaf < n.leaf
                                           /\ IsThere(m, Len(log))
<1>1. SUFFICES ASSUME ChainOK, NEW r \in DOMAIN runs, NEW l, NEW k, NEW n, MadeAt(n, r, l, k),
                      NEW m \in runs[r].notes
      PROVE  m.leaf \in Int /\ 1 <= m.leaf /\ m.leaf < n.leaf /\ IsThere(m, Len(log))
  OBVIOUS
<1>2. BookTypes /\ Len(log) \in Nat /\ k \in 1..Len(log)
  BY <1>1 DEF ChainOK, BookTypes, MadeAt
<1>3. PICK v \in 0..Len(log) : /\ runs[r].notes = NotesAt(v)
                               /\ \A a \in 1..v : txs[log[a]].run # r
  BY <1>1 DEF ChainOK, PlanMade
<1>4. v <= k - 1 /\ k - 1 \in 0..Len(log)
  BY <1>1, <1>2, <1>3 DEF MadeAt
<1>5. IsThere(m, v)
  BY <1>2, <1>3, NotesAreThere
<1>6. /\ Len(Leaves(v)) \in Nat /\ Len(Leaves(k - 1)) \in Nat
      /\ Len(Leaves(v)) <= Len(Leaves(k - 1))
  BY <1>2, <1>3, <1>4, LeavesGrow
<1>7. m.leaf \in 1..Len(Leaves(v)) /\ n.leaf = Len(Leaves(k - 1)) + 1
  BY <1>1, <1>5 DEF IsThere, MadeAt
<1>8. Len(log) \in 0..Len(log) /\ v <= Len(log)
  BY <1>2
<1>9. IsThere(m, Len(log))
  BY <1>2, <1>5, <1>8, StaysThere
<1>. QED BY <1>6, <1>7, <1>9

\* and so are those it planned with.
LEMMA NotesStayThere ==
    ChainOK => \A r \in DOMAIN runs : \A m \in runs[r].notes : IsThere(m, Len(log)) /\ 1 <= m.leaf
<1>1. SUFFICES ASSUME ChainOK, NEW r \in DOMAIN runs, NEW m \in runs[r].notes
      PROVE  IsThere(m, Len(log)) /\ 1 <= m.leaf
  OBVIOUS
<1>2. BookTypes /\ Len(log) \in Nat
  BY <1>1 DEF ChainOK, BookTypes
<1>3. PICK v \in 0..Len(log) : runs[r].notes = NotesAt(v)
  BY <1>1 DEF ChainOK, PlanMade
<1>4. IsThere(m, v) /\ NotesAt(v) \in Purse
  BY <1>2, <1>3, NotesAreThere
<1>5. Len(log) \in 0..Len(log) /\ v <= Len(log)
  BY <1>2
<1>. QED BY <1>2, <1>3, <1>4, <1>5, StaysThere DEF Purse

\* A planned note: one the page held, or one a merge has made since.
LEMMA PlannedIs ==
    ChainOK => \A r \in DOMAIN runs : \A l \in 1..runs[r].leg : \A n \in runs[r].plan[l].ins :
        LET m == Resolved(r, n)
        IN  /\ n \in Selectable /\ m \in Selectable /\ m.value = n.value
            /\ IsThere(m, Len(log))
            /\ \/ n \in runs[r].notes /\ n.leaf >= 1 /\ m = n
               \/ /\ n.leaf < 0 /\ 0 - n.leaf \in 1..(runs[r].leg - 1) /\ 0 - n.leaf < l
                  /\ m = runs[r].merged[0 - n.leaf]
                  /\ \E k : MadeAt(m, r, 0 - n.leaf, k)
<1>1. SUFFICES ASSUME ChainOK, NEW r \in DOMAIN runs, NEW l \in 1..runs[r].leg,
                      NEW n \in runs[r].plan[l].ins, NEW m, m = Resolved(r, n)
      PROVE  /\ n \in Selectable /\ m \in Selectable /\ m.value = n.value
             /\ IsThere(m, Len(log))
             /\ \/ n \in runs[r].notes /\ n.leaf >= 1 /\ m = n
                \/ /\ n.leaf < 0 /\ 0 - n.leaf \in 1..(runs[r].leg - 1) /\ 0 - n.leaf < l
                   /\ m = runs[r].merged[0 - n.leaf]
                   /\ \E k : MadeAt(m, r, 0 - n.leaf, k)
  OBVIOUS
<1>2. PICK plan, leg : plan = runs[r].plan /\ leg = runs[r].leg
  OBVIOUS
<1>3. /\ leg \in Nat /\ l \in Nat /\ l >= 1 /\ l <= leg
      /\ plan[l].ins \in Pile /\ InsFrom(plan, runs[r].notes, l)
      /\ n \in plan[l].ins
  BY <1>1, <1>2, LegIs
<1>4. n \in Selectable
  <2>1. plan[l].ins \in SUBSET Selectable
    BY <1>3, PileIsFinite
  <2>. QED BY <1>3, <2>1
<1>5. CASE n \in runs[r].notes
  <2>1. IsThere(n, Len(log)) /\ 1 <= n.leaf
    BY <1>1, <1>5, NotesStayThere
  <2>2. n.leaf \in Int
    BY <1>4 DEF Selectable
  <2>3. m = n
    BY <1>1, <2>1, <2>2 DEF Resolved
  <2>. QED BY <1>4, <1>5, <2>1, <2>2, <2>3
<1>6. CASE n \notin runs[r].notes
  <2>1. 0 - n.leaf \in 1..(l - 1) /\ n.value = plan[0 - n.leaf].value
    BY <1>3, <1>6 DEF InsFrom
  <2>2. n.leaf \in Int
    BY <1>4 DEF Selectable
  <2>3. PICK j : j = 0 - n.leaf
    OBVIOUS
  <2>4. n.leaf < 0 /\ j \in 1..(leg - 1) /\ j < l
    BY <1>3, <2>1, <2>2, <2>3
  <2>5. m = runs[r].merged[j]
    BY <1>1, <2>3, <2>4 DEF Resolved
  <2>6. PICK k : MadeAt(m, r, j, k)
    BY <1>1, <1>2, <2>4, <2>5, MergedIs
  <2>7. k \in 0..Len(log) /\ Len(log) \in 0..Len(log) /\ k <= Len(log) /\ BookTypes
    BY <1>1, <2>6 DEF MadeAt, ChainOK, BookTypes
  <2>8. IsThere(m, k) /\ m.value = plan[j].value
    BY <1>2, <2>6 DEF MadeAt
  <2>9. IsThere(m, Len(log))
    BY <2>7, <2>8, StaysThere
  <2>10. m \in Selectable
    BY <2>9 DEF IsThere
  <2>. QED BY <1>2, <1>4, <2>1, <2>3, <2>4, <2>5, <2>6, <2>8, <2>9, <2>10
<1>. QED BY <1>5, <1>6

\* Two planned notes are one on the chain only if they are one in the plan.
LEMMA ResolvedApart ==
    ChainOK => \A r \in DOMAIN runs : \A i, j \in 1..runs[r].leg :
        \A n \in runs[r].plan[i].ins, m \in runs[r].plan[j].ins :
            Resolved(r, n).leaf = Resolved(r, m).leaf => n = m
<1>1. SUFFICES ASSUME ChainOK, NEW r \in DOMAIN runs,
                      NEW i \in 1..runs[r].leg, NEW j \in 1..runs[r].leg,
                      NEW n \in runs[r].plan[i].ins, NEW m \in runs[r].plan[j].ins,
                      NEW x, x = Resolved(r, n), NEW y, y = Resolved(r, m),
                      x.leaf = y.leaf
      PROVE  n = m
  OBVIOUS
<1>2. /\ n \in Selectable /\ m \in Selectable /\ x.value = n.value /\ y.value = m.value
      /\ IsThere(x, Len(log)) /\ IsThere(y, Len(log))
  BY <1>1, PlannedIs
<1>3. \/ n \in runs[r].notes /\ x = n
      \/ n.leaf < 0 /\ \E k : MadeAt(x, r, 0 - n.leaf, k)
  BY <1>1, PlannedIs
<1>4. \/ m \in runs[r].notes /\ y = m
      \/ m.leaf < 0 /\ \E k : MadeAt(y, r, 0 - m.leaf, k)
  BY <1>1, PlannedIs
<1>5. x.value = y.value
  BY <1>1, <1>2 DEF IsThere
<1>6. n.leaf = m.leaf
  <2>1. CASE (n \in runs[r].notes /\ x = n) /\ (m \in runs[r].notes /\ y = m)
    BY <1>1, <2>1
  <2>2. CASE (n \in runs[r].notes /\ x = n) /\ (m.leaf < 0 /\ \E k : MadeAt(y, r, 0 - m.leaf, k))
    <3>1. n.leaf \in Int /\ n.leaf < y.leaf
      BY <1>1, <2>2, MadeIsNew
    <3>. QED BY <1>1, <2>2, <3>1
  <2>3. CASE (n.leaf < 0 /\ \E k : MadeAt(x, r, 0 - n.leaf, k)) /\ (m \in runs[r].notes /\ y = m)
    <3>1. m.leaf \in Int /\ m.leaf < x.leaf
      BY <1>1, <2>3, MadeIsNew
    <3>. QED BY <1>1, <2>3, <3>1
  <2>4. CASE /\ \E k : MadeAt(x, r, 0 - n.leaf, k)
             /\ \E k : MadeAt(y, r, 0 - m.leaf, k)
    <3>1. 0 - n.leaf = 0 - m.leaf
      BY <1>1, <2>4, MadeApart
    <3>. QED BY <1>2, <3>1 DEF Selectable
  <2>. QED BY <1>3, <1>4, <2>1, <2>2, <2>3, <2>4
<1>. QED BY <1>2, <1>5, <1>6, SelectableIs

\* The notes a leg spends are on the chain and worth what the plan says.
LEMMA InputsAre ==
    ChainOK => \A r \in DOMAIN runs : \A l \in 1..runs[r].leg :
        /\ Inputs(r, l) \in Pile
        /\ Total(Inputs(r, l)) = Total(runs[r].plan[l].ins)
        /\ \A n \in Inputs(r, l) : IsThere(n, Len(log))
<1>1. SUFFICES ASSUME ChainOK, NEW r \in DOMAIN runs, NEW l \in 1..runs[r].leg
      PROVE  /\ Inputs(r, l) \in Pile
             /\ Total(Inputs(r, l)) = Total(runs[r].plan[l].ins)
             /\ \A n \in Inputs(r, l) : IsThere(n, Len(log))
  OBVIOUS
<1>2. PICK S, T, f : /\ S = runs[r].plan[l].ins /\ T = Inputs(r, l)
                     /\ f = [n \in S |-> Resolved(r, n)]
  OBVIOUS
<1>3. T = {f[n] : n \in S}
  BY <1>2 DEF Inputs
<1>4. \A n \in S : /\ f[n] \in Selectable /\ n \in Selectable /\ f[n].value = n.value
                   /\ IsThere(f[n], Len(log))
  BY <1>1, <1>2, PlannedIs
<1>5. \A n, m \in S : f[n].leaf = f[m].leaf => n = m
  BY <1>1, <1>2, ResolvedApart
<1>6. S \in Pile
  BY <1>1, <1>2, LegIs
<1>7. S \in Parts(Selectable) /\ IsFiniteSet(S)
  BY <1>6, PileIsFinite
<1>8. DOMAIN f = S /\ f = [n \in S |-> f[n]]
  BY <1>2
<1>9. f \in [S -> T] /\ \A y \in T : \E x \in S : f[x] = y
  BY <1>3, <1>8
<1>10. T \in Parts(Selectable)
  <2>1. f \in Surjection(S, T)
    BY <1>9 DEF Surjection
  <2>2. IsFiniteSet(T)
    BY <1>7, <2>1, FS_Surjection
  <2>3. T \subseteq Selectable
    BY <1>3, <1>4
  <2>. QED BY <2>2, <2>3 DEF Parts
<1>11. T \in Pile
  <2>1. \A x, y \in T : x.leaf = y.leaf => x = y
    BY <1>3, <1>5
  <2>. QED BY <1>10, <2>1 DEF Pile, Apart
<1>12. Total(T) = Total(S)
  <2>1. Weights \in [Selectable -> Nat] /\ \A n \in Selectable : Weights[n] = n.value
    BY TotalIsSum
  <2>2. \A n \in S : Weights[f[n]] = Weights[n]
    BY <1>4, <2>1
  <2>3. Matches(f, Weights, S, Weights, T)
    BY <1>5, <1>9, <2>2 DEF Matches
  <2>4. SumFunctionOnSet(Weights, S) = SumFunctionOnSet(Weights, T)
    BY <1>7, <1>10, <2>1, <2>3, SumOnImage
  <2>. QED BY <2>4, TotalIsSum
<1>13. ASSUME NEW n \in T PROVE IsThere(n, Len(log))
  <2>1. PICK m \in S : n = f[m]
    BY <1>3
  <2>. QED BY <1>4, <2>1
<1>. QED BY <1>2, <1>11, <1>12, <1>13

\* No two legs of a run spend one note.
LEMMA InputsApart ==
    ChainOK => \A r \in DOMAIN runs : \A i, j \in 1..runs[r].leg : i # j =>
        {n.leaf : n \in Inputs(r, i)} \cap {n.leaf : n \in Inputs(r, j)} = {}
<1>1. SUFFICES ASSUME ChainOK, NEW r \in DOMAIN runs,
                      NEW i \in 1..runs[r].leg, NEW j \in 1..runs[r].leg, i # j,
                      NEW n \in runs[r].plan[i].ins, NEW m \in runs[r].plan[j].ins,
                      Resolved(r, n).leaf = Resolved(r, m).leaf
      PROVE  FALSE
  BY DEF Inputs
<1>2. n = m
  BY <1>1, ResolvedApart
<1>3. PICK plan : plan = runs[r].plan
  OBVIOUS
<1>4. i \in 1..Len(plan) /\ j \in 1..Len(plan)
  BY <1>1, <1>3, LegIs
<1>5. plan[i].ins \cap plan[j].ins = {}
  <2>1. PlanFits(plan, runs[r].notes, runs[r].kind, runs[r].amount)
    BY <1>1, <1>3, RunPlanFits DEF ChainOK
  <2>. QED BY <1>1, <1>4, <2>1 DEF PlanFits
<1>. QED BY <1>1, <1>2, <1>3, <1>5

-----------------------------------------------------------------------------
(***************************************************************************)
(* What no step takes back.                                                *)
(***************************************************************************)
TxsGrow ==
    /\ Len(txs) <= Len(txs')
    /\ \A i \in DOMAIN txs :
          /\ txs'[i].run = txs[i].run /\ txs'[i].leg = txs[i].leg /\ txs'[i].type = txs[i].type
          /\ txs'[i].amount = txs[i].amount /\ txs'[i].ins = txs[i].ins
          /\ txs'[i].proved = txs[i].proved /\ txs'[i].outs = txs[i].outs
          /\ txs[i].status = "landed" => txs'[i].status = "landed"

ChainGrows ==
    /\ purse' = purse /\ TxsGrow
    /\ Len(log) <= Len(log') /\ \A k \in 1..Len(log) : log'[k] = log[k]
    /\ \A h \in 0..Len(log) : Leaves(h)' = Leaves(h) /\ NotesAt(h)' = NotesAt(h)

RunGrows(r) ==
    /\ runs'[r].kind = runs[r].kind /\ runs'[r].amount = runs[r].amount
    /\ runs'[r].notes = runs[r].notes /\ runs'[r].plan = runs[r].plan
    /\ runs[r].leg <= runs'[r].leg
    /\ \A l \in 1..(runs[r].leg - 1) : runs'[r].merged[l] = runs[r].merged[l]

\* Leaves and notes at every height, of the chain.
LEMMA ChainAsBook ==
    BookTypes => \A h \in 0..Len(log) : /\ Leaves(h) = Ground(purse, Book, h)
                                        /\ NotesAt(h) = Coins(purse, Book, h)
BY LeavesAre, NotesAre

\* A step that lands nothing leaves leaves and notes as they are.
LEMMA ChainStill ==
    ASSUME BookTypes, BookTypes', purse' = purse, log' = log, TxsGrow
    PROVE  ChainGrows /\ Book' = Book
<1>1. /\ \A k \in 1..Len(log) : log[k] \in DOMAIN txs
      /\ Len(log) \in Nat
  BY DEF BookTypes
<1>2. Book' = Book
  <2>1. \A k \in 1..Len(log) : /\ txs'[log[k]].ins = txs[log[k]].ins
                               /\ txs'[log[k]].outs = txs[log[k]].outs
    BY <1>1 DEF TxsGrow
  <2>. QED BY <2>1 DEF Book
<1>3. (BookTypes => \A h \in 0..Len(log) : /\ Leaves(h) = Ground(purse, Book, h)
                                           /\ NotesAt(h) = Coins(purse, Book, h))'
  BY ChainAsBook, PTL
<1>4. ASSUME NEW h \in 0..Len(log)
      PROVE  Leaves(h)' = Leaves(h) /\ NotesAt(h)' = NotesAt(h)
  <2>1. Leaves(h)' = Ground(purse', Book', h) /\ NotesAt(h)' = Coins(purse', Book', h)
    BY <1>3
  <2>2. Leaves(h) = Ground(purse, Book, h) /\ NotesAt(h) = Coins(purse, Book, h)
    BY ChainAsBook
  <2>. QED BY <1>2, <2>1, <2>2
<1>. QED BY <1>1, <1>2, <1>4 DEF ChainGrows

EntryOf(i) == [ins |-> txs[i].ins, outs |-> txs[i].outs]

\* A transaction that lands is the last of the log, and changes nothing before it.
LEMMA ChainAppends ==
    ASSUME BookTypes, BookTypes', purse' = purse, TxsGrow,
           NEW i \in DOMAIN txs, log' = Append(log, i)
    PROVE  /\ ChainGrows
           /\ Book' = Append(Book, EntryOf(i)) /\ EntryOf(i) \in Entry
           /\ Len(log') = Len(log) + 1 /\ Len(log) \in Nat
           /\ log'[Len(log) + 1] = i
<1>1. /\ \A k \in 1..Len(log) : log[k] \in DOMAIN txs
      /\ Len(log) \in Nat /\ purse \in Seq(Nat)
  BY DEF BookTypes
<1>2. /\ Len(log') = Len(log) + 1 /\ log'[Len(log) + 1] = i
      /\ \A k \in 1..Len(log) : log'[k] = log[k]
  BY <1>1 DEF BookTypes
<1>3. EntryOf(i) \in Entry
  <2>1. txs[i] \in TxRec
    BY DEF BookTypes
  <2>. QED BY <2>1 DEF EntryOf, TxRec, Entry
<1>4. Book \in Seq(Entry) /\ Len(Book) = Len(log)
      /\ \A k \in 1..Len(log) : Book[k] = EntryOf(log[k])
  BY <1>1, BookIs DEF Book, EntryOf
<1>5. Book' = Append(Book, EntryOf(i))
  <2>1. Book' = [k \in 1..(Len(log) + 1) |-> [ins |-> txs'[log'[k]].ins,
                                              outs |-> txs'[log'[k]].outs]]
    BY <1>2 DEF Book
  <2>2. ASSUME NEW j \in DOMAIN txs
        PROVE  [ins |-> txs'[j].ins, outs |-> txs'[j].outs] = EntryOf(j)
    BY DEF TxsGrow, EntryOf
  <2>3. PICK B : B = Append(Book, EntryOf(i))
    OBVIOUS
  <2>4. /\ B \in Seq(Entry) /\ Len(B) = Len(log) + 1
        /\ \A k \in 1..Len(log) : B[k] = EntryOf(log[k])
        /\ B[Len(log) + 1] = EntryOf(i)
    BY <1>3, <1>4, <2>3, AppendIs
  <2>5. B = [k \in 1..(Len(log) + 1) |-> B[k]]
    BY <2>4
  <2>6. ASSUME NEW k \in 1..(Len(log) + 1)
        PROVE  B[k] = [ins |-> txs'[log'[k]].ins, outs |-> txs'[log'[k]].outs]
    <3>1. CASE k = Len(log) + 1
      BY <1>2, <2>2, <2>4, <3>1
    <3>2. CASE k # Len(log) + 1
      <4>1. k \in 1..Len(log)
        BY <1>1, <3>2
      <4>2. log'[k] = log[k] /\ log[k] \in DOMAIN txs /\ B[k] = EntryOf(log[k])
        BY <1>1, <1>2, <2>4, <4>1
      <4>. QED BY <2>2, <4>2
    <3>. QED BY <3>1, <3>2
  <2>7. B = [k \in 1..(Len(log) + 1) |-> [ins |-> txs'[log'[k]].ins,
                                          outs |-> txs'[log'[k]].outs]]
    BY <2>5, <2>6
  <2>. QED BY <2>1, <2>3, <2>7
<1>6. (BookTypes => \A h \in 0..Len(log) : /\ Leaves(h) = Ground(purse, Book, h)
                                           /\ NotesAt(h) = Coins(purse, Book, h))'
  BY ChainAsBook, PTL
<1>7. ASSUME NEW h \in 0..Len(log)
      PROVE  Leaves(h)' = Leaves(h) /\ NotesAt(h)' = NotesAt(h)
  <2>1. h \in 0..Len(log')
    BY <1>1, <1>2
  <2>2. Leaves(h)' = Ground(purse', Book', h) /\ NotesAt(h)' = Coins(purse', Book', h)
    BY <1>6, <2>1
  <2>3. Leaves(h) = Ground(purse, Book, h) /\ NotesAt(h) = Coins(purse, Book, h)
    BY ChainAsBook
  <2>4. Ground(purse, Append(Book, EntryOf(i)), h) = Ground(purse, Book, h)
    BY <1>1, <1>3, <1>4, GroundStays
  <2>5. Coins(purse, Append(Book, EntryOf(i)), h) = Coins(purse, Book, h)
    BY <1>1, <1>3, <1>4, CoinsStay
  <2>. QED BY <1>5, <2>2, <2>3, <2>4, <2>5
<1>. QED BY <1>1, <1>2, <1>3, <1>5, <1>7 DEF ChainGrows

\* A plan depends on the kind, the amount and the notes.
LEMMA PlanOfSame ==
    ASSUME NEW a, NEW b, a.kind = b.kind, a.amount = b.amount, NEW S
    PROVE  planOf(a, S) = planOf(b, S)
BY DEF planOf

\* A plan stays of the notes it was made of.
LEMMA PlanStaysMade ==
    ASSUME BookTypes, BookTypes', ChainGrows, NEW r \in DOMAIN runs, RunGrows(r), PlanMade(r)
    PROVE  PlanMade(r)'
<1>1. runs'[r].plan = planOf(runs'[r], runs'[r].notes)
  <2>1. planOf(runs'[r], runs[r].notes) = planOf(runs[r], runs[r].notes)
    BY PlanOfSame DEF RunGrows
  <2>. QED BY <2>1 DEF RunGrows, PlanMade
<1>2. runs'[r].kind \in Spending => Total(runs'[r].notes) >= runs'[r].amount
  BY DEF RunGrows, PlanMade
<1>3. PICK v \in 0..Len(log) : /\ runs[r].notes = NotesAt(v)
                               /\ \A k \in 1..v : txs[log[k]].run # r
  BY DEF PlanMade
<1>4. v \in 0..Len(log') /\ NotesAt(v)' = NotesAt(v)
  BY DEF ChainGrows, BookTypes
<1>5. \A k \in 1..v : txs'[log'[k]].run # r
  <2>1. ASSUME NEW k \in 1..v PROVE txs'[log'[k]].run # r
    <3>1. k \in 1..Len(log) /\ log[k] \in DOMAIN txs
      BY DEF BookTypes
    <3>. QED BY <1>3, <3>1 DEF ChainGrows, TxsGrow
  <2>. QED BY <2>1
<1>6. runs'[r].notes = NotesAt(v)'
  BY <1>3, <1>4 DEF RunGrows
<1>. QED BY <1>1, <1>2, <1>4, <1>5, <1>6 DEF PlanMade

\* What a run has merged stays merged, whatever it does next.
LEMMA MergesStay ==
    ASSUME BookTypes, BookTypes', ChainGrows, NEW r \in DOMAIN runs, RunGrows(r), MergedOK(r),
           NEW l \in 1..(runs[r].leg - 1)
    PROVE  \E k \in DOMAIN log' :
              /\ txs'[log'[k]].run = r /\ txs'[log'[k]].leg = l
              /\ runs'[r].merged[l] = [leaf |-> Len(Leaves(k - 1)') + 1,
                                       value |-> runs'[r].plan[l].value]
<1>1. PICK k \in DOMAIN log :
         /\ txs[log[k]].run = r /\ txs[log[k]].leg = l
         /\ runs[r].merged[l] = [leaf |-> Len(Leaves(k - 1)) + 1,
                                 value |-> runs[r].plan[l].value]
  BY DEF MergedOK
<1>2. k \in 1..Len(log) /\ log[k] \in DOMAIN txs /\ k - 1 \in 0..Len(log)
      /\ DOMAIN log' = 1..Len(log') /\ Len(log) \in Nat /\ Len(log') \in Nat
  BY DEF BookTypes
<1>3. k \in DOMAIN log' /\ log'[k] = log[k]
  BY <1>2 DEF ChainGrows
<1>4. txs'[log'[k]].run = r /\ txs'[log'[k]].leg = l
  BY <1>1, <1>2, <1>3 DEF ChainGrows, TxsGrow
<1>5. Leaves(k - 1)' = Leaves(k - 1)
  BY <1>2 DEF ChainGrows
<1>. QED BY <1>1, <1>3, <1>4, <1>5 DEF RunGrows

\* A run that did not move on has merged what it had.
LEMMA MergedStays ==
    ASSUME BookTypes, BookTypes', ChainGrows, NEW r \in DOMAIN runs, RunGrows(r), MergedOK(r),
           runs'[r].leg = runs[r].leg, runs'[r].merged = runs[r].merged
    PROVE  MergedOK(r)'
<1>1. Len(runs'[r].merged) = runs'[r].leg - 1 /\ runs'[r].leg <= Len(runs'[r].plan)
  BY DEF MergedOK, RunGrows
<1>2. \A l \in 1..(runs'[r].leg - 1) :
         \E k \in DOMAIN log' :
            /\ txs'[log'[k]].run = r /\ txs'[log'[k]].leg = l
            /\ runs'[r].merged[l] = [leaf |-> Len(Leaves(k - 1)') + 1,
                                     value |-> runs'[r].plan[l].value]
  BY MergesStay
<1>. QED BY <1>1, <1>2 DEF MergedOK

\* The inputs of a leg a run has reached are settled.
LEMMA InputsStay ==
    ASSUME ChainOK, NEW r \in DOMAIN runs, RunGrows(r), NEW l \in 1..runs[r].leg
    PROVE  Inputs(r, l)' = Inputs(r, l)
<1>1. PICK S : S = runs[r].plan[l].ins
  OBVIOUS
<1>2. runs'[r].plan[l].ins = S
  BY <1>1 DEF RunGrows
<1>3. ASSUME NEW n \in S PROVE Resolved(r, n)' = Resolved(r, n)
  <2>1. \/ n.leaf >= 1 /\ n.leaf \in Int
        \/ n.leaf < 0 /\ 0 - n.leaf \in 1..(runs[r].leg - 1)
    BY <1>1, PlannedIs DEF Selectable
  <2>2. CASE n.leaf >= 1 /\ n.leaf \in Int
    BY <2>2 DEF Resolved
  <2>3. CASE n.leaf < 0 /\ 0 - n.leaf \in 1..(runs[r].leg - 1)
    BY <2>3 DEF Resolved, RunGrows
  <2>. QED BY <2>1, <2>2, <2>3
<1>4. Inputs(r, l)' = {Resolved(r, n)' : n \in S}
  BY <1>2 DEF Inputs
<1>. QED BY <1>1, <1>3, <1>4 DEF Inputs

\* A transaction stays that of its leg.
LEMMA LegTxStays ==
    ASSUME ChainOK, ChainGrows, NEW i \in DOMAIN txs, IsLegTx(i),
           DOMAIN runs \subseteq DOMAIN runs',
           \A r \in DOMAIN runs : RunGrows(r) /\ runs'[r].leg \in Nat
    PROVE  IsLegTx(i)'
<1>0. PICK r \in DOMAIN runs : \E l \in 1..runs[r].leg :
         txs[i].run = r /\ txs[i].leg = l /\ LegTx(i, r, l)
  BY DEF IsLegTx
<1>1. PICK l \in 1..runs[r].leg : txs[i].run = r /\ txs[i].leg = l /\ LegTx(i, r, l)
  BY <1>0
<1>2. txs'[i].run = r /\ txs'[i].leg = l /\ RunGrows(r)
  BY <1>1 DEF ChainGrows, TxsGrow
<1>3. runs[r].leg \in Nat /\ l \in 1..runs'[r].leg
  BY <1>1, <1>2, LegIs DEF RunGrows
<1>4. Inputs(r, l)' = Inputs(r, l)
  BY <1>2, InputsStay
<1>5. TypeOf(r, l)' = TypeOf(r, l) /\ runs'[r].plan[l].value = runs[r].plan[l].value
  BY <1>2 DEF TypeOf, RunGrows
<1>6. /\ txs[i].type = TypeOf(r, l) /\ txs[i].amount = runs[r].plan[l].value /\ txs[i].proved
      /\ txs[i].ins = {n.leaf : n \in Inputs(r, l)}
      /\ txs[i].outs = OutsOf(TypeOf(r, l), runs[r].plan[l].value,
                              Total(Inputs(r, l)) - runs[r].plan[l].value)
  BY <1>1 DEF LegTx
<1>7. /\ txs'[i].type = txs[i].type /\ txs'[i].amount = txs[i].amount
      /\ txs'[i].ins = txs[i].ins /\ txs'[i].proved = txs[i].proved
      /\ txs'[i].outs = txs[i].outs
  BY DEF ChainGrows, TxsGrow
<1>8. /\ txs'[i].type = TypeOf(r, l)' /\ txs'[i].amount = runs'[r].plan[l].value
      /\ txs'[i].proved /\ txs'[i].ins = {n.leaf : n \in Inputs(r, l)'}
  BY <1>4, <1>5, <1>6, <1>7
<1>9. txs'[i].outs = OutsOf(TypeOf(r, l)', runs'[r].plan[l].value,
                            Total(Inputs(r, l)') - runs'[r].plan[l].value)
  BY <1>4, <1>5, <1>6, <1>7
<1>10. LegTx(i, r, l)'
  BY <1>8, <1>9 DEF LegTx
<1>. QED BY <1>1, <1>2, <1>3, <1>10 DEF IsLegTx

-----------------------------------------------------------------------------
(***************************************************************************)
(* What a step leaves as it was, when no leg ends.                         *)
(***************************************************************************)
RunSame(r) ==
    /\ RunGrows(r)
    /\ runs'[r].leg = runs[r].leg /\ runs'[r].merged = runs[r].merged

\* The types of a state are those of its chain,
LEMMA TypesAreBook ==
    /\ WalletInv => ChainOK /\ BookTypes /\ TypesOK
    /\ TypesOK => BookTypes /\ \A r \in DOMAIN runs : runs[r].leg \in Nat /\ runs[r] \in RunRec
<1>1. TypesOK => BookTypes
  BY DEF TypesOK, BookTypes
<1>2. TypesOK => \A r \in DOMAIN runs : runs[r].leg \in Nat /\ runs[r] \in RunRec
  BY RunIs DEF RunRec
<1>. QED BY <1>1, <1>2, InvIsChainOK DEF ChainOK

\* and those of the next state.
LEMMA TypesAreBookNext ==
    TypesOK' => /\ BookTypes'
                /\ \A r \in DOMAIN runs' : runs'[r].leg \in Nat /\ runs'[r] \in RunRec
<1>1. (TypesOK => BookTypes /\ \A r \in DOMAIN runs : runs[r].leg \in Nat /\ runs[r] \in RunRec)'
  BY TypesAreBook, PTL
<1>. QED BY <1>1

\* A run that keeps its task keeps its plan and its merges.
LEMMA RunsStay ==
    ASSUME WalletInv, TypesOK', ChainGrows, NEW r \in DOMAIN runs, RunSame(r)
    PROVE  PlanMade(r)' /\ MergedOK(r)'
<1>1. BookTypes /\ BookTypes'
  BY TypesAreBook, TypesAreBookNext
<1>2. PlanMade(r) /\ MergedOK(r)
  BY DEF WalletInv
<1>. QED BY <1>1, <1>2, PlanStaysMade, MergedStays DEF RunSame

\* The transactions there were are still what they were.
OldTxsOK ==
    \A i \in DOMAIN txs :
       /\ txs'[i].run \in DOMAIN runs'
       /\ txs'[i].type = txs[i].type /\ txs'[i].run = txs[i].run /\ txs'[i].leg = txs[i].leg
       /\ IF txs'[i].type = "approve"
          THEN /\ txs'[i].leg = 0 /\ runs'[txs'[i].run].kind \in Deposits
               /\ txs'[i].amount = runs'[txs'[i].run].amount
          ELSE IsLegTx(i)'

\* What was sent stays what it was.
LEMMA OldTxsStay ==
    ASSUME WalletInv, TypesOK', ChainGrows, DOMAIN runs \subseteq DOMAIN runs',
           \A r \in DOMAIN runs : RunGrows(r)
    PROVE  OldTxsOK
<1>1. \A r \in DOMAIN runs : RunGrows(r) /\ runs'[r].leg \in Nat
  BY TypesAreBookNext
<1>2. ChainOK
  BY TypesAreBook
<1>3. ASSUME NEW i \in DOMAIN txs, txs[i].type # "approve" PROVE IsLegTx(i)'
  <2>1. IsLegTx(i)
    BY <1>3 DEF WalletInv, TxsOK
  <2>. QED BY <1>1, <1>2, <2>1, LegTxStays
<1>4. ASSUME NEW i \in DOMAIN txs
      PROVE  /\ txs'[i].run \in DOMAIN runs'
             /\ txs'[i].type = txs[i].type /\ txs'[i].run = txs[i].run /\ txs'[i].leg = txs[i].leg
             /\ txs[i].type = "approve" =>
                   /\ txs'[i].leg = 0 /\ runs'[txs'[i].run].kind \in Deposits
                   /\ txs'[i].amount = runs'[txs'[i].run].amount
  <2>1. txs[i].run \in DOMAIN runs
    BY DEF WalletInv, TxsOK
  <2>2. /\ txs'[i].run = txs[i].run /\ txs'[i].leg = txs[i].leg
        /\ txs'[i].type = txs[i].type /\ txs'[i].amount = txs[i].amount
    BY DEF ChainGrows, TxsGrow
  <2>3. txs[i].type = "approve" =>
           /\ txs[i].leg = 0 /\ runs[txs[i].run].kind \in Deposits
           /\ txs[i].amount = runs[txs[i].run].amount
    BY DEF WalletInv, TxsOK
  <2>. QED BY <1>1, <2>1, <2>2, <2>3 DEF RunGrows
<1>. QED BY <1>3, <1>4 DEF OldTxsOK

-----------------------------------------------------------------------------
(***************************************************************************)
(* A step that sends nothing and lands nothing.                            *)
(***************************************************************************)
LEMMA GrowPreserves ==
    ASSUME WalletInv, TypesOK',
           purse' = purse, txs' = txs, log' = log, token' = token,
           DOMAIN runs' = DOMAIN runs,
           \A r \in DOMAIN runs : /\ RunGrows(r) /\ (RunSame(r) \/ MergedOK(r)')
                                 /\ IsAt(r)' /\ Affords(r, runs[r])'
    PROVE  WalletInv'
<1>1. BookTypes /\ BookTypes' /\ TypesOK
  BY TypesAreBook, TypesAreBookNext
<1>2. ChainGrows
  <2>1. TxsGrow
    BY <1>1 DEF TxsGrow, BookTypes
  <2>. QED BY <1>1, <2>1, ChainStill
<1>3. LogOK'
  BY DEF WalletInv, LogOK
<1>4. \A r \in DOMAIN runs' : PlanMade(r)' /\ MergedOK(r)' /\ IsAt(r)'
  <2>1. ASSUME NEW r \in DOMAIN runs PROVE PlanMade(r)' /\ MergedOK(r)'
    <3>1. PlanMade(r)'
      BY <1>1, <1>2, PlanStaysMade DEF WalletInv
    <3>2. RunSame(r) => MergedOK(r)'
      BY <1>2, RunsStay
    <3>. QED BY <3>1, <3>2
  <2>. QED BY <2>1
<1>5. TxsOK'
  <2>1. OldTxsOK
    BY <1>2, OldTxsStay
  <2>2. \A i, j \in DOMAIN txs' :
           txs'[i].run = txs'[j].run /\ txs'[i].leg = txs'[j].leg /\ txs'[i].leg # 0 => i = j
    BY DEF WalletInv, TxsOK
  <2>. QED BY <2>1, <2>2 DEF OldTxsOK, TxsOK
<1>6. LandsInOrder'
  BY DEF WalletInv, LandsInOrder
<1>7. TokensOK'
  <2>1. \A r : Rivals(r)' = Rivals(r) /\ Txs(r)' = Txs(r)
    BY DEF Rivals, Landed, Txs
  <2>2. ASSUME NEW r \in DOMAIN runs, NEW i \in Txs(r) PROVE TxTokensOK(i, r)'
    <3>1. TxTokensOK(i, r)
      BY DEF WalletInv, TokensOK
    <3>. QED BY <2>1, <3>1 DEF TxTokensOK
  <2>. QED BY <2>1, <2>2 DEF TokensOK
<1>. QED BY <1>3, <1>4, <1>5, <1>6, <1>7 DEF WalletInv

\* A step that sends and lands nothing keeps the invariant, if the runs stay where they
\* stand.
LEMMA StillPreserves ==
    ASSUME WalletInv, TypesOK',
           purse' = purse, txs' = txs, log' = log, token' = token,
           DOMAIN runs' = DOMAIN runs,
           \A r \in DOMAIN runs : RunSame(r) /\ IsAt(r)' /\ Affords(r, runs[r])'
    PROVE  WalletInv'
BY GrowPreserves DEF RunSame

-----------------------------------------------------------------------------
(***************************************************************************)
(* A step that sends.                                                      *)
(***************************************************************************)
LEMMA SendPreserves ==
    ASSUME WalletInv, TypesOK',
           purse' = purse, log' = log, token' = token,
           NEW tx \in TxRec, txs' = Append(txs, tx), tx.status = "pending",
           NEW n, n = Len(txs) + 1,
           DOMAIN runs' = DOMAIN runs,
           \A q \in DOMAIN runs : RunSame(q) /\ IsAt(q)',
           \A q \in DOMAIN runs : Affords(q, runs[q])',
           NEW r \in DOMAIN runs, tx.run = r,
           IF tx.type = "approve"
           THEN tx.leg = 0 /\ runs[r].kind \in Deposits /\ tx.amount = runs[r].amount
           ELSE /\ tx.leg = runs[r].leg /\ IsLegTx(n)'
                /\ \A i \in Txs(r) : txs[i].leg < runs[r].leg,
           tx.type \in Deposits /\ Rivals(r) = {} =>
               tx.amount <= token.balance /\ tx.amount <= token.allowance
    PROVE  WalletInv'
<1>1. BookTypes /\ BookTypes' /\ TypesOK /\ ChainOK
  BY TypesAreBook, TypesAreBookNext
<1>2. n = Len(txs) + 1
  OBVIOUS
<1>3. /\ DOMAIN txs = 1..Len(txs) /\ Len(txs) \in Nat /\ DOMAIN txs' = DOMAIN txs \cup {n}
      /\ \A i \in DOMAIN txs : txs'[i] = txs[i]
      /\ txs'[n] = tx /\ n \notin DOMAIN txs /\ n \in DOMAIN txs' /\ Len(txs') = n
  BY <1>1, <1>2 DEF BookTypes
<1>4. ChainGrows
  <2>1. TxsGrow
    BY <1>2, <1>3 DEF TxsGrow
  <2>. QED BY <1>1, <2>1, ChainStill
<1>5. DOMAIN log = 1..Len(log) /\ \A k \in DOMAIN log : log[k] \in DOMAIN txs
  BY <1>1 DEF BookTypes
<1>6. LogOK'
  <2>1. LogOK
    BY DEF WalletInv
  <2>2. \A i \in DOMAIN txs' : txs'[i].type # "approve" =>
           (txs'[i].status = "landed" <=> \E k \in DOMAIN log : log[k] = i)
    BY <1>3, <1>5, <2>1 DEF LogOK
  <2>3. \A k \in DOMAIN log : txs'[log[k]].type # "approve"
    BY <1>3, <1>5, <2>1 DEF LogOK
  <2>4. \A i \in DOMAIN txs' : txs'[i].type = "approve" => txs'[i].status # "reverted"
    BY <1>3, <2>1 DEF LogOK
  <2>5. \A a, b \in DOMAIN log : log[a] = log[b] => a = b
    BY <2>1 DEF LogOK
  <2>. QED BY <2>2, <2>3, <2>4, <2>5 DEF LogOK
<1>7. \A q \in DOMAIN runs' : PlanMade(q)' /\ MergedOK(q)' /\ IsAt(q)'
  BY <1>4, RunsStay
<1>8. TxsOK'
  <2>1. OldTxsOK
    BY <1>4, OldTxsStay DEF RunSame
  <2>2. /\ txs'[n].run \in DOMAIN runs'
        /\ IF txs'[n].type = "approve"
           THEN /\ txs'[n].leg = 0 /\ runs'[txs'[n].run].kind \in Deposits
                /\ txs'[n].amount = runs'[txs'[n].run].amount
           ELSE IsLegTx(n)'
    <3>1. runs'[r].kind = runs[r].kind /\ runs'[r].amount = runs[r].amount
      BY DEF RunSame, RunGrows
    <3>. QED BY <1>2, <1>3, <3>1
  <2>3. ASSUME NEW i \in DOMAIN txs', NEW j \in DOMAIN txs',
               txs'[i].run = txs'[j].run, txs'[i].leg = txs'[j].leg, txs'[i].leg # 0
        PROVE  i = j
    <3>1. \A a \in DOMAIN txs : txs[a].run = r /\ txs[a].leg = tx.leg => tx.leg = 0
      <4>1. CASE tx.type = "approve"
        BY <4>1
      <4>2. CASE tx.type # "approve"
        <5>1. \A a \in DOMAIN txs : txs[a].run = r => a \in Txs(r)
          BY DEF Txs
        <5>2. runs[r].leg \in Nat
          BY <1>1, TypesAreBook
        <5>. QED BY <4>2, <5>1, <5>2
      <4>. QED BY <4>1, <4>2
    <3>2. \A a, b \in DOMAIN txs :
             txs[a].run = txs[b].run /\ txs[a].leg = txs[b].leg /\ txs[a].leg # 0 => a = b
      BY DEF WalletInv, TxsOK
    <3>. QED BY <1>3, <2>3, <3>1, <3>2
  <2>. QED BY <1>3, <2>1, <2>2, <2>3 DEF OldTxsOK, TxsOK
<1>9. LandsInOrder'
  <2>1. LandsInOrder
    BY DEF WalletInv
  <2>2. \A k \in DOMAIN log : txs'[log[k]] = txs[log[k]]
    BY <1>3, <1>5
  <2>3. \A k \in DOMAIN log : \A a \in 1..k : a \in DOMAIN log
    BY <1>5
  <2>4. \A a, b \in DOMAIN log :
           a < b /\ txs'[log[a]].run = txs'[log[b]].run => txs'[log[a]].leg < txs'[log[b]].leg
    BY <2>1, <2>2 DEF LandsInOrder
  <2>5. \A k \in DOMAIN log :
           (\A a \in 1..k : txs'[log[a]].run = txs'[log[k]].run) => txs'[log[k]].leg = k
    BY <2>1, <2>2, <2>3 DEF LandsInOrder
  <2>. QED BY <2>4, <2>5 DEF LandsInOrder
<1>10. TokensOK'
  <2>1. \A q : /\ Rivals(q)' = Rivals(q) /\ Txs(q) \subseteq Txs(q)'
               /\ \A j \in Txs(q) : j \in DOMAIN txs
    BY <1>3 DEF Rivals, Landed, Txs
  <2>2. ASSUME NEW q \in DOMAIN runs, NEW i \in Txs(q)' PROVE TxTokensOK(i, q)'
    <3>1. CASE i = n
      <4>1. q = r
        BY <1>3, <3>1 DEF Txs
      <4>. QED BY <1>3, <2>1, <3>1, <4>1 DEF TxTokensOK
    <3>2. CASE i # n
      <4>1. i \in Txs(q) /\ txs'[i] = txs[i]
        BY <1>3, <3>2 DEF Txs
      <4>2. TxTokensOK(i, q)
        BY <4>1 DEF WalletInv, TokensOK
      <4>3. (\A j \in Txs(q)' : txs'[j].type \in Deposits => txs'[j].status # "landed")
            => \A j \in Txs(q) : txs[j].type \in Deposits => txs[j].status # "landed"
        BY <1>3, <2>1
      <4>. QED BY <2>1, <4>1, <4>2, <4>3 DEF TxTokensOK
    <3>. QED BY <3>1, <3>2
  <2>. QED BY <2>2 DEF TokensOK
<1>. QED BY <1>6, <1>7, <1>8, <1>9, <1>10 DEF WalletInv

-----------------------------------------------------------------------------
(***************************************************************************)
(* A step of one run.                                                      *)
(***************************************************************************)
Moved(r, new) ==
    /\ runs' = [q \in DOMAIN runs |-> runs'[q]]
    /\ runs'[r] = new
    /\ \A q \in DOMAIN runs : q # r => runs'[q] = runs[q]

SameTask(new, run) ==
    /\ new.kind = run.kind /\ new.amount = run.amount /\ new.notes = run.notes
    /\ new.plan = run.plan /\ new.leg = run.leg /\ new.merged = run.merged

\* A step of one run leaves the others alone.
LEMMA MovedRuns ==
    ASSUME TypesOK, NEW r \in DOMAIN runs, NEW new \in RunRec, Moved(r, new)
    PROVE  /\ runs' \in Seq(RunRec) /\ DOMAIN runs' = DOMAIN runs
           /\ SameTask(new, runs[r]) => \A q \in DOMAIN runs : RunSame(q)
<1>1. /\ DOMAIN runs = 1..Len(runs) /\ Len(runs) \in Nat
      /\ \A q \in DOMAIN runs : runs[q] \in RunRec /\ runs[q].leg \in Nat
  <2>1. DOMAIN runs = 1..Len(runs) /\ Len(runs) \in Nat
    BY DEF TypesOK
  <2>. QED BY <2>1, TypesAreBook
<1>2. DOMAIN runs' = DOMAIN runs
  BY DEF Moved
<1>3. \A q \in DOMAIN runs : runs'[q] \in RunRec
  BY <1>1 DEF Moved
<1>4. runs' \in [1..Len(runs) -> RunRec]
  BY <1>1, <1>3 DEF Moved
<1>5. runs' \in Seq(RunRec)
  BY <1>1, <1>4
<1>6. ASSUME SameTask(new, runs[r]), NEW q \in DOMAIN runs PROVE RunSame(q)
  <2>1. CASE q = r
    BY <1>1, <1>6, <2>1 DEF Moved, SameTask, RunSame, RunGrows
  <2>2. CASE q # r
    BY <1>1, <2>2 DEF Moved, RunSame, RunGrows
  <2>. QED BY <2>1, <2>2
<1>. QED BY <1>2, <1>5, <1>6

\* Where a run stands depends on the transactions and the tokens.
LEMMA StandsStill ==
    ASSUME txs' = txs, token' = token
    PROVE  \A r : /\ Txs(r)' = Txs(r) /\ Rivals(r)' = Rivals(r)
                  /\ \A run : /\ Stands(r, run)' <=> Stands(r, run)
                              /\ Affords(r, run)' <=> Affords(r, run)
BY DEF Txs, Rivals, Landed, Stands, Affords

\* A step of one run that sends nothing keeps the invariant, if it stands where it got
\* to.
LEMMA MoveStill ==
    ASSUME WalletInv, NEW r \in DOMAIN runs, NEW new \in RunRec, Moved(r, new),
           SameTask(new, runs[r]), Stands(r, new), Affords(r, new),
           purse' = purse, txs' = txs, log' = log, token' = token,
           height' = height, view' \in [Device -> 0..Len(log)]
    PROVE  WalletInv'
<1>1. TypesOK
  BY DEF WalletInv
<1>2. /\ runs' \in Seq(RunRec) /\ DOMAIN runs' = DOMAIN runs
      /\ \A q \in DOMAIN runs : RunSame(q)
  BY <1>1, MovedRuns
<1>3. TypesOK'
  BY <1>1, <1>2 DEF TypesOK
<1>4. ASSUME NEW q \in DOMAIN runs PROVE IsAt(q)' /\ Affords(q, runs[q])'
  <2>1. Stands(q, runs[q]) /\ Affords(q, runs[q])
    BY DEF WalletInv, IsAt, TokensOK
  <2>2. PICK run : run = runs'[q]
    OBVIOUS
  <2>3. Stands(q, run) /\ Affords(q, run)
    BY <2>1, <2>2 DEF Moved
  <2>4. Stands(q, run)' /\ Affords(q, run)'
    BY <2>3, StandsStill
  <2>5. Stands(q, runs[q])' /\ Affords(q, runs[q])'
    BY <2>2, <2>4 DEF Stands, Affords
  <2>. QED BY <2>5 DEF IsAt
<1>. QED BY <1>2, <1>3, <1>4, StillPreserves

\* A step of one run that sends a transaction keeps it, if the transaction is its leg's.
LEMMA MoveSend ==
    ASSUME WalletInv, NEW r \in DOMAIN runs, NEW new \in RunRec, Moved(r, new),
           SameTask(new, runs[r]),
           purse' = purse, log' = log, token' = token, height' = height, view' = view,
           NEW tx \in TxRec, txs' = Append(txs, tx), tx.status = "pending", tx.run = r,
           NEW n, n = Len(txs) + 1,
           new.tx = n, new.head = new.paths,
           \A i \in Txs(r) : txs[i].leg < runs[r].leg,
           IF tx.type = "approve"
           THEN /\ tx.leg = 0 /\ runs[r].kind \in Deposits /\ tx.amount = runs[r].amount
                /\ new.pc = "approving" /\ (Rivals(r) = {} => new.amount <= token.balance)
           ELSE tx.leg = runs[r].leg /\ LegTx(n, r, runs[r].leg)' /\ new.pc = "sent",
           tx.type \in Deposits /\ Rivals(r) = {} =>
               tx.amount <= token.balance /\ tx.amount <= token.allowance
    PROVE  WalletInv'
<1>1. TypesOK /\ txs \in Seq(TxRec) /\ \A q \in DOMAIN runs : runs[q] \in RunRec
  BY RunIs DEF WalletInv, TypesOK
<1>2. /\ runs' \in Seq(RunRec) /\ DOMAIN runs' = DOMAIN runs
      /\ \A q \in DOMAIN runs : RunSame(q)
  BY <1>1, MovedRuns
<1>3. /\ txs' \in Seq(TxRec) /\ DOMAIN txs' = DOMAIN txs \cup {n} /\ n \notin DOMAIN txs
      /\ \A i \in DOMAIN txs : txs'[i] = txs[i]
      /\ txs'[n] = tx /\ DOMAIN txs \subseteq DOMAIN txs'
  BY <1>1
<1>4. TypesOK'
  <2>1. log \in Seq(DOMAIN txs')
    BY <1>1, <1>3 DEF TypesOK
  <2>. QED BY <1>1, <1>2, <1>3, <2>1 DEF TypesOK
<1>5. \A q : /\ Rivals(q)' = Rivals(q)
             /\ Txs(q)' = IF q = r THEN Txs(q) \cup {n} ELSE Txs(q)
             /\ \A i \in Txs(q) : txs'[i] = txs[i]
  BY <1>3 DEF Rivals, Landed, Txs
<1>6. ASSUME NEW q \in DOMAIN runs PROVE IsAt(q)' /\ Affords(q, runs[q])'
  <2>1. Stands(q, runs[q]) /\ Affords(q, runs[q])
    BY DEF WalletInv, IsAt, TokensOK
  <2>2. CASE q # r
    <3>1. PICK run : run = runs[q]
      OBVIOUS
    <3>2. runs'[q] = run
      BY <2>2, <3>1 DEF Moved
    <3>3. Stands(q, run)' /\ Affords(q, run)'
      BY <1>5, <2>1, <2>2, <3>1 DEF Stands, Affords
    <3>4. Stands(q, runs[q])' /\ Affords(q, runs[q])'
      BY <3>2, <3>3 DEF Stands, Affords
    <3>. QED BY <3>4 DEF IsAt
  <2>3. CASE q = r
    <3>1. runs'[r] = new /\ new.leg = runs[r].leg /\ new.leg \in Nat \ {0}
      BY <1>1 DEF Moved, SameTask, RunRec
    <3>2. new.kind = runs[r].kind
      BY DEF SameTask
    <3>3. \A i \in Txs(r)' : txs'[i].leg <= new.leg
      <4>1. tx.leg <= new.leg
        BY <3>1
      <4>2. ASSUME NEW i \in Txs(r) PROVE txs'[i].leg <= new.leg
        <5>1. txs[i] \in TxRec
          BY <1>1 DEF Txs
        <5>2. txs[i].leg \in Nat /\ txs[i].leg < new.leg /\ txs'[i] = txs[i]
          BY <1>5, <3>1, <5>1 DEF TxRec
        <5>. QED BY <3>1, <5>2
      <4>. QED BY <1>3, <1>5, <4>1, <4>2
    <3>4. n \in Txs(r)' /\ txs'[n] = tx
      BY <1>3, <1>5
    <3>5. CASE tx.type = "approve"
      <4>1. \A i \in Txs(r)' : txs'[i].leg < new.leg
        <5>1. tx.leg < new.leg
          BY <3>1, <3>5
        <5>. QED BY <1>3, <1>5, <3>1, <5>1
      <4>2. new.pc = "approving" /\ new.kind \in Deposits
        BY <3>2, <3>5
      <4>3. Stands(r, runs[r])'
        BY <3>1, <3>3, <3>4, <3>5, <4>1, <4>2 DEF Stands
      <4>4. Affords(r, runs[r])'
        BY <1>5, <3>1, <3>5, <4>2 DEF Affords
      <4>. QED BY <2>3, <4>3, <4>4 DEF IsAt
    <3>6. CASE tx.type # "approve"
      <4>1. new.pc = "sent" /\ tx.leg = new.leg
        BY <3>1, <3>6
      <4>2. Stands(r, runs[r])'
        BY <3>1, <3>3, <3>4, <4>1 DEF Stands, Unsent
      <4>3. Affords(r, runs[r])'
        BY <3>1, <4>1 DEF Affords
      <4>. QED BY <2>3, <4>2, <4>3 DEF IsAt
    <3>. QED BY <3>5, <3>6
  <2>. QED BY <2>2, <2>3
<1>7. ASSUME tx.type # "approve" PROVE IsLegTx(n)'
  <2>1. runs[r].leg \in 1..runs'[r].leg
    BY <1>1 DEF Moved, SameTask, RunRec
  <2>2. LegTx(n, r, runs[r].leg)' /\ txs'[n].leg = runs[r].leg /\ txs'[n].run = r
    BY <1>3, <1>7
  <2>3. runs'[r].leg = runs[r].leg
    BY DEF Moved, SameTask
  <2>. QED BY <1>2, <2>1, <2>2, <2>3 DEF IsLegTx
<1>. QED BY <1>2, <1>4, <1>6, <1>7, SendPreserves

Quiet == purse' = purse /\ txs' = txs /\ log' = log /\ token' = token /\ height' = height

\* What the invariant says of one run.
LEMMA RunIn ==
    ASSUME WalletInv, NEW r \in DOMAIN runs
    PROVE  /\ runs[r] \in RunRec /\ Stands(r, runs[r]) /\ Affords(r, runs[r])
           /\ height \in Nat /\ token.balance \in Nat /\ token.allowance \in Nat
           /\ view \in [Device -> 0..Len(log)] /\ height \in 0..Len(log)
           /\ DOMAIN runs = 1..Len(runs) /\ r \in Nat
<1>1. runs[r] \in RunRec
  BY RunIs DEF WalletInv
<1>2. Stands(r, runs[r]) /\ Affords(r, runs[r])
  BY DEF WalletInv, IsAt, TokensOK
<1>3. TypesOK
  BY DEF WalletInv
<1>4. height \in 0..Len(log) /\ Len(log) \in Nat
  BY <1>3 DEF TypesOK
<1>. QED BY <1>1, <1>2, <1>3, <1>4 DEF TypesOK

\* What a run's step makes of its record.
LEMMA MovedBy ==
    ASSUME TypesOK, NEW r \in DOMAIN runs, NEW new, runs' = [runs EXCEPT ![r] = new]
    PROVE  Moved(r, new)
BY DEF Moved, TypesOK

\* A run that forgets what it read keeps its task.
LEMMA Forgotten ==
    ASSUME NEW run \in RunRec
    PROVE  /\ Forgetting(run) \in RunRec
           /\ Forgetting(run).head = 0 /\ Forgetting(run).paths = 0
           /\ Forgetting(run).kind = run.kind /\ Forgetting(run).amount = run.amount
           /\ Forgetting(run).notes = run.notes /\ Forgetting(run).plan = run.plan
           /\ Forgetting(run).leg = run.leg /\ Forgetting(run).merged = run.merged
           /\ Forgetting(run).tx = run.tx /\ Forgetting(run).pc = run.pc
BY DEF Forgetting, RunRec

\* Ending keeps the invariant,
LEMMA EndPreserves ==
    ASSUME WalletInv, NEW r \in DOMAIN runs, NEW pc \in Over, End(r, pc), Quiet,
           view' \in [Device -> 0..Len(log)]
    PROVE  WalletInv'
<1>1. PICK run : run = runs[r]
  OBVIOUS
<1>2. PICK new : new = [Forgetting(run) EXCEPT !.pc = pc]
  OBVIOUS
<1>3. run \in RunRec /\ Stands(r, run) /\ TypesOK
  BY <1>1, RunIn DEF WalletInv
<1>4. /\ new \in RunRec /\ SameTask(new, run) /\ new.pc = pc /\ new.head = new.paths
      /\ new.tx = run.tx
  BY <1>2, <1>3, Forgotten DEF RunRec, SameTask
<1>5. Moved(r, new)
  BY <1>1, <1>2, <1>3, MovedBy DEF End
<1>6. new.pc \notin Unsent \cup {"sent", "waiting"} /\ new.pc = pc
  BY <1>4 DEF Over, Unsent
<1>7. Stands(r, new)
  <2>1. new.pc \notin {"session", "paths", "relay", "token", "unlock", "approving", "sent", "waiting"}
    BY <1>6 DEF Unsent
  <2>2. \A i \in Txs(r) : txs[i].leg <= new.leg
    BY <1>3, <1>4 DEF Stands, SameTask
  <2>. QED BY <1>4, <1>6, <2>1, <2>2 DEF Stands
<1>8. Affords(r, new)
  BY <1>6 DEF Affords, Unsent
<1>. QED BY <1>1, <1>4, <1>5, <1>7, <1>8, MoveStill DEF Quiet

\* and so does failing,
LEMMA FailPreserves ==
    ASSUME WalletInv, NEW r \in DOMAIN runs, Fail(r), Quiet, view' \in [Device -> 0..Len(log)]
    PROVE  WalletInv'
BY EndPreserves DEF Fail, Over

\* reading the root,
LEMMA GetHeadPreserves ==
    ASSUME WalletInv, NEW r \in DOMAIN runs, getHead(r), Quiet, view' = view
    PROVE  WalletInv'
<1>1. PICK run : run = runs[r]
  OBVIOUS
<1>2. PICK new : new = [run EXCEPT !.head = height, !.pc = "paths"]
  OBVIOUS
<1>3. run \in RunRec /\ Stands(r, run) /\ TypesOK /\ height \in Nat /\ run.pc = "session"
  BY <1>1, RunIn DEF WalletInv, getHead, At
<1>4. new \in RunRec /\ SameTask(new, run) /\ new.pc = "paths"
  BY <1>2, <1>3 DEF RunRec, SameTask
<1>5. Moved(r, new)
  BY <1>1, <1>2 DEF getHead, Moved
<1>6. Stands(r, new)
  BY <1>3, <1>4 DEF Stands, SameTask, Unsent
<1>7. Affords(r, new)
  BY <1>4 DEF Affords
<1>. QED BY <1>1, <1>4, <1>5, <1>6, <1>7, RunIn, MoveStill DEF Quiet

\* reading the paths,
LEMMA ReadPathsPreserves ==
    ASSUME WalletInv, NEW r \in DOMAIN runs, readPaths(r), Quiet, view' = view
    PROVE  WalletInv'
<1>1. PICK run : run = runs[r]
  OBVIOUS
<1>2. CASE run.head = height
  <2>2. PICK new : new = [run EXCEPT !.paths = height, !.pc = "prove"]
    OBVIOUS
  <2>3. run \in RunRec /\ Stands(r, run) /\ TypesOK /\ height \in Nat /\ run.pc = "paths"
    BY <1>1, RunIn DEF WalletInv, readPaths, At
  <2>4. new \in RunRec /\ SameTask(new, run) /\ new.pc = "prove" /\ new.head = new.paths
    BY <1>2, <2>2, <2>3 DEF RunRec, SameTask
  <2>5. Moved(r, new)
    BY <1>1, <1>2, <2>2 DEF readPaths, Moved
  <2>6. Stands(r, new)
    BY <2>3, <2>4 DEF Stands, SameTask, Unsent
  <2>7. Affords(r, new)
    BY <2>3, <2>4 DEF Affords, Stands, SameTask
  <2>. QED BY <1>1, <2>4, <2>5, <2>6, <2>7, RunIn, MoveStill DEF Quiet
<1>3. CASE run.head # height
  BY <1>1, <1>3, FailPreserves, RunIn DEF readPaths
<1>. QED BY <1>2, <1>3

\* hearing a receipt,
LEMMA ReceiptPreserves ==
    ASSUME WalletInv, NEW r \in DOMAIN runs, receipt(r), Quiet, view' = view
    PROVE  WalletInv'
<1>1. PICK run : run = runs[r]
  OBVIOUS
<1>2. CASE Step(r).merge
  <2>2. PICK new : new = [run EXCEPT !.pc = "waiting"]
    OBVIOUS
  <2>3. run \in RunRec /\ Stands(r, run) /\ TypesOK /\ run.pc = "sent"
    BY <1>1, RunIn DEF WalletInv, receipt, At
  <2>4. /\ new \in RunRec /\ SameTask(new, run) /\ new.pc = "waiting" /\ new.head = run.head
        /\ new.paths = run.paths /\ new.tx = run.tx
    BY <2>2, <2>3 DEF RunRec, SameTask
  <2>5. Moved(r, new)
    BY <1>1, <1>2, <2>2 DEF receipt, Go, Moved
  <2>6. Stands(r, new)
    BY <1>1, <1>2, <2>3, <2>4 DEF Stands, SameTask, Unsent, Step
  <2>7. Affords(r, new)
    BY <2>4 DEF Affords
  <2>. QED BY <1>1, <2>4, <2>5, <2>6, <2>7, RunIn, MoveStill DEF Quiet
<1>3. CASE ~Step(r).merge
  BY <1>3, EndPreserves, RunIn DEF receipt, Over
<1>. QED BY <1>2, <1>3

\* and reading the token.
LEMMA ReadTokenPreserves ==
    ASSUME WalletInv, NEW r \in DOMAIN runs, readTokenState(r), Quiet, view' = view
    PROVE  WalletInv'
<1>1. PICK run : run = runs[r]
  OBVIOUS
<1>2. CASE run.amount <= token.balance
  <2>2. PICK new : new = [run EXCEPT !.allowance = token.allowance, !.pc = "unlock"]
    OBVIOUS
  <2>3. /\ run \in RunRec /\ Stands(r, run) /\ TypesOK /\ run.pc = "token"
        /\ token.allowance \in Nat
    BY <1>1, RunIn DEF WalletInv, readTokenState, At
  <2>4. /\ new \in RunRec /\ SameTask(new, run) /\ new.pc = "unlock" /\ new.head = run.head
        /\ new.paths = run.paths /\ new.tx = run.tx /\ new.allowance = token.allowance
    BY <2>2, <2>3 DEF RunRec, SameTask
  <2>5. Moved(r, new)
    BY <1>1, <1>2, <2>2 DEF readTokenState, Moved
  <2>6. Stands(r, new)
    BY <2>3, <2>4 DEF Stands, SameTask, Unsent
  <2>7. Affords(r, new)
    BY <1>2, <2>3, <2>4 DEF Affords, SameTask
  <2>. QED BY <1>1, <2>4, <2>5, <2>6, <2>7, RunIn, MoveStill DEF Quiet
<1>3. CASE ~(run.amount <= token.balance)
  BY <1>1, <1>3, FailPreserves, RunIn DEF readTokenState
<1>. QED BY <1>2, <1>3

-----------------------------------------------------------------------------
(***************************************************************************)
(* Deposits, polls and failures.                                           *)
(***************************************************************************)
LEMMA DepositLeg ==
    ASSUME WalletInv, NEW r \in DOMAIN runs, runs[r].kind \in Deposits
    PROVE  /\ runs[r].leg = 1 /\ Len(runs[r].plan) = 1 /\ runs[r].plan[1].ins = {}
           /\ ~runs[r].plan[1].merge /\ runs[r].plan[1].value = runs[r].amount
<1>1. PICK run : run = runs[r]
  OBVIOUS
<1>2. TypesOK /\ PlanMade(r) /\ MergedOK(r)
  BY DEF WalletInv
<1>3. PlanFits(run.plan, run.notes, run.kind, run.amount)
  BY <1>1, <1>2, RunPlanFits
<1>4. Len(run.plan) = 1 /\ run.plan[1].ins = {}
  BY <1>1, <1>3 DEF PlanFits
<1>5. (run.plan[1].merge <=> 1 < Len(run.plan)) /\ run.plan[1].value = run.amount
  BY <1>3, <1>4 DEF PlanFits
<1>6. run.leg \in Nat \ {0} /\ run.leg <= Len(run.plan)
  <2>1. run \in RunRec
    BY <1>1, <1>2, RunIs
  <2>. QED BY <1>1, <1>2, <2>1 DEF MergedOK, RunRec
<1>. QED BY <1>1, <1>4, <1>5, <1>6

\* Hearing that an approval landed keeps the invariant: the allowance is there unless a
\* rival moved it.
LEMMA ApprovedPreserves ==
    ASSUME WalletInv, NEW r \in DOMAIN runs, Approved(r), Quiet, view' = view
    PROVE  WalletInv'
<1>1. PICK run : run = runs[r]
  OBVIOUS
<1>2. PICK new : new = [run EXCEPT !.tx = NoTx, !.pc = "prove"]
  OBVIOUS
<1>3. /\ run \in RunRec /\ Stands(r, run) /\ Affords(r, run) /\ TypesOK /\ run.pc = "approving"
      /\ run.tx \notin Pending
  BY <1>1, RunIn DEF WalletInv, Approved, At
<1>4. /\ new \in RunRec /\ SameTask(new, run) /\ new.pc = "prove" /\ new.head = run.head
      /\ new.paths = run.paths
  BY <1>2, <1>3 DEF RunRec, SameTask, NoTx
<1>5. Moved(r, new)
  BY <1>1, <1>2 DEF Approved, Moved
<1>6. Stands(r, new)
  BY <1>3, <1>4 DEF Stands, SameTask, Unsent
<1>7. Affords(r, new)
  <2>1. SUFFICES ASSUME new.kind \in Deposits, Rivals(r) = {}
        PROVE  new.amount <= token.balance /\ new.amount <= token.allowance
    BY <1>4 DEF Affords
  <2>2. run.kind \in Deposits /\ new.amount = run.amount /\ run.amount <= token.balance
    BY <1>3, <1>4, <2>1 DEF Affords, SameTask
  <2>3. PICK i : i = run.tx
    OBVIOUS
  <2>4. i \in Txs(r) /\ txs[i].type = "approve" /\ i \in DOMAIN txs
    BY <1>3, <2>3 DEF Stands, Txs
  <2>5. txs[i].status = "landed"
    <3>1. txs[i] \in TxRec
      BY <1>3, <2>4 DEF TypesOK
    <3>2. txs[i].status # "pending"
      BY <1>3, <2>3, <2>4 DEF Pending
    <3>3. txs[i].status # "reverted"
      BY <2>4 DEF WalletInv, LogOK
    <3>. QED BY <3>1, <3>2, <3>3 DEF TxRec
  <2>6. ASSUME NEW j \in Txs(r), txs[j].type \in Deposits PROVE FALSE
    <3>1. j \in DOMAIN txs /\ txs[j].run = r /\ txs[j].type # "approve"
      BY <2>6 DEF Txs, Deposits
    <3>2. IsLegTx(j)
      BY <3>1 DEF WalletInv, TxsOK
    <3>3. txs[j].leg \in 1..run.leg
      BY <1>1, <3>1, <3>2 DEF IsLegTx
    <3>4. txs[j].leg < run.leg
      BY <1>3 DEF Stands, Unsent
    <3>5. run.leg = 1
      BY <1>1, <2>2, DepositLeg
    <3>. QED BY <3>3, <3>4, <3>5
  <2>7. TxTokensOK(i, r)
    BY <2>4 DEF WalletInv, TokensOK
  <2>8. txs[i].amount <= token.allowance
    BY <2>1, <2>4, <2>5, <2>6, <2>7 DEF TxTokensOK
  <2>9. txs[i].amount = run.amount
    BY <1>1, <2>4 DEF WalletInv, TxsOK, Txs
  <2>. QED BY <2>2, <2>8, <2>9
<1>. QED BY <1>1, <1>4, <1>5, <1>6, <1>7, RunIn, MoveStill DEF Quiet

\* A poll keeps it,
LEMMA PollPreserves ==
    ASSUME WalletInv, NEW r \in DOMAIN runs, pollUntil(r), Quiet
    PROVE  WalletInv'
<1>1. PICK run : run = runs[r]
  OBVIOUS
<1>2. view' \in [Device -> 0..Len(log)]
  <2>1. height \in 0..Len(log) /\ view \in [Device -> 0..Len(log)]
    BY RunIn
  <2>. QED BY <2>1 DEF pollUntil
<1>3. CASE PolledOut(r)
  BY <1>2, <1>3, FailPreserves DEF pollUntil
<1>4. CASE ~PolledOut(r)
  <2>1. PICK polls : polls = run.polls + 1
    OBVIOUS
  <2>2. PICK new : new = [run EXCEPT !.polls = polls]
    OBVIOUS
  <2>3. /\ run \in RunRec /\ Stands(r, run) /\ Affords(r, run) /\ run.pc = "waiting"
        /\ polls \in Nat
    BY <1>1, <2>1, RunIn DEF pollUntil, At, RunRec
  <2>4. /\ new \in RunRec /\ SameTask(new, run) /\ new.pc = "waiting" /\ new.head = run.head
        /\ new.paths = run.paths /\ new.tx = run.tx
    BY <2>2, <2>3 DEF RunRec, SameTask
  <2>5. Moved(r, new)
    BY <1>1, <1>4, <2>1, <2>2 DEF pollUntil, Polled, Moved
  <2>6. Stands(r, new)
    BY <2>3, <2>4 DEF Stands, SameTask, Unsent
  <2>7. Affords(r, new)
    BY <2>4 DEF Affords
  <2>. QED BY <1>1, <1>2, <2>4, <2>5, <2>6, <2>7, MoveStill DEF Quiet
<1>. QED BY <1>3, <1>4

\* and whatever fails.
LEMMA FailsPreserves ==
    ASSUME WalletInv, NEW r \in DOMAIN runs, Fails(r)
    PROVE  WalletInv'
<1>1. Fail(r)
  BY DEF Fails, Rejects, WaitFails, RelayerUnheard
<1>2. Quiet /\ view' = view
  BY DEF Fails, Quiet, chainVars
<1>. QED BY <1>1, <1>2, FailPreserves, RunIn

-----------------------------------------------------------------------------
(***************************************************************************)
(* What a leg sends.                                                       *)
(***************************************************************************)
LEMMA OutsOfAre ==
    ASSUME NEW type \in Kinds \cup {"merge"}, NEW v \in Nat, NEW rest \in Int,
           type \notin Deposits => rest \in Nat
    PROVE  OutsOf(type, v, rest) \in Seq(OutRec)
<1>1. PICK paid, own, none :
         paid = Out(v, FALSE) /\ own = Out(v, TRUE) /\ none = Out(0, TRUE)
  OBVIOUS
<1>2. paid \in OutRec /\ own \in OutRec /\ none \in OutRec
  <2>1. Out(v, FALSE) \in OutRec /\ Out(v, TRUE) \in OutRec /\ Out(0, TRUE) \in OutRec
    BY OutIs
  <2>. QED BY <1>1, <2>1
<1>. HIDE DEF OutRec
<1>0. \A a, b \in OutRec : <<a, b>> \in Seq(OutRec) /\ <<a>> \in Seq(OutRec)
  OBVIOUS
<1>3. CASE type \in Deposits
  <2>1. \/ OutsOf(type, v, rest) = <<own, none>>
        \/ OutsOf(type, v, rest) = <<paid, none>>
    BY <1>1, <1>3 DEF Deposits, OutsOf, depositOuts, depositPrivOuts
  <2>. QED BY <1>0, <1>2, <2>1
<1>4. CASE type \notin Deposits
  <2>1. PICK change : change = Out(rest, TRUE)
    OBVIOUS
  <2>2. change \in OutRec
    BY <1>4, <2>1, OutIs
  <2>3. type \in {"merge", "transfer", "withdraw", "disburse"}
    BY <1>4 DEF Kinds, Spending
  <2>4. CASE type = "disburse"
    <3>1. PICK pad : pad = Out(rest, rest > 0)
      BY Zenon
    <3>2. pad \in OutRec
      BY <1>4, <3>1 DEF Out, OutRec
    <3>3. OutsOf(type, v, rest) = <<paid, pad>>
      BY Zenon, <1>1, <2>4, <3>1 DEF OutsOf, disburseOuts
    <3>. QED BY <1>0, <1>2, <3>2, <3>3
  <2>5. CASE type # "disburse"
    <3>1. \/ OutsOf(type, v, rest) = <<own, change>>
          \/ OutsOf(type, v, rest) = <<paid, change>>
          \/ OutsOf(type, v, rest) = <<change>>
      BY <1>1, <2>1, <2>3, <2>5 DEF OutsOf, MergedNote, payeeOuts, withdrawOuts
    <3>. QED BY <1>0, <1>2, <2>2, <3>1
  <2>. QED BY <2>4, <2>5
<1>. QED BY <1>3, <1>4

\* What is sent is the leg's: its inputs, its value, its outputs, proved.
LEMMA LegActionIs ==
    ASSUME WalletInv, NEW r \in DOMAIN runs, runs[r].head = runs[r].paths,
           NEW l, l = runs[r].leg
    PROVE  LET tx == legAction(r)
               value == runs[r].plan[l].value
               total == Total(Inputs(r, l))
           IN  /\ tx \in TxRec
               /\ tx.run = r /\ tx.leg = l /\ tx.status = "pending" /\ tx.proved
               /\ tx.type = TypeOf(r, l) /\ tx.amount = value
               /\ tx.type # "approve" /\ (tx.type \in Deposits <=> runs[r].kind \in Deposits)
               /\ tx.ins = {n.leaf : n \in Inputs(r, l)}
               /\ tx.outs = OutsOf(TypeOf(r, l), value, total - value)
               /\ total \in Nat /\ value \in Nat
               /\ runs[r].kind \notin Deposits => total >= value
               /\ runs[r].plan[l].merge => total = value
               /\ ~runs[r].plan[l].merge => value = runs[r].amount
<1>1. PICK run, plan, N, value, total, type :
         /\ run = runs[r] /\ plan = run.plan /\ N = Inputs(r, l) /\ value = plan[l].value
         /\ total = Total(N) /\ type = TypeOf(r, l)
  OBVIOUS
<1>2. ChainOK /\ run \in RunRec /\ l \in 1..runs[r].leg /\ run.leg \in Nat
  BY <1>1, TypesAreBook, RunIn DEF RunRec
<1>3. /\ N \in Pile /\ total = Total(plan[l].ins) /\ \A n \in N : IsThere(n, Len(log))
  BY <1>1, <1>2, InputsAre
<1>4. /\ l \in 1..Len(plan) /\ value \in Nat /\ plan[l] \in PlanLeg
      /\ total \in Nat
  BY <1>1, <1>2, <1>3, LegIs, PileIsFinite
<1>5. PlanFits(plan, run.notes, run.kind, run.amount)
  BY <1>1, <1>2, RunPlanFits DEF ChainOK
<1>6. /\ plan[l].merge => total = value
      /\ ~plan[l].merge => l = Len(plan) /\ value = run.amount
      /\ run.kind \notin Deposits => total >= value
      /\ plan[l].merge => run.kind \notin Deposits
  <2>1. /\ plan[l].merge <=> l < Len(plan)
        /\ l < Len(plan) => Total(plan[l].ins) = plan[l].value
    BY <1>4, <1>5 DEF PlanFits
  <2>2. /\ plan[Len(plan)].value = run.amount
        /\ run.kind \in Spending => Total(plan[Len(plan)].ins) >= run.amount
        /\ run.kind \in Deposits => Len(plan) = 1
    BY <1>5 DEF PlanFits
  <2>3. run.kind \in Kinds
    BY <1>2 DEF RunRec
  <2>. QED BY <1>1, <1>3, <1>4, <2>1, <2>2, <2>3 DEF Kinds
<1>7. /\ type \in Kinds \cup {"merge"} /\ type = IF plan[l].merge THEN "merge" ELSE run.kind
      /\ type # "approve" /\ (type \in Deposits <=> run.kind \in Deposits)
  <2>1. run.kind \in Kinds
    BY <1>2 DEF RunRec
  <2>2. type = IF plan[l].merge THEN "merge" ELSE run.kind
    BY <1>1 DEF TypeOf
  <2>. QED BY <1>6, <2>1, <2>2 DEF Kinds, Spending, Deposits
<1>8. OutsOf(type, value, total - value) \in Seq(OutRec)
  <2>1. total - value \in Int /\ (type \notin Deposits => total - value \in Nat)
    BY <1>4, <1>6, <1>7
  <2>. QED BY <1>4, <1>7, <2>1, OutsOfAre
<1>9. resolveInputs(r) = N
  BY <1>1 DEF resolveInputs, Inputs, Resolved, Step
<1>10. {n.leaf : n \in N} \in SUBSET Nat
  <2>1. ASSUME NEW n \in N PROVE n.leaf \in Nat
    <3>1. Len(log) \in 0..Len(log) /\ BookTypes
      BY <1>2 DEF ChainOK, BookTypes
    <3>2. Len(Leaves(Len(log))) \in Nat
      BY <3>1, LeavesGrow
    <3>. QED BY <1>3, <3>2 DEF IsThere
  <2>. QED BY <2>1
<1>11. PICK outs : outs = [merge |-> <<MergedNote(value), Out(total - value, TRUE)>>,
                 transfer |-> payeeOuts(value, total - value), withdraw |-> withdrawOuts(total - value),
                 disburse |-> disburseOuts(value, total - value),
                 deposit |-> depositOuts(value), depositPriv |-> depositPrivOuts(value)]
  OBVIOUS
<1>12. legAction(r) = [run |-> r, leg |-> l, type |-> type, amount |-> value,
                       ins |-> {n.leaf : n \in N}, proved |-> TRUE,
                       outs |-> outs[type], status |-> "pending"]
  <2>1. (runs[r].head = runs[r].paths) = TRUE
    OBVIOUS
  <2>. QED BY <1>1, <1>7, <1>9, <1>11, <2>1 DEF legAction, assembleInputs, Step
<1>13. outs[type] = OutsOf(type, value, total - value)
  <2>1. type \in {"merge", "transfer", "withdraw", "disburse", "deposit", "depositPriv"}
    BY <1>7 DEF Kinds, Spending, Deposits
  <2>2. PICK a, b, c, d, e, f :
           /\ a = <<MergedNote(value), Out(total - value, TRUE)>>
           /\ b = payeeOuts(value, total - value) /\ c = withdrawOuts(total - value)
           /\ d = disburseOuts(value, total - value) /\ e = depositOuts(value)
           /\ f = depositPrivOuts(value)
    OBVIOUS
  <2>3. outs = [merge |-> a, transfer |-> b, withdraw |-> c, disburse |-> d, deposit |-> e,
                depositPriv |-> f]
    BY <1>11, <2>2
  <2>4. OutsOf(type, value, total - value) =
           CASE type = "merge" -> a [] type = "transfer" -> b [] type = "withdraw" -> c
             [] type = "disburse" -> d [] type = "deposit" -> e [] type = "depositPriv" -> f
    BY <2>2 DEF OutsOf
  <2>. QED BY <2>1, <2>3, <2>4
<1>14. legAction(r) \in TxRec
  <2>1. r \in Nat /\ l \in Nat
    BY <1>1, <1>2, RunIn
  <2>. QED BY <1>1, <1>4, <1>7, <1>8, <1>10, <1>12, <1>13, <2>1 DEF TxRec
<1>. QED BY <1>1, <1>4, <1>6, <1>7, <1>12, <1>13, <1>14

-----------------------------------------------------------------------------
(***************************************************************************)
(* Sending.                                                                *)
(***************************************************************************)
StaysPut == purse' = purse /\ log' = log /\ token' = token /\ height' = height /\ view' = view

\* Sending a leg keeps the invariant,
LEMMA SendLegPreserves ==
    ASSUME WalletInv, NEW r \in DOMAIN runs, At(r, "prove") \/ At(r, "relay"),
           SendAs(r, legAction(r), "sent"), StaysPut
    PROVE  WalletInv'
<1>1. PICK run, tx, n, l : run = runs[r] /\ tx = legAction(r) /\ n = Len(txs) + 1 /\ l = run.leg
  OBVIOUS
<1>2. PICK new : new = [Forgetting(run) EXCEPT !.tx = n, !.pc = "sent"]
  OBVIOUS
<1>3. /\ run \in RunRec /\ Stands(r, run) /\ Affords(r, run) /\ TypesOK
      /\ run.pc \in {"prove", "relay"} /\ txs \in Seq(TxRec)
  BY <1>1, RunIn DEF WalletInv, At, TypesOK
<1>4. n \in Nat /\ Len(txs) \in Nat
  BY <1>1, <1>3
<1>5. /\ new \in RunRec /\ SameTask(new, run) /\ new.pc = "sent" /\ new.tx = n
      /\ new.head = new.paths
  BY <1>2, <1>3, <1>4, Forgotten DEF RunRec, SameTask
<1>6. Moved(r, new) /\ txs' = Append(txs, tx)
  BY <1>1, <1>2 DEF SendAs, Moved
<1>7. run.head = run.paths
  BY <1>3 DEF Stands
<1>8. /\ tx \in TxRec /\ tx.run = r /\ tx.leg = l /\ tx.status = "pending" /\ tx.proved
      /\ tx.type = TypeOf(r, l) /\ tx.amount = run.plan[l].value /\ tx.type # "approve"
      /\ (tx.type \in Deposits <=> run.kind \in Deposits)
      /\ tx.ins = {m.leaf : m \in Inputs(r, l)}
      /\ tx.outs = OutsOf(TypeOf(r, l), run.plan[l].value, Total(Inputs(r, l)) - run.plan[l].value)
  BY <1>1, <1>7, LegActionIs
<1>9. \A i \in Txs(r) : txs[i].leg < run.leg
  BY <1>3 DEF Stands, Unsent
<1>10. tx.type \in Deposits /\ Rivals(r) = {} =>
          tx.amount <= token.balance /\ tx.amount <= token.allowance
  <2>1. SUFFICES ASSUME tx.type \in Deposits, Rivals(r) = {}
        PROVE  tx.amount <= token.balance /\ tx.amount <= token.allowance
    OBVIOUS
  <2>2. run.kind \in Deposits
    BY <1>8, <2>1
  <2>3. run.pc = "prove"
    BY <1>3, <2>2 DEF Stands
  <2>4. run.leg = 1 /\ run.plan[1].value = run.amount
    BY <1>1, <2>2, DepositLeg
  <2>. QED BY <1>1, <1>3, <1>8, <2>1, <2>2, <2>3, <2>4 DEF Affords
<1>11. txs'[n] = tx
  BY <1>1, <1>3, <1>6
<1>12. LegTx(n, r, l)'
  <2>1. \A q \in DOMAIN runs : RunSame(q)
    BY <1>1, <1>3, <1>5, <1>6, MovedRuns
  <2>2. ChainOK /\ l \in 1..runs[r].leg
    BY <1>1, <1>3, TypesAreBook DEF RunRec
  <2>3. Inputs(r, l)' = Inputs(r, l)
    BY <2>1, <2>2, InputsStay DEF RunSame
  <2>4. runs'[r].plan = run.plan /\ runs'[r].kind = run.kind
    BY <1>1, <2>1 DEF RunSame, RunGrows
  <2>5. TypeOf(r, l)' = TypeOf(r, l)
    BY <1>1, <2>4 DEF TypeOf
  <2>6. /\ txs'[n].type = TypeOf(r, l)' /\ txs'[n].amount = runs'[r].plan[l].value
        /\ txs'[n].proved /\ txs'[n].ins = {m.leaf : m \in Inputs(r, l)'}
    BY <1>8, <1>11, <2>3, <2>4, <2>5
  <2>7. txs'[n].outs = OutsOf(TypeOf(r, l)', runs'[r].plan[l].value,
                              Total(Inputs(r, l)') - runs'[r].plan[l].value)
    BY <1>8, <1>11, <2>3, <2>4, <2>5
  <2>. QED BY <2>6, <2>7 DEF LegTx
<1>13. LegTx(n, r, runs[r].leg)'
  <2>1. runs'[r].leg = l
    BY <1>1, <1>5, <1>6 DEF Moved, SameTask
  <2>2. \A k : k = l => LegTx(n, r, k)'
    BY <1>12
  <2>. QED BY <2>1, <2>2 DEF LegTx
<1>. QED BY <1>1, <1>5, <1>6, <1>8, <1>9, <1>10, <1>13, MoveSend DEF StaysPut

\* going on to the proof or the relayer,
LEMMA GoPreserves ==
    ASSUME WalletInv, NEW r \in DOMAIN runs, NEW pc \in {"prove", "relay"}, Go(r, pc),
           Quiet, view' = view, runs[r].pc \in {"prove", "unlock"},
           pc = "relay" => runs[r].kind \notin Deposits,
           pc = "prove" => runs[r].kind \in Deposits /\ Affords(r, [runs[r] EXCEPT !.pc = "prove"])
    PROVE  WalletInv'
<1>1. PICK run : run = runs[r]
  OBVIOUS
<1>2. PICK new : new = [run EXCEPT !.pc = pc]
  OBVIOUS
<1>3. run \in RunRec /\ Stands(r, run) /\ Affords(r, run) /\ run.pc \in {"prove", "unlock"}
  BY <1>1, RunIn
<1>4. /\ new \in RunRec /\ SameTask(new, run) /\ new.pc = pc /\ new.head = run.head
      /\ new.paths = run.paths
  BY <1>2, <1>3 DEF RunRec, SameTask
<1>5. Moved(r, new)
  BY <1>1, <1>2 DEF Go, Moved
<1>6. Stands(r, new)
  BY <1>1, <1>3, <1>4 DEF Stands, SameTask, Unsent
<1>7. Affords(r, new)
  <2>1. CASE pc = "prove"
    BY <1>1, <1>2, <2>1
  <2>2. CASE pc = "relay"
    BY <1>4, <2>2 DEF Affords
  <2>. QED BY <2>1, <2>2
<1>. QED BY <1>1, <1>4, <1>5, <1>6, <1>7, RunIn, MoveStill DEF Quiet

\* submitting,
LEMMA SubmitPreserves ==
    ASSUME WalletInv, NEW r \in DOMAIN runs, submit(r), StaysPut
    PROVE  WalletInv'
<1>1. CASE Relayed(r)
  <2>1. runs[r].kind \notin Deposits /\ runs[r].pc = "prove"
    BY <1>1 DEF Relayed, submit, At, Deposits
  <2>. QED BY <1>1, <2>1, GoPreserves DEF submit, StaysPut, Quiet
<1>2. CASE ~Relayed(r)
  BY <1>2, SendLegPreserves DEF submit
<1>. QED BY <1>1, <1>2

\* relaying,
LEMMA RelayPreserves ==
    ASSUME WalletInv, NEW r \in DOMAIN runs, handleRelay(r), StaysPut
    PROVE  WalletInv'
<1>1. CASE Valid(legAction(r))
  BY <1>1, SendLegPreserves DEF handleRelay
<1>2. CASE ~Valid(legAction(r))
  BY <1>2, FailPreserves, RunIn DEF handleRelay, StaysPut, Quiet
<1>. QED BY <1>1, <1>2

\* and approving.
LEMMA ApprovePreserves ==
    ASSUME WalletInv, NEW r \in DOMAIN runs, approveToken(r), StaysPut
    PROVE  WalletInv'
<1>1. PICK run, n : run = runs[r] /\ n = Len(txs) + 1
  OBVIOUS
<1>2. /\ run \in RunRec /\ Stands(r, run) /\ Affords(r, run) /\ TypesOK
      /\ run.pc = "unlock" /\ txs \in Seq(TxRec) /\ r \in Nat
      /\ token.balance \in Nat /\ token.allowance \in Nat
  BY <1>1, RunIn DEF WalletInv, approveToken, At, TypesOK
<1>3. run.kind \in Deposits /\ run.amount \in Nat /\ run.allowance \in Nat
  BY <1>2 DEF Stands, RunRec
<1>4. CASE run.allowance < run.amount
  <2>1. PICK tx : tx = [run |-> r, leg |-> 0, type |-> "approve", amount |-> run.amount,
                        ins |-> {}, proved |-> TRUE, outs |-> <<>>, status |-> "pending"]
    OBVIOUS
  <2>2. PICK new : new = [Forgetting(run) EXCEPT !.tx = n, !.pc = "approving"]
    OBVIOUS
  <2>3. n \in Nat
    BY <1>1, <1>2
  <2>4. /\ new \in RunRec /\ SameTask(new, run) /\ new.pc = "approving" /\ new.tx = n
        /\ new.head = new.paths
    BY <1>2, <2>2, <2>3, Forgotten DEF RunRec, SameTask
  <2>5. Moved(r, new) /\ txs' = Append(txs, tx)
    BY <1>1, <1>4, <2>1, <2>2 DEF approveToken, SendAs, Moved
  <2>6. /\ tx \in TxRec /\ tx.status = "pending" /\ tx.run = r /\ tx.type = "approve"
        /\ tx.leg = 0 /\ tx.amount = run.amount
    <3>1. <<>> \in Seq(OutRec) /\ {} \in SUBSET Nat
      OBVIOUS
    <3>. QED BY <1>2, <1>3, <2>1, <3>1 DEF TxRec
  <2>7. Rivals(r) = {} => new.amount <= token.balance
    BY <1>2, <1>3, <2>4 DEF Affords, SameTask
  <2>8. \A i \in Txs(r) : txs[i].leg < run.leg
    BY <1>2 DEF Stands
  <2>9. tx.type \notin Deposits
    BY <2>6 DEF Deposits
  <2>. QED BY <1>1, <1>3, <2>4, <2>5, <2>6, <2>7, <2>8, <2>9, MoveSend DEF StaysPut
<1>5. CASE ~(run.allowance < run.amount)
  <2>1. Affords(r, [run EXCEPT !.pc = "prove"])
    <3>1. PICK new : new = [run EXCEPT !.pc = "prove"]
      OBVIOUS
    <3>2. new.kind = run.kind /\ new.amount = run.amount /\ new.pc = "prove"
      BY <1>2, <3>1 DEF RunRec
    <3>3. Affords(r, new)
      BY <1>2, <1>3, <1>5, <3>2 DEF Affords
    <3>. QED BY <3>1, <3>3
  <2>. QED BY <1>1, <1>2, <1>3, <1>5, <2>1, GoPreserves DEF approveToken, StaysPut, Quiet
<1>. QED BY <1>4, <1>5

-----------------------------------------------------------------------------
(***************************************************************************)
(* The indexer, a page's reload, and the start of a run.                   *)
(***************************************************************************)
LEMMA RunsStillPreserve ==
    ASSUME WalletInv, purse' = purse, txs' = txs, log' = log, token' = token, runs' = runs,
           height' \in 0..Len(log), view' \in [Device -> 0..Len(log)]
    PROVE  WalletInv'
<1>1. TypesOK /\ \A r \in DOMAIN runs : runs[r].leg \in Nat
  BY TypesAreBook
<1>2. TypesOK'
  BY <1>1 DEF TypesOK
<1>3. ASSUME NEW r \in DOMAIN runs PROVE RunSame(r) /\ IsAt(r)' /\ Affords(r, runs[r])'
  <2>1. RunSame(r)
    BY <1>1 DEF RunSame, RunGrows
  <2>2. PICK run : run = runs[r]
    OBVIOUS
  <2>3. Stands(r, run) /\ Affords(r, run)
    BY <2>2, RunIn
  <2>4. Stands(r, run)' /\ Affords(r, run)'
    BY <2>3, StandsStill
  <2>5. run = runs'[r]
    BY <2>2
  <2>6. Stands(r, runs[r])' /\ Affords(r, runs[r])'
    BY <2>4, <2>5 DEF Stands, Affords
  <2>. QED BY <2>1, <2>6 DEF IsAt
<1>. QED BY <1>2, <1>3, StillPreserves

\* The indexer's step keeps the invariant.
LEMMA IndexPreserves ==
    ASSUME WalletInv, Index
    PROVE  WalletInv'
<1>1. height \in 0..Len(log) /\ view \in [Device -> 0..Len(log)] /\ Len(log) \in Nat
  BY TypesAreBook DEF TypesOK
<1>. QED BY <1>1, RunsStillPreserve DEF Index, chainVars

\* A page that loads its notes keeps it.
LEMMA RefreshPreserves ==
    ASSUME WalletInv, NEW d \in Device, Refresh(d)
    PROVE  WalletInv'
<1>1. height \in 0..Len(log) /\ view \in [Device -> 0..Len(log)] /\ Len(log) \in Nat
  BY TypesAreBook DEF TypesOK
<1>. QED BY <1>1, RunsStillPreserve DEF Refresh, chainVars

\* A run that starts has sent nothing, and its plan is of notes that were there.
LEMMA StartedPreserves ==
    ASSUME WalletInv, purse' = purse, txs' = txs, log' = log, token' = token,
           height' = height, view' = view,
           NEW new \in RunRec, runs' = Append(runs, new),
           NEW v \in 0..Len(log), new.notes = NotesAt(v), new.plan = planOf(new, new.notes),
           new.kind \in Spending => Total(new.notes) >= new.amount,
           new.leg = 1, new.merged = <<>>, new.head = 0, new.paths = 0,
           new.pc = IF new.kind \in Deposits THEN "token" ELSE "session"
    PROVE  WalletInv'
<1>1. BookTypes /\ TypesOK /\ ChainOK /\ DOMAIN runs = 1..Len(runs) /\ Len(runs) \in Nat
  BY TypesAreBook DEF TypesOK
<1>2. PICK m : m = Len(runs) + 1
  OBVIOUS
<1>3. /\ m \in Nat /\ m \notin DOMAIN runs /\ DOMAIN runs' = DOMAIN runs \cup {m}
      /\ runs'[m] = new /\ \A r \in DOMAIN runs : runs'[r] = runs[r]
      /\ runs' \in Seq(RunRec)
  BY <1>1, <1>2 DEF TypesOK
<1>4. TypesOK'
  BY <1>1, <1>3 DEF TypesOK
<1>5. BookTypes'
  BY <1>4, TypesAreBookNext
<1>6. ChainGrows
  <2>1. TxsGrow
    BY <1>1 DEF TxsGrow, BookTypes
  <2>. QED BY <1>1, <1>5, <2>1, ChainStill
<1>7. \A r \in DOMAIN runs : RunSame(r)
  BY <1>1, <1>3, TypesAreBook DEF RunSame, RunGrows
<1>8. \A i \in DOMAIN txs : txs[i].run \in DOMAIN runs /\ txs[i].run # m
  BY <1>3 DEF WalletInv, TxsOK
<1>9. \A k \in 1..Len(log) : log[k] \in DOMAIN txs
  BY <1>1 DEF BookTypes
<1>10. LogOK'
  BY DEF WalletInv, LogOK
<1>11. PlanMade(m)' /\ MergedOK(m)'
  <2>1. NotesAt(v)' = NotesAt(v)
    BY <1>6 DEF ChainGrows
  <2>2. \A k \in 1..v : txs'[log'[k]].run # m
    BY <1>1, <1>8, <1>9 DEF BookTypes
  <2>3. PlanMade(m)'
    BY <1>3, <2>1, <2>2 DEF PlanMade
  <2>4. new.notes \in Purse /\ new.kind \in Kinds /\ new.amount \in Nat \ {0}
    BY DEF RunRec
  <2>5. Len(new.plan) >= 1
    BY <2>4, PlanOfFits DEF PlanFits
  <2>6. MergedOK(m)'
    BY <1>3, <2>5 DEF MergedOK
  <2>. QED BY <2>3, <2>6
<1>12. Txs(m)' = {} /\ \A r : Txs(r)' = Txs(r) /\ Rivals(r)' = Rivals(r)
  <2>1. \A r : Txs(r)' = Txs(r) /\ Rivals(r)' = Rivals(r)
    BY DEF Txs, Rivals, Landed
  <2>2. Txs(m) = {}
    BY <1>8 DEF Txs
  <2>. QED BY <2>1, <2>2
<1>13. ASSUME NEW r \in DOMAIN runs' PROVE IsAt(r)' /\ Affords(r, runs[r])'
  <2>1. CASE r = m
    <3>1. Stands(m, new)'
      BY <1>12 DEF Stands, Unsent
    <3>2. Affords(m, new)'
      BY DEF Affords
    <3>3. Stands(r, runs[r])' /\ Affords(r, runs[r])'
      BY <1>3, <2>1, <3>1, <3>2 DEF Stands, Affords
    <3>. QED BY <3>3 DEF IsAt
  <2>2. CASE r # m
    <3>1. r \in DOMAIN runs
      BY <1>3, <2>2
    <3>2. PICK run : run = runs[r]
      OBVIOUS
    <3>3. Stands(r, run) /\ Affords(r, run)
      BY <3>1, <3>2, RunIn
    <3>4. Stands(r, run)' /\ Affords(r, run)'
      BY <3>3, StandsStill
    <3>5. run = runs'[r]
      BY <1>3, <3>1, <3>2
    <3>6. Stands(r, runs[r])' /\ Affords(r, runs[r])'
      BY <3>4, <3>5 DEF Stands, Affords
    <3>. QED BY <3>6 DEF IsAt
  <2>. QED BY <2>1, <2>2
<1>14. \A r \in DOMAIN runs' : PlanMade(r)' /\ MergedOK(r)' /\ IsAt(r)'
  BY <1>3, <1>4, <1>6, <1>7, <1>11, <1>13, RunsStay
<1>15. TxsOK'
  <2>1. OldTxsOK
    BY <1>3, <1>4, <1>6, <1>7, OldTxsStay DEF RunSame
  <2>2. \A i, j \in DOMAIN txs' :
           txs'[i].run = txs'[j].run /\ txs'[i].leg = txs'[j].leg /\ txs'[i].leg # 0 => i = j
    BY DEF WalletInv, TxsOK
  <2>. QED BY <2>1, <2>2 DEF OldTxsOK, TxsOK
<1>16. LandsInOrder'
  BY DEF WalletInv, LandsInOrder
<1>17. TokensOK'
  <2>1. ASSUME NEW r \in DOMAIN runs', NEW i \in Txs(r)' PROVE TxTokensOK(i, r)'
    <3>1. r \in DOMAIN runs /\ i \in Txs(r)
      BY <1>3, <1>12, <2>1
    <3>2. TxTokensOK(i, r)
      BY <3>1 DEF WalletInv, TokensOK
    <3>. QED BY <1>12, <3>2 DEF TxTokensOK
  <2>. QED BY <1>13, <2>1 DEF TokensOK
<1>. QED BY <1>4, <1>10, <1>14, <1>15, <1>16, <1>17 DEF WalletInv

\* A run that starts has a plan of the notes on its page.
LEMMA StartPreserves ==
    ASSUME WalletAssumption, WalletInv, NEW d \in Device, NEW ask \in Asks[d], Start(d, ask)
    PROVE  WalletInv'
<1>1. /\ ask.kind \in Kinds /\ ask.amount \in Nat \ {0} /\ ask.relayed \in BOOLEAN
  BY DEF WalletAssumption, Kinds, Spending
<1>2. PICK v : v = view[d]
  OBVIOUS
<1>3. BookTypes /\ v \in 0..Len(log)
  BY <1>2, TypesAreBook DEF TypesOK
<1>4. PICK S : S = NotesAt(v)
  OBVIOUS
<1>5. S \in Purse
  BY <1>3, <1>4, NotesAreThere
<1>6. ask.kind \notin Deposits => Total(S) >= ask.amount
  BY <1>2, <1>4 DEF Start, NotesSeen
<1>7. ask.kind \in Spending => ask.kind \notin Deposits
  BY DEF Spending, Deposits
<1>8. PICK plan : plan = planOf(ask, S)
  OBVIOUS
<1>9. plan \in Seq(PlanLeg)
  BY <1>1, <1>5, <1>6, <1>7, <1>8, PlanOfFits DEF PlanFits
<1>10. PICK new : new = [device |-> d, kind |-> ask.kind, amount |-> ask.amount,
                         relayed |-> ask.relayed, notes |-> S, plan |-> plan,
                         leg |-> 1, merged |-> <<>>, head |-> 0, paths |-> 0, polls |-> 0,
                         allowance |-> 0, tx |-> NoTx,
                         pc |-> IF ask.kind \in Deposits THEN "token" ELSE "session"]
  OBVIOUS
<1>11. new \in RunRec
  <2>1. <<>> \in Seq(Selectable)
    OBVIOUS
  <2>2. NoTx \in Nat /\ (IF ask.kind \in Deposits THEN "token" ELSE "session")
        \in {"token", "unlock", "approving", "session", "paths", "prove", "relay",
                 "sent", "waiting"} \cup Over
    BY DEF NoTx
  <2>. QED BY <1>1, <1>5, <1>9, <1>10, <2>1, <2>2 DEF RunRec
<1>12. runs' = Append(runs, new)
  BY <1>2, <1>4, <1>8, <1>10 DEF Start, NotesSeen
<1>13. new.plan = planOf(new, new.notes)
  <2>1. new.kind = ask.kind /\ new.amount = ask.amount /\ new.notes = S /\ new.plan = plan
    BY <1>10
  <2>. QED BY <1>8, <2>1, PlanOfSame
<1>14. /\ new.notes = NotesAt(v) /\ new.leg = 1 /\ new.merged = <<>> /\ new.head = 0
       /\ new.paths = 0 /\ (new.kind \in Spending => Total(new.notes) >= new.amount)
       /\ new.pc = IF new.kind \in Deposits THEN "token" ELSE "session"
  BY <1>4, <1>6, <1>7, <1>10
<1>. QED BY <1>3, <1>11, <1>12, <1>13, <1>14, StartedPreserves DEF Start, chainVars

-----------------------------------------------------------------------------
(***************************************************************************)
(* The note a merge made is there.                                         *)
(***************************************************************************)
LEMMA ProducedIs ==
    ASSUME WalletInv, NEW r \in DOMAIN runs, At(r, "waiting"), NEW note \in Produced(r)
    PROVE  \E k \in DOMAIN log :
              /\ txs[log[k]].run = r /\ txs[log[k]].leg = runs[r].leg
              /\ note = [leaf |-> Len(Leaves(k - 1)) + 1, value |-> runs[r].plan[runs[r].leg].value]
              /\ note \in Selectable /\ runs[r].plan[runs[r].leg].merge
<1>1. PICK run, l : run = runs[r] /\ l = runs[r].leg
  OBVIOUS
<1>2. /\ ChainOK /\ BookTypes /\ height \in 0..Len(log) /\ Len(log) \in Nat
      /\ DOMAIN log = 1..Len(log) /\ Stands(r, run)
  BY <1>1, TypesAreBook, RunIn DEF BookTypes
<1>3. /\ run.tx \in Txs(r) /\ txs[run.tx].leg = l /\ run.plan[l].merge
  BY <1>1, <1>2 DEF Stands, At
<1>4. note \in NotesAt(height)
  BY DEF Produced
<1>5. PICK k \in 1..height : log[k] = run.tx /\ note.leaf = Len(Leaves(k - 1)) + 1
  BY <1>1 DEF Produced
<1>6. k \in 1..Len(log) /\ txs[log[k]].run = r /\ txs[log[k]].leg = l
  BY <1>2, <1>3, <1>5 DEF Txs
<1>7. PICK made : made = [leaf |-> Len(Leaves(k - 1)) + 1, value |-> run.plan[l].value]
  OBVIOUS
<1>8. MadeAt(made, r, l, k)
  BY <1>1, <1>2, <1>3, <1>6, <1>7, MadeByMerge
<1>9. IsThere(made, k) /\ IsThere(note, height)
  BY <1>2, <1>4, <1>8, NotesAreThere DEF MadeAt
<1>10. k \in 0..Len(log) /\ k <= height /\ height \in 0..Len(log)
  BY <1>2, <1>5
<1>11. IsThere(made, height)
  BY <1>2, <1>9, <1>10, StaysThere
<1>12. made.leaf = note.leaf
  BY <1>5, <1>7
<1>13. made.value = note.value /\ made \in Selectable /\ note \in Selectable
  BY <1>9, <1>11, <1>12 DEF IsThere
<1>14. note = made
  BY <1>12, <1>13, SelectableIs
<1>. QED BY <1>1, <1>2, <1>3, <1>6, <1>7, <1>13, <1>14

\* A run goes to its next leg with the note its merge made.
LEMMA AwaitPreserves ==
    ASSUME WalletInv, NEW r \in DOMAIN runs, awaitMergedNote(r), Quiet
    PROVE  WalletInv'
<1>1. PICK run, l : run = runs[r] /\ l = runs[r].leg
  OBVIOUS
<1>2. PICK note \in Produced(r) : note = CHOOSE n \in Produced(r) : TRUE
  BY DEF awaitMergedNote
<1>3. PICK k \in DOMAIN log :
              /\ txs[log[k]].run = r /\ txs[log[k]].leg = l
              /\ note = [leaf |-> Len(Leaves(k - 1)) + 1, value |-> run.plan[l].value]
              /\ note \in Selectable /\ run.plan[l].merge
  BY <1>1, <1>2, ProducedIs DEF awaitMergedNote
<1>4. PICK new : new = [Forgetting(run) EXCEPT !.merged = Append(run.merged, note),
                                               !.leg = l + 1, !.tx = NoTx, !.pc = "session"]
  OBVIOUS
<1>5. /\ TypesOK /\ BookTypes /\ ChainOK /\ run \in RunRec /\ Stands(r, run)
      /\ height \in 0..Len(log) /\ view \in [Device -> 0..Len(log)]
  BY <1>1, TypesAreBook, RunIn
<1>6. l \in Nat /\ l >= 1 /\ Len(run.plan) \in Nat /\ l < Len(run.plan)
      /\ run.merged \in Seq(Selectable) /\ Len(run.merged) = l - 1
  <2>1. l \in Nat \ {0} /\ run.plan \in Seq(PlanLeg) /\ run.merged \in Seq(Selectable)
    BY <1>1, <1>5 DEF RunRec
  <2>2. l <= Len(run.plan) /\ Len(run.merged) = l - 1
    BY <1>1 DEF WalletInv, MergedOK
  <2>3. PlanMade(r)
    BY DEF WalletInv
  <2>4. PlanFits(run.plan, run.notes, run.kind, run.amount)
    BY <1>1, <1>5, <2>3, RunPlanFits
  <2>5. l \in 1..Len(run.plan)
    BY <2>1, <2>2
  <2>6. l < Len(run.plan)
    BY <1>3, <2>4, <2>5 DEF PlanFits
  <2>. QED BY <2>1, <2>2, <2>6
<1>7. /\ Append(run.merged, note) \in Seq(Selectable)
      /\ Len(Append(run.merged, note)) = l
      /\ Append(run.merged, note)[l] = note
      /\ \A i \in 1..(l - 1) : Append(run.merged, note)[i] = run.merged[i]
  BY <1>3, <1>6
<1>8. /\ new \in RunRec /\ new.kind = run.kind /\ new.amount = run.amount
      /\ new.notes = run.notes /\ new.plan = run.plan /\ new.leg = l + 1
      /\ new.merged = Append(run.merged, note) /\ new.head = new.paths /\ new.pc = "session"
  <2>1. PICK f : f = Forgetting(run)
    OBVIOUS
  <2>2. /\ f \in RunRec /\ f.kind = run.kind /\ f.amount = run.amount /\ f.notes = run.notes
        /\ f.plan = run.plan /\ f.head = f.paths
    BY <1>5, <2>1, Forgotten
  <2>3. new = [f EXCEPT !.merged = Append(run.merged, note), !.leg = l + 1, !.tx = NoTx,
                        !.pc = "session"]
    BY <1>4, <2>1
  <2>4. l + 1 \in Nat \ {0} /\ NoTx \in Nat
    BY <1>6 DEF NoTx
  <2>5. new \in RunRec
    BY <1>7, <2>2, <2>3, <2>4 DEF RunRec
  <2>6. /\ new.kind = f.kind /\ new.amount = f.amount /\ new.notes = f.notes
        /\ new.plan = f.plan /\ new.leg = l + 1 /\ new.merged = Append(run.merged, note)
        /\ new.pc = "session" /\ new.head = f.head /\ new.paths = f.paths
    BY <2>2, <2>3 DEF RunRec
  <2>. QED BY <2>2, <2>5, <2>6
<1>9. Moved(r, new)
  <2>4. runs' = [runs EXCEPT ![r] = new]
    BY <1>1, <1>2, <1>4 DEF awaitMergedNote
  <2>. QED BY <1>5, <2>4, MovedBy
<1>10. runs' \in Seq(RunRec) /\ DOMAIN runs' = DOMAIN runs
  BY <1>5, <1>8, <1>9, MovedRuns
<1>11. TypesOK'
  <2>1. view' \in [Device -> 0..Len(log)]
    BY <1>5 DEF awaitMergedNote
  <2>. QED BY <1>5, <1>10, <2>1 DEF TypesOK, Quiet
<1>12. RunGrows(r)
  <2>1. runs'[r] = new
    BY <1>9 DEF Moved
  <2>2. l <= l + 1
    BY <1>6
  <2>3. /\ runs'[r].kind = run.kind /\ runs'[r].amount = run.amount
        /\ runs'[r].notes = run.notes /\ runs'[r].plan = run.plan
        /\ runs'[r].leg = l + 1 /\ runs'[r].merged = Append(run.merged, note)
    BY <1>8, <2>1
  <2>4. \A i \in 1..(l - 1) : runs'[r].merged[i] = run.merged[i]
    BY <1>7, <2>3
  <2>. QED BY <1>1, <2>2, <2>3, <2>4 DEF RunGrows
<1>13. ASSUME NEW q \in DOMAIN runs, q # r PROVE RunSame(q)
  <2>1. runs'[q] = runs[q]
    BY <1>9, <1>13 DEF Moved
  <2>2. runs[q].leg \in Nat
    BY TypesAreBook
  <2>. QED BY <2>1, <2>2 DEF RunSame, RunGrows
<1>14. BookTypes' /\ ChainGrows
  <2>1. BookTypes'
    BY <1>11, TypesAreBookNext
  <2>2. TxsGrow
    BY <1>5 DEF TxsGrow, BookTypes, Quiet
  <2>. QED BY <1>5, <2>1, <2>2, ChainStill DEF Quiet
<1>15. MergedOK(r)'
  <2>1. runs'[r] = new
    BY <1>9 DEF Moved
  <2>2. Len(new.merged) = new.leg - 1 /\ new.leg <= Len(new.plan)
    BY <1>6, <1>7, <1>8
  <2>3. ASSUME NEW i \in 1..(new.leg - 1)
        PROVE  \E a \in DOMAIN log' :
                  /\ txs'[log'[a]].run = r /\ txs'[log'[a]].leg = i
                  /\ new.merged[i] = [leaf |-> Len(Leaves(a - 1)') + 1,
                                      value |-> new.plan[i].value]
    <3>1. CASE i = l
      <4>1. k - 1 \in 0..Len(log)
        BY <1>5 DEF BookTypes
      <4>2. Leaves(k - 1)' = Leaves(k - 1)
        BY <1>14, <4>1 DEF ChainGrows
      <4>. QED BY <1>3, <1>7, <1>8, <3>1, <4>2 DEF Quiet
    <3>2. CASE i # l
      <4>1. i \in 1..(l - 1)
        BY <1>6, <1>8, <3>2
      <4>2. MergedOK(r)
        BY DEF WalletInv
      <4>3. \E a \in DOMAIN log' :
              /\ txs'[log'[a]].run = r /\ txs'[log'[a]].leg = i
              /\ runs'[r].merged[i] = [leaf |-> Len(Leaves(a - 1)') + 1,
                                       value |-> runs'[r].plan[i].value]
        BY <1>1, <1>5, <1>12, <1>14, <4>1, <4>2, MergesStay
      <4>. QED BY <2>1, <4>3
    <3>. QED BY <3>1, <3>2
  <2>. QED BY <2>1, <2>2, <2>3 DEF MergedOK
<1>16. Stands(r, new) /\ Affords(r, new)
  <2>1. run.kind \notin Deposits
    BY <1>1, <1>3, DepositLeg
  <2>2. \A i \in Txs(r) : txs[i].leg < new.leg
    <3>1. ASSUME NEW i \in Txs(r) PROVE txs[i].leg < l + 1
      <4>1. txs[i].leg <= l
        BY <1>1, <1>5 DEF Stands
      <4>2. txs[i].leg \in Nat
        <5>1. txs[i] \in TxRec
          BY <1>5 DEF BookTypes, Txs
        <5>. QED BY <5>1 DEF TxRec
      <4>. QED BY <1>6, <4>1, <4>2
    <3>. QED BY <1>8, <3>1
  <2>3. \A i \in Txs(r) : txs[i].leg <= new.leg
    <3>1. ASSUME NEW i \in Txs(r) PROVE txs[i].leg \in Nat
      <4>1. txs[i] \in TxRec
        BY <1>5 DEF BookTypes, Txs
      <4>. QED BY <4>1 DEF TxRec
    <3>. QED BY <1>6, <1>8, <2>2, <3>1
  <2>4. Affords(r, new)
    BY <1>8, <2>1 DEF Affords
  <2>. QED BY <1>8, <2>1, <2>2, <2>3, <2>4 DEF Stands, Unsent
<1>17. ASSUME NEW q \in DOMAIN runs PROVE IsAt(q)' /\ Affords(q, runs[q])'
  <2>1. Stands(q, runs[q]) /\ Affords(q, runs[q])
    BY RunIn
  <2>2. PICK now : now = runs'[q]
    OBVIOUS
  <2>3. Stands(q, now) /\ Affords(q, now)
    BY <1>9, <1>16, <2>1, <2>2 DEF Moved
  <2>4. Stands(q, now)' /\ Affords(q, now)'
    BY <2>3, StandsStill DEF Quiet
  <2>5. Stands(q, runs[q])' /\ Affords(q, runs[q])'
    BY <2>2, <2>4 DEF Stands, Affords
  <2>. QED BY <2>5 DEF IsAt
<1>18. ASSUME NEW q \in DOMAIN runs
       PROVE  RunGrows(q) /\ (RunSame(q) \/ MergedOK(q)')
  <2>1. CASE q = r
    BY <1>12, <1>15, <2>1
  <2>2. CASE q # r
    BY <1>13, <2>2 DEF RunSame
  <2>. QED BY <2>1, <2>2
<1>. QED BY <1>10, <1>11, <1>17, <1>18, GrowPreserves DEF Quiet

-----------------------------------------------------------------------------
(***************************************************************************)
(* The chain settles a transaction.                                        *)
(***************************************************************************)
Settles(i, s) ==
    /\ i \in Pending /\ s \in {"landed", "reverted"} /\ Settled(i, s)
    /\ purse' = purse /\ height' = height /\ view' = view /\ runs' = runs

\* The fate of one transaction changes,
LEMMA SettledIs ==
    ASSUME TypesOK, NEW i, NEW s, Settles(i, s)
    PROVE  /\ i \in DOMAIN txs /\ txs[i].status = "pending" /\ DOMAIN txs' = DOMAIN txs
           /\ txs' \in Seq(TxRec) /\ txs'[i].status = s /\ Len(txs') = Len(txs)
           /\ \A j \in DOMAIN txs : j # i => txs'[j] = txs[j]
           /\ \A j \in DOMAIN txs :
                 /\ txs'[j].run = txs[j].run /\ txs'[j].leg = txs[j].leg
                 /\ txs'[j].type = txs[j].type /\ txs'[j].amount = txs[j].amount
                 /\ txs'[j].ins = txs[j].ins /\ txs'[j].proved = txs[j].proved
                 /\ txs'[j].outs = txs[j].outs
           /\ TxsGrow
<1>1. /\ i \in DOMAIN txs /\ txs[i].status = "pending"
      /\ txs' = [txs EXCEPT ![i].status = s] /\ s \in {"landed", "reverted"}
  BY DEF Settles, Pending, Settled
<1>2. PICK n : n = Len(txs)
  OBVIOUS
<1>3. /\ DOMAIN txs = 1..n /\ n \in Nat /\ \A j \in 1..n : txs[j] \in TxRec
      /\ Len(txs) = n
  BY <1>2 DEF TypesOK
<1>4. PICK new : new = [txs[i] EXCEPT !.status = s]
  OBVIOUS
<1>5. /\ new \in TxRec /\ new.status = s /\ new.run = txs[i].run /\ new.leg = txs[i].leg
      /\ new.type = txs[i].type /\ new.amount = txs[i].amount /\ new.ins = txs[i].ins
      /\ new.proved = txs[i].proved /\ new.outs = txs[i].outs
  BY <1>1, <1>3, <1>4 DEF TxRec
<1>6. txs' = [txs EXCEPT ![i] = new]
  BY <1>1, <1>4
<1>7. txs' \in [1..n -> TxRec] /\ txs'[i] = new /\ \A j \in 1..n : j # i => txs'[j] = txs[j]
  <2>1. txs \in [1..n -> TxRec]
    BY <1>3 DEF TypesOK
  <2>. QED BY <1>1, <1>3, <1>5, <1>6, <2>1
<1>8. txs' \in Seq(TxRec) /\ Len(txs') = n /\ DOMAIN txs' = 1..n
  BY <1>3, <1>7
<1>9. \A j \in DOMAIN txs :
                 /\ txs'[j].run = txs[j].run /\ txs'[j].leg = txs[j].leg
                 /\ txs'[j].type = txs[j].type /\ txs'[j].amount = txs[j].amount
                 /\ txs'[j].ins = txs[j].ins /\ txs'[j].proved = txs[j].proved
                 /\ txs'[j].outs = txs[j].outs
  BY <1>1, <1>3, <1>5, <1>7
<1>10. TxsGrow
  <2>1. \A j \in DOMAIN txs : txs[j].status = "landed" => txs'[j].status = "landed"
    BY <1>1, <1>3, <1>7
  <2>. QED BY <1>3, <1>8, <1>9, <2>1 DEF TxsGrow
<1>. QED BY <1>1, <1>3, <1>5, <1>7, <1>8, <1>9, <1>10

\* and no run stands elsewhere for it.
LEMMA StandsSettled ==
    ASSUME TypesOK, NEW i, NEW s, Settles(i, s)
    PROVE  \A r : /\ Txs(r)' = Txs(r)
                  /\ \A run : Stands(r, run)' <=> Stands(r, run)
<1>1. /\ DOMAIN txs' = DOMAIN txs
      /\ \A j \in DOMAIN txs : /\ txs'[j].run = txs[j].run /\ txs'[j].leg = txs[j].leg
                               /\ txs'[j].type = txs[j].type
  BY SettledIs
<1>2. \A r : Txs(r)' = Txs(r) /\ Txs(r) \subseteq DOMAIN txs
  BY <1>1 DEF Txs
<1>. QED BY <1>1, <1>2 DEF Stands

\* A transaction that is settled keeps the invariant, if the log and the tokens follow.
LEMMA SettlePreserves ==
    ASSUME WalletInv, NEW i, NEW s, Settles(i, s), TypesOK', ChainGrows,
           LogOK', LandsInOrder', TokensOK'
    PROVE  WalletInv'
<1>1. TypesOK /\ \A r \in DOMAIN runs : runs[r].leg \in Nat
  BY TypesAreBook
<1>2. runs' = runs
  BY DEF Settles
<1>3. \A r \in DOMAIN runs : RunSame(r)
  BY <1>1, <1>2 DEF RunSame, RunGrows
<1>4. ASSUME NEW r \in DOMAIN runs PROVE IsAt(r)'
  <2>1. PICK run : run = runs[r]
    OBVIOUS
  <2>2. Stands(r, run)
    BY <2>1, RunIn
  <2>3. Stands(r, run)'
    BY <1>1, <2>2, StandsSettled
  <2>4. run = runs'[r]
    BY <1>2, <2>1
  <2>5. Stands(r, runs[r])'
    BY <2>3, <2>4 DEF Stands
  <2>. QED BY <2>5 DEF IsAt
<1>5. \A r \in DOMAIN runs' : PlanMade(r)' /\ MergedOK(r)' /\ IsAt(r)'
  BY <1>2, <1>3, <1>4, RunsStay
<1>6. TxsOK'
  <2>1. OldTxsOK
    BY <1>2, <1>3, OldTxsStay DEF RunSame
  <2>2. DOMAIN txs' = DOMAIN txs
        /\ \A j \in DOMAIN txs : txs'[j].run = txs[j].run /\ txs'[j].leg = txs[j].leg
    BY <1>1, SettledIs
  <2>3. \A a, b \in DOMAIN txs' :
           txs'[a].run = txs'[b].run /\ txs'[a].leg = txs'[b].leg /\ txs'[a].leg # 0 => a = b
    BY <2>2 DEF WalletInv, TxsOK
  <2>. QED BY <2>1, <2>2, <2>3 DEF OldTxsOK, TxsOK
<1>. QED BY <1>5, <1>6 DEF WalletInv

\* A pending transaction of the pool is the one of the leg its run is at.
LEMMA PendingIsNext ==
    ASSUME WalletInv, NEW i \in Pending, txs[i].type # "approve", NEW r, r = txs[i].run
    PROVE  /\ r \in DOMAIN runs /\ txs[i].leg = runs[r].leg /\ txs[i].leg \in Nat \ {0}
           /\ \A k \in DOMAIN log : log[k] # i
           /\ \A k \in DOMAIN log : txs[log[k]].run = r => txs[log[k]].leg < txs[i].leg
           /\ (\A k \in DOMAIN log : txs[log[k]].run = r) => txs[i].leg = Len(log) + 1
<1>1. /\ i \in DOMAIN txs /\ txs[i].status = "pending" /\ TypesOK /\ LogOK /\ TxsOK
      /\ LandsInOrder /\ DOMAIN log = 1..Len(log) /\ Len(log) \in Nat
      /\ \A k \in DOMAIN log : log[k] \in DOMAIN txs
  BY DEF Pending, WalletInv, TypesOK
<1>2. \A j \in DOMAIN txs : txs[j].type # "approve" =>
         \E q \in DOMAIN runs : \E l \in 1..runs[q].leg : txs[j].run = q /\ txs[j].leg = l
  BY <1>1 DEF TxsOK, IsLegTx
<1>3. PICK leg : leg = runs[r].leg
  OBVIOUS
<1>4. r \in DOMAIN runs /\ txs[i].leg \in 1..leg
  BY <1>1, <1>2, <1>3
<1>5. leg \in Nat \ {0} /\ MergedOK(r)
  <2>1. runs[r] \in RunRec
    BY <1>1, <1>4, TypesAreBook
  <2>. QED BY <1>3, <1>4, <2>1 DEF RunRec, WalletInv
<1>6. \A k \in DOMAIN log : log[k] # i
  BY <1>1 DEF LogOK
<1>7. \A j \in DOMAIN txs : txs[j].run = r /\ txs[j].leg = txs[i].leg => j = i
  BY <1>1, <1>4 DEF TxsOK
<1>8. txs[i].leg = leg
  <2>1. SUFFICES ASSUME txs[i].leg # leg PROVE FALSE
    OBVIOUS
  <2>2. txs[i].leg \in 1..(leg - 1)
    BY <1>4, <1>5, <2>1
  <2>3. \E k \in DOMAIN log : txs[log[k]].run = r /\ txs[log[k]].leg = txs[i].leg
    BY <1>3, <1>5, <2>2 DEF MergedOK
  <2>. QED BY <1>1, <1>6, <1>7, <2>3
<1>9. ASSUME NEW k \in DOMAIN log, txs[log[k]].run = r PROVE txs[log[k]].leg < leg
  <2>1. txs[log[k]].leg \in 1..leg
    BY <1>1, <1>2, <1>3, <1>9 DEF LogOK
  <2>2. txs[log[k]].leg # leg
    BY <1>1, <1>6, <1>7, <1>8, <1>9
  <2>. QED BY <1>5, <2>1, <2>2
<1>10. ASSUME \A k \in DOMAIN log : txs[log[k]].run = r PROVE leg = Len(log) + 1
  <2>1. \A k \in DOMAIN log : txs[log[k]].leg = k
    <3>1. \A k \in DOMAIN log : \A a \in 1..k : a \in DOMAIN log
      BY <1>1
    <3>. QED BY <1>1, <1>10, <3>1 DEF LandsInOrder
  <2>2. leg > Len(log)
    <3>1. CASE Len(log) = 0
      BY <1>5, <3>1
    <3>2. CASE Len(log) # 0
      <4>1. Len(log) \in DOMAIN log
        BY <1>1, <3>2
      <4>. QED BY <1>9, <1>10, <2>1, <4>1, <1>1, <1>5
    <3>. QED BY <3>1, <3>2
  <2>3. ~(leg > Len(log) + 1)
    <3>1. SUFFICES ASSUME leg > Len(log) + 1 PROVE FALSE
      OBVIOUS
    <3>2. Len(log) + 1 \in 1..(leg - 1)
      BY <1>1, <1>5, <3>1
    <3>3. \E k \in DOMAIN log : txs[log[k]].leg = Len(log) + 1
      BY <1>3, <1>5, <3>2 DEF MergedOK
    <3>. QED BY <1>1, <2>1, <3>3
  <2>. QED BY <1>1, <1>5, <2>2, <2>3
<1>. QED BY <1>3, <1>4, <1>5, <1>6, <1>8, <1>9, <1>10

\* One that reverts keeps it.
LEMMA RevertPreserves ==
    ASSUME WalletInv, NEW i \in Pending, Revert(i)
    PROVE  WalletInv'
<1>1. TypesOK /\ BookTypes /\ LogOK /\ LandsInOrder /\ TokensOK
      /\ \A k \in DOMAIN log : log[k] \in DOMAIN txs
  BY TypesAreBook DEF WalletInv, TypesOK
<1>2. /\ Settles(i, "reverted") /\ log' = log /\ token' = token
      /\ txs[i].type # "approve"
  <2>1. ~Valid(txs[i])
    BY DEF Revert
  <2>2. txs[i].type # "approve"
    <3>1. ASSUME NEW t, t.type = "approve" PROVE Valid(t)
      BY <3>1 DEF Valid, Deposits
    <3>. QED BY <2>1, <3>1
  <2>. QED BY <2>2 DEF Revert, Settles
<1>3. /\ i \in DOMAIN txs /\ txs[i].status = "pending" /\ DOMAIN txs' = DOMAIN txs
      /\ txs' \in Seq(TxRec) /\ txs'[i].status = "reverted"
      /\ \A j \in DOMAIN txs : j # i => txs'[j] = txs[j]
      /\ \A j \in DOMAIN txs : /\ txs'[j].run = txs[j].run /\ txs'[j].leg = txs[j].leg
                               /\ txs'[j].type = txs[j].type /\ txs'[j].amount = txs[j].amount
      /\ TxsGrow
  BY <1>1, <1>2, SettledIs
<1>4. TypesOK'
  BY <1>1, <1>2, <1>3 DEF TypesOK, Settles
<1>5. BookTypes'
  BY <1>4, TypesAreBookNext
<1>6. ChainGrows
  BY <1>1, <1>2, <1>3, <1>5, ChainStill DEF Settles
<1>7. LogOK'
  <2>1. \A j \in DOMAIN txs : txs'[j].status = "landed" <=> txs[j].status = "landed"
    BY <1>3
  <2>2. \A j \in DOMAIN txs : txs'[j].type # "approve" =>
           (txs'[j].status = "landed" <=> \E k \in DOMAIN log : log[k] = j)
    BY <1>1, <1>3, <2>1 DEF LogOK
  <2>3. \A j \in DOMAIN txs : txs'[j].type = "approve" => txs'[j].status # "reverted"
    BY <1>1, <1>2, <1>3 DEF LogOK
  <2>4. \A k \in DOMAIN log : txs'[log[k]].type # "approve"
    BY <1>1, <1>3 DEF LogOK
  <2>5. \A a, b \in DOMAIN log : log[a] = log[b] => a = b
    BY <1>1 DEF LogOK
  <2>. QED BY <1>2, <1>3, <2>2, <2>3, <2>4, <2>5 DEF LogOK
<1>8. LandsInOrder'
  <2>1. \A k \in DOMAIN log : /\ txs'[log[k]].run = txs[log[k]].run
                              /\ txs'[log[k]].leg = txs[log[k]].leg
    BY <1>1, <1>3
  <2>2. \A k \in DOMAIN log : \A a \in 1..k : a \in DOMAIN log
    BY <1>1 DEF TypesOK
  <2>3. \A a, b \in DOMAIN log :
           a < b /\ txs'[log[a]].run = txs'[log[b]].run => txs'[log[a]].leg < txs'[log[b]].leg
    BY <1>1, <2>1 DEF LandsInOrder
  <2>4. \A k \in DOMAIN log :
           (\A a \in 1..k : txs'[log[a]].run = txs'[log[k]].run) => txs'[log[k]].leg = k
    BY <1>1, <2>1, <2>2 DEF LandsInOrder
  <2>. QED BY <1>2, <2>3, <2>4 DEF LandsInOrder
<1>9. \A r : Txs(r)' = Txs(r) /\ Rivals(r)' = Rivals(r) /\ Txs(r) \subseteq DOMAIN txs
  BY <1>3 DEF Txs, Rivals, Landed
<1>10. TokensOK'
  <2>1. ASSUME NEW r \in DOMAIN runs PROVE Affords(r, runs[r])'
    <3>1. Affords(r, runs[r])
      BY RunIn
    <3>. QED BY <1>2, <1>9, <3>1 DEF Affords, Settles
  <2>2. ASSUME NEW r \in DOMAIN runs, NEW j \in Txs(r) PROVE TxTokensOK(j, r)'
    <3>1. TxTokensOK(j, r) /\ j \in DOMAIN txs
      BY <1>1, <1>9 DEF TokensOK
    <3>2. /\ txs'[j].status = "pending" => txs[j].status = "pending"
          /\ txs'[j].status = "landed" => txs[j].status = "landed"
      BY <1>3, <3>1
    <3>3. (\A a \in Txs(r) : txs'[a].type \in Deposits => txs'[a].status # "landed")
          => \A a \in Txs(r) : txs[a].type \in Deposits => txs[a].status # "landed"
      BY <1>3, <1>9
    <3>. QED BY <1>2, <1>3, <1>9, <3>1, <3>2, <3>3 DEF TxTokensOK
  <2>. QED BY <1>2, <1>9, <2>1, <2>2 DEF TokensOK, Settles
<1>. QED BY <1>2, <1>4, <1>6, <1>7, <1>8, <1>10, SettlePreserves

-----------------------------------------------------------------------------
(***************************************************************************)
(* A transaction lands.                                                    *)
(***************************************************************************)

\* A deposit that was sent is its run's only leg.
LEMMA DepositTx ==
    ASSUME WalletInv, NEW i \in DOMAIN txs, txs[i].type \in Deposits, NEW r, r = txs[i].run
    PROVE  /\ r \in DOMAIN runs /\ runs[r].kind \in Deposits
           /\ txs[i].leg = 1 /\ runs[r].leg = 1 /\ txs[i].amount = runs[r].amount
<1>1. TxsOK /\ txs[i].type # "approve"
  BY DEF WalletInv, Deposits
<1>2. r \in DOMAIN runs /\ \E l \in 1..runs[r].leg : txs[i].leg = l /\ LegTx(i, r, l)
  BY <1>1 DEF TxsOK, IsLegTx
<1>3. PICK l \in 1..runs[r].leg : txs[i].leg = l /\ LegTx(i, r, l)
  BY <1>2
<1>4. txs[i].type = TypeOf(r, l) /\ txs[i].amount = runs[r].plan[l].value
  BY <1>3 DEF LegTx
<1>5. "merge" \notin Deposits
  BY DEF Deposits
<1>6. runs[r].kind \in Deposits
  BY <1>4, <1>5 DEF TypeOf
<1>7. runs[r].leg = 1 /\ runs[r].plan[1].value = runs[r].amount
  BY <1>2, <1>6, DepositLeg
<1>8. l = 1
  BY <1>3, <1>7
<1>. QED BY <1>2, <1>3, <1>4, <1>6, <1>7, <1>8

\* What the chain asks of a transaction.
LEMMA ValidIs ==
    ASSUME NEW t, Valid(t)
    PROVE  /\ t.type \in Deposits => t.amount <= token.balance /\ t.amount <= token.allowance
           /\ t.type \notin Deposits \cup {"approve"} =>
                 t.proved /\ t.ins \cap SpentAt(Len(log)) = {}
<1>1. "approve" \notin Deposits
  BY DEF Deposits
<1>2. CASE t.type = "approve"
  BY <1>1, <1>2
<1>3. CASE t.type \in Deposits
  BY <1>1, <1>3 DEF Valid
<1>4. CASE t.type \notin Deposits \cup {"approve"}
  BY <1>4 DEF Valid
<1>. QED BY <1>2, <1>3, <1>4

\* The account's tokens after a transaction.
LEMMA TokenAfter ==
    ASSUME WalletInv, NEW i \in Pending, Land(i)
    PROVE  /\ token' \in [balance : Nat, allowance : Nat]
           /\ token \in [balance : Nat, allowance : Nat]
           /\ txs[i].amount \in Nat
           /\ txs[i].type = "approve" => /\ token'.balance = token.balance
                                         /\ token'.allowance = txs[i].amount
           /\ txs[i].type \in Deposits => token'.balance = token.balance - txs[i].amount
           /\ txs[i].type \notin Deposits \cup {"approve"} => token' = token
<1>1. i \in DOMAIN txs /\ token \in [balance : Nat, allowance : Nat] /\ Valid(txs[i])
  BY DEF Pending, WalletInv, TypesOK, Land
<1>2. PICK amount : amount = txs[i].amount
  OBVIOUS
<1>3. amount \in Nat
  <2>1. txs[i] \in TxRec
    BY <1>1 DEF WalletInv, TypesOK
  <2>. QED BY <1>2, <2>1 DEF TxRec
<1>4. "approve" \notin Deposits
  BY DEF Deposits
<1>5. token' = CASE txs[i].type = "approve" -> [token EXCEPT !.allowance = amount]
                  [] txs[i].type \in Deposits ->
                         [balance |-> token.balance - amount,
                          allowance |-> token.allowance - amount]
                  [] OTHER -> token
  BY <1>2 DEF Land
<1>6. CASE txs[i].type = "approve"
  <2>1. token' = [token EXCEPT !.allowance = amount]
    BY <1>4, <1>5, <1>6
  <2>. QED BY <1>1, <1>2, <1>3, <1>4, <1>6, <2>1
<1>7. CASE txs[i].type \in Deposits
  <2>1. token' = [balance |-> token.balance - amount, allowance |-> token.allowance - amount]
    BY <1>4, <1>5, <1>7
  <2>2. amount <= token.balance /\ amount <= token.allowance
    BY <1>1, <1>2, <1>7, ValidIs
  <2>3. token.balance - amount \in Nat /\ token.allowance - amount \in Nat
    BY <1>1, <1>3, <2>2
  <2>. QED BY <1>1, <1>2, <1>3, <1>4, <1>7, <2>1, <2>3
<1>8. CASE txs[i].type \notin Deposits \cup {"approve"}
  <2>1. token' = token
    BY <1>5, <1>8
  <2>. QED BY <1>1, <1>2, <1>3, <1>8, <2>1
<1>. QED BY <1>6, <1>7, <1>8

\* The tokens a deposit or an approval that lands leaves, for its run and for the others.
LEMMA LandTokens ==
    ASSUME WalletInv, NEW i \in Pending, Land(i)
    PROVE  TokensOK'
<1>1. PICK o : o = txs[i].run
  OBVIOUS
<1>2. PICK type : type = txs[i].type
  OBVIOUS
<1>3. TypesOK /\ TxsOK /\ i \in DOMAIN txs /\ o \in DOMAIN runs /\ Settles(i, "landed")
  BY <1>1 DEF WalletInv, Pending, TxsOK, Land, Settles
<1>4. /\ txs[i].status = "pending" /\ DOMAIN txs' = DOMAIN txs /\ txs'[i].status = "landed"
      /\ \A j \in DOMAIN txs : j # i => txs'[j] = txs[j]
      /\ \A j \in DOMAIN txs : /\ txs'[j].run = txs[j].run /\ txs'[j].leg = txs[j].leg
                               /\ txs'[j].type = txs[j].type /\ txs'[j].amount = txs[j].amount
  BY <1>3, SettledIs
<1>5. \A r : Txs(r)' = Txs(r) /\ Txs(r) \subseteq DOMAIN txs
  BY <1>4 DEF Txs
<1>6. Landed' = Landed \cup {i}
  <2>1. \A j \in DOMAIN txs : txs'[j].status = "landed" <=> txs[j].status = "landed" \/ j = i
    BY <1>4
  <2>. QED BY <1>3, <1>4, <2>1 DEF Landed
<1>7. \A r : Rivals(r) \subseteq Rivals(r)'
  <2>1. \A j \in Landed : j \in DOMAIN txs
    BY DEF Landed
  <2>. QED BY <1>4, <1>5, <1>6, <2>1 DEF Rivals
<1>8. \A r : r # o /\ type \in Deposits \cup {"approve"} => Rivals(r)' # {}
  <2>1. i \in Landed'
    BY <1>6
  <2>2. \A r : r # o => i \notin Txs(r)
    BY <1>1 DEF Txs
  <2>3. txs'[i].type = type
    BY <1>2, <1>3, <1>4
  <2>. QED BY <1>5, <2>1, <2>2, <2>3 DEF Rivals
<1>9. ASSUME type \notin Deposits \cup {"approve"} PROVE TokensOK'
  <2>1. token' = token
    BY <1>2, <1>9, TokenAfter
  <2>2. ASSUME NEW r \in DOMAIN runs PROVE Affords(r, runs[r])'
    <3>1. Affords(r, runs[r])
      BY RunIn
    <3>. QED BY <1>3, <1>7, <2>1, <3>1 DEF Affords, Settles
  <2>3. ASSUME NEW r \in DOMAIN runs, NEW j \in Txs(r) PROVE TxTokensOK(j, r)'
    <3>1. TxTokensOK(j, r) /\ j \in DOMAIN txs
      BY <1>5 DEF WalletInv, TokensOK
    <3>2. /\ txs[j].type \in Deposits /\ txs'[j].status = "pending" =>
                txs[j].status = "pending"
          /\ txs[j].type = "approve" /\ txs'[j].status = "landed" => txs[j].status = "landed"
      BY <1>2, <1>4, <1>9, <3>1
    <3>3. (\A a \in Txs(r) : txs'[a].type \in Deposits => txs'[a].status # "landed")
          => \A a \in Txs(r) : txs[a].type \in Deposits => txs[a].status # "landed"
      BY <1>2, <1>4, <1>5, <1>9
    <3>. QED BY <1>4, <1>5, <1>7, <2>1, <3>1, <3>2, <3>3 DEF TxTokensOK
  <2>. QED BY <1>3, <1>5, <2>2, <2>3 DEF TokensOK, Settles
<1>10. ASSUME type \in Deposits \cup {"approve"}, NEW r \in DOMAIN runs, r # o
       PROVE  Affords(r, runs[r])' /\ \A j \in Txs(r) : TxTokensOK(j, r)'
  BY <1>8, <1>10 DEF Affords, TxTokensOK
<1>11. CASE type \notin Deposits \cup {"approve"}
  BY <1>9, <1>11
<1>12. CASE type = "approve"
  <2>1. /\ token' \in [balance : Nat, allowance : Nat] /\ token \in [balance : Nat, allowance : Nat]
        /\ token'.balance = token.balance /\ token'.allowance = runs[o].amount
        /\ runs[o].kind \in Deposits /\ i \in Txs(o) /\ runs[o].amount \in Nat
    <3>1. txs[i].amount = runs[o].amount /\ runs[o].kind \in Deposits
      BY <1>1, <1>2, <1>3, <1>12 DEF TxsOK
    <3>2. i \in Txs(o)
      BY <1>1, <1>3 DEF Txs
    <3>. QED BY <1>2, <1>12, <3>1, <3>2, TokenAfter
  <2>2. Affords(o, runs[o])'
    <3>1. PICK run : run = runs[o]
      OBVIOUS
    <3>2. Affords(o, run) /\ Stands(o, run) /\ runs'[o] = run
      BY <1>3, <3>1, RunIn DEF Settles
    <3>3. run.pc # "unlock"
      BY <2>1, <3>2 DEF Stands
    <3>4. Affords(o, run)'
      BY <1>7, <2>1, <3>1, <3>2, <3>3 DEF Affords
    <3>. QED BY <3>2, <3>4 DEF Affords
  <2>3. ASSUME NEW j \in Txs(o) PROVE TxTokensOK(j, o)'
    <3>1. TxTokensOK(j, o) /\ j \in DOMAIN txs /\ txs[j].run = o
      BY <1>3, <1>5 DEF WalletInv, TokensOK, Txs
    <3>2. txs[j].type \in Deposits => txs[j].amount = runs[o].amount
      BY <3>1, DepositTx
    <3>3. txs[j].type = "approve" => txs[j].amount = runs[o].amount
      BY <1>3, <3>1 DEF TxsOK
    <3>4. txs'[j].status = "pending" => txs[j].status = "pending"
      BY <1>4, <3>1
    <3>. QED BY <1>4, <1>7, <2>1, <3>1, <3>2, <3>3, <3>4 DEF TxTokensOK
  <2>. QED BY <1>3, <1>5, <1>10, <1>12, <2>2, <2>3 DEF TokensOK, Settles
<1>13. CASE type \in Deposits
  <2>1. /\ runs[o].kind \in Deposits /\ txs[i].leg = 1 /\ runs[o].leg = 1 /\ i \in Txs(o)
    BY <1>1, <1>2, <1>3, <1>13, DepositTx DEF Txs
  <2>2. Affords(o, runs[o])'
    <3>1. PICK run : run = runs[o]
      OBVIOUS
    <3>2. Stands(o, run) /\ runs'[o] = run
      BY <1>3, <3>1, RunIn DEF Settles
    <3>3. run.pc \notin Unsent
      BY <2>1, <3>1, <3>2 DEF Stands
    <3>4. Affords(o, run)'
      BY <3>3 DEF Affords, Unsent
    <3>. QED BY <3>2, <3>4 DEF Affords
  <2>3. ASSUME NEW j \in Txs(o) PROVE TxTokensOK(j, o)'
    <3>1. j \in DOMAIN txs /\ txs[j].run = o
      BY DEF Txs
    <3>2. txs[j].type \in Deposits => j = i
      <4>1. SUFFICES ASSUME txs[j].type \in Deposits PROVE j = i
        OBVIOUS
      <4>2. txs[j].leg = 1
        BY <3>1, <4>1, DepositTx
      <4>. QED BY <1>1, <1>3, <2>1, <3>1, <4>2 DEF TxsOK
    <3>3. txs'[i].type \in Deposits /\ i \in Txs(o)'
      BY <1>2, <1>4, <1>5, <1>13, <1>3, <2>1
    <3>. QED BY <1>4, <3>1, <3>2, <3>3 DEF TxTokensOK
  <2>. QED BY <1>3, <1>5, <1>10, <1>13, <2>2, <2>3 DEF TokensOK, Settles
<1>. QED BY <1>11, <1>12, <1>13

\* A transaction that lands keeps the invariant.
LEMMA LandPreserves ==
    ASSUME WalletInv, NEW i \in Pending, Land(i)
    PROVE  WalletInv'
<1>1. PICK L : L = Len(log)
  OBVIOUS
<1>2. TypesOK /\ BookTypes /\ LogOK /\ LandsInOrder /\ TokensOK /\ L \in Nat
      /\ DOMAIN log = 1..L /\ \A k \in DOMAIN log : log[k] \in DOMAIN txs
  BY <1>1, TypesAreBook DEF WalletInv, TypesOK
<1>3. Settles(i, "landed")
  BY DEF Land, Settles
<1>4. /\ i \in DOMAIN txs /\ txs[i].status = "pending" /\ DOMAIN txs' = DOMAIN txs
      /\ txs' \in Seq(TxRec) /\ txs'[i].status = "landed" /\ Len(txs') = Len(txs)
      /\ \A j \in DOMAIN txs : j # i => txs'[j] = txs[j]
      /\ \A j \in DOMAIN txs : /\ txs'[j].run = txs[j].run /\ txs'[j].leg = txs[j].leg
                               /\ txs'[j].type = txs[j].type /\ txs'[j].amount = txs[j].amount
      /\ TxsGrow
  BY <1>2, <1>3, SettledIs
<1>5. TokensOK' /\ token' \in [balance : Nat, allowance : Nat]
  BY LandTokens, TokenAfter
<1>6. \A j \in DOMAIN txs : txs'[j].status = "landed" <=> txs[j].status = "landed" \/ j = i
  BY <1>4
<1>7. CASE txs[i].type = "approve"
  <2>1. log' = log
    BY <1>7 DEF Land
  <2>2. TypesOK'
    BY <1>2, <1>3, <1>4, <1>5, <2>1 DEF TypesOK, Settles
  <2>3. BookTypes'
    BY <2>2, TypesAreBookNext
  <2>4. ChainGrows
    BY <1>2, <1>3, <1>4, <2>1, <2>3, ChainStill DEF Settles
  <2>5. LogOK'
    <3>1. \A j \in DOMAIN txs : txs'[j].type # "approve" =>
             (txs'[j].status = "landed" <=> \E k \in DOMAIN log : log[k] = j)
      BY <1>2, <1>4, <1>6, <1>7 DEF LogOK
    <3>2. \A j \in DOMAIN txs : txs'[j].type = "approve" => txs'[j].status # "reverted"
      BY <1>2, <1>4 DEF LogOK
    <3>3. \A k \in DOMAIN log : txs'[log[k]].type # "approve"
      BY <1>2, <1>4 DEF LogOK
    <3>4. \A a, b \in DOMAIN log : log[a] = log[b] => a = b
      BY <1>2 DEF LogOK
    <3>. QED BY <1>4, <2>1, <3>1, <3>2, <3>3, <3>4 DEF LogOK
  <2>6. LandsInOrder'
    <3>1. \A k \in DOMAIN log : /\ txs'[log[k]].run = txs[log[k]].run
                                /\ txs'[log[k]].leg = txs[log[k]].leg
      BY <1>2, <1>4
    <3>2. \A k \in DOMAIN log : \A a \in 1..k : a \in DOMAIN log
      BY <1>2
    <3>3. \A a, b \in DOMAIN log :
             a < b /\ txs'[log[a]].run = txs'[log[b]].run => txs'[log[a]].leg < txs'[log[b]].leg
      BY <1>2, <3>1 DEF LandsInOrder
    <3>4. \A k \in DOMAIN log :
             (\A a \in 1..k : txs'[log[a]].run = txs'[log[k]].run) => txs'[log[k]].leg = k
      BY <1>2, <3>1, <3>2 DEF LandsInOrder
    <3>. QED BY <2>1, <3>3, <3>4 DEF LandsInOrder
  <2>. QED BY <1>3, <1>5, <2>2, <2>4, <2>5, <2>6, SettlePreserves
<1>8. CASE txs[i].type # "approve"
  <2>1. log' = Append(log, i)
    BY <1>8 DEF Land
  <2>2. /\ log' \in Seq(DOMAIN txs') /\ Len(log') = L + 1 /\ log'[L + 1] = i
        /\ DOMAIN log' = 1..(L + 1) /\ \A k \in 1..L : log'[k] = log[k]
    BY <1>1, <1>2, <1>4, <2>1 DEF TypesOK
  <2>3. TypesOK'
    <3>1. height \in 0..(L + 1) /\ view \in [Device -> 0..(L + 1)]
      <4>1. height \in 0..L /\ view \in [Device -> 0..L]
        BY <1>1, <1>2 DEF TypesOK
      <4>2. \A h \in 0..L : h \in 0..(L + 1)
        BY <1>2
      <4>. QED BY <4>1, <4>2
    <3>. QED BY <1>2, <1>3, <1>4, <1>5, <2>2, <3>1 DEF TypesOK, Settles
  <2>4. BookTypes'
    BY <2>3, TypesAreBookNext
  <2>5. ChainGrows
    BY <1>2, <1>3, <1>4, <2>1, <2>4, ChainAppends DEF Settles
  <2>6. /\ \A k \in 1..L : log[k] # i
        /\ \A k \in 1..L : txs[log[k]].run = txs[i].run => txs[log[k]].leg < txs[i].leg
        /\ (\A k \in 1..L : txs[log[k]].run = txs[i].run) => txs[i].leg = L + 1
    BY <1>1, <1>2, <1>8, PendingIsNext
  <2>7. LogOK'
    <3>1. \A k \in 1..(L + 1) : k \in 1..L \/ k = L + 1
      BY <1>2
    <3>2. L + 1 \in 1..(L + 1) /\ \A k \in 1..L : k \in 1..(L + 1)
      BY <1>2
    <3>3. ASSUME NEW j \in DOMAIN txs, txs[j].type # "approve"
          PROVE  txs'[j].status = "landed" <=> \E k \in 1..(L + 1) : log'[k] = j
      <4>1. CASE j = i
        BY <1>4, <2>2, <3>2, <4>1
      <4>2. CASE j # i
        <5>1. txs[j].status = "landed" <=> \E k \in 1..L : log[k] = j
          BY <1>2, <3>3 DEF LogOK
        <5>2. txs'[j].status = "landed" <=> txs[j].status = "landed"
          BY <1>6, <4>2
        <5>3. (\E k \in 1..(L + 1) : log'[k] = j) <=> \E k \in 1..L : log[k] = j
          BY <2>2, <3>1, <3>2, <4>2
        <5>. QED BY <5>1, <5>2, <5>3
      <4>. QED BY <4>1, <4>2
    <3>4. \A j \in DOMAIN txs : txs'[j].type = "approve" => txs'[j].status # "reverted"
      BY <1>2, <1>4 DEF LogOK
    <3>5. \A k \in 1..(L + 1) : txs'[log'[k]].type # "approve"
      <4>1. ASSUME NEW k \in 1..L PROVE txs'[log'[k]].type # "approve"
        <5>1. PICK j : j = log[k]
          OBVIOUS
        <5>2. j \in DOMAIN txs /\ txs[j].type # "approve" /\ log'[k] = j
          BY <1>2, <2>2, <5>1 DEF LogOK
        <5>. QED BY <1>4, <5>2
      <4>2. txs'[log'[L + 1]].type # "approve"
        BY <1>4, <1>8, <2>2
      <4>. QED BY <3>1, <4>1, <4>2
    <3>6. ASSUME NEW a \in 1..(L + 1), NEW b \in 1..(L + 1), log'[a] = log'[b] PROVE a = b
      <4>1. a \in 1..L /\ b \in 1..L => a = b
        BY <1>2, <2>2, <3>6 DEF LogOK
      <4>. QED BY <2>2, <2>6, <3>1, <3>6, <4>1
    <3>7. \A j \in DOMAIN txs' : txs'[j].type # "approve" =>
             (txs'[j].status = "landed" <=> \E k \in DOMAIN log' : log'[k] = j)
      <4>1. ASSUME NEW j \in DOMAIN txs', txs'[j].type # "approve"
            PROVE  txs'[j].status = "landed" <=> \E k \in DOMAIN log' : log'[k] = j
        <5>1. j \in DOMAIN txs /\ txs[j].type # "approve"
          BY <1>4, <4>1
        <5>2. DOMAIN log' = 1..(L + 1)
          BY <2>2
        <5>. QED BY <3>3, <5>1, <5>2
      <4>. QED BY <4>1
    <3>8. \A j \in DOMAIN txs' : txs'[j].type = "approve" => txs'[j].status # "reverted"
      BY <1>4, <3>4
    <3>9. \A k \in DOMAIN log' : txs'[log'[k]].type # "approve"
      BY <2>2, <3>5
    <3>10. \A a, b \in DOMAIN log' : log'[a] = log'[b] => a = b
      BY <2>2, <3>6
    <3>. QED BY <3>7, <3>8, <3>9, <3>10 DEF LogOK
  <2>8. LandsInOrder'
    <3>1. \A k \in 1..L : /\ txs'[log'[k]].run = txs[log[k]].run
                          /\ txs'[log'[k]].leg = txs[log[k]].leg
      BY <1>2, <1>4, <2>2
    <3>2. txs'[log'[L + 1]].run = txs[i].run /\ txs'[log'[L + 1]].leg = txs[i].leg
      BY <1>4, <2>2
    <3>3. \A k \in 1..(L + 1) : k \in 1..L \/ k = L + 1
      BY <1>2
    <3>4. ASSUME NEW a \in 1..(L + 1), NEW b \in 1..(L + 1), a < b,
                 txs'[log'[a]].run = txs'[log'[b]].run
          PROVE  txs'[log'[a]].leg < txs'[log'[b]].leg
      <4>1. a \in 1..L
        BY <1>2, <3>4
      <4>2. CASE b = L + 1
        BY <2>6, <3>1, <3>2, <3>4, <4>1, <4>2
      <4>3. CASE b # L + 1
        BY <1>2, <3>1, <3>3, <3>4, <4>1, <4>3 DEF LandsInOrder
      <4>. QED BY <4>2, <4>3
    <3>5. ASSUME NEW k \in 1..(L + 1), \A a \in 1..k : txs'[log'[a]].run = txs'[log'[k]].run
          PROVE  txs'[log'[k]].leg = k
      <4>1. CASE k = L + 1
        <5>1. \A a \in 1..L : txs[log[a]].run = txs[i].run
          <6>1. \A a \in 1..L : a \in 1..k
            BY <1>2, <4>1
          <6>. QED BY <3>1, <3>2, <3>5, <4>1, <6>1
        <5>. QED BY <2>6, <3>2, <4>1, <5>1
      <4>2. CASE k # L + 1
        <5>1. k \in 1..L /\ \A a \in 1..k : a \in 1..L
          BY <1>2, <4>2
        <5>2. \A a \in 1..k : txs[log[a]].run = txs[log[k]].run
          BY <3>1, <3>5, <5>1
        <5>. QED BY <1>2, <3>1, <5>1, <5>2 DEF LandsInOrder
      <4>. QED BY <4>1, <4>2
    <3>. QED BY <2>2, <3>4, <3>5 DEF LandsInOrder
  <2>. QED BY <1>3, <1>5, <2>3, <2>5, <2>7, <2>8, SettlePreserves
<1>. QED BY <1>7, <1>8

-----------------------------------------------------------------------------
(***************************************************************************)
(* The invariant.                                                          *)
(***************************************************************************)
LEMMA RunStepPreserves ==
    ASSUME WalletInv, NEW r \in DOMAIN runs, RunStep(r), UNCHANGED purse
    PROVE  WalletInv'
<1>1. CASE (getHead(r) \/ readPaths(r) \/ receipt(r) \/ readTokenState(r) \/ Approved(r))
           /\ UNCHANGED <<chainVars, height, view>>
  <2>1. Quiet /\ view' = view
    BY <1>1 DEF Quiet, chainVars
  <2>. QED BY <1>1, <2>1, GetHeadPreserves, ReadPathsPreserves, ReceiptPreserves,
              ReadTokenPreserves, ApprovedPreserves
<1>2. CASE (submit(r) \/ handleRelay(r) \/ approveToken(r)) /\ UNCHANGED <<log, token, height, view>>
  <2>1. StaysPut
    BY <1>2 DEF StaysPut
  <2>. QED BY <1>2, <2>1, SubmitPreserves, RelayPreserves, ApprovePreserves
<1>3. CASE (awaitMergedNote(r) \/ pollUntil(r)) /\ UNCHANGED <<chainVars, height>>
  <2>1. Quiet
    BY <1>3 DEF Quiet, chainVars
  <2>. QED BY <1>3, <2>1, AwaitPreserves, PollPreserves
<1>. QED BY <1>1, <1>2, <1>3 DEF RunStep

\* The invariant holds at first,
LEMMA WalletInvInit ==
    WalletInit => WalletInv
<1>1. SUFFICES ASSUME WalletInit PROVE WalletInv
  OBVIOUS
<1>2. /\ purse \in Seq(Nat) /\ txs = <<>> /\ log = <<>> /\ runs = <<>> /\ height = 0
      /\ token = [balance |-> Tokens, allowance |-> 0] /\ Tokens \in Nat
      /\ view = [d \in Device |-> 0]
  BY <1>1, WalletAssumption DEF WalletInit, WalletAssumption
<1>3. DOMAIN txs = {} /\ DOMAIN log = {} /\ DOMAIN runs = {} /\ Len(log) = 0
  BY <1>2
<1>4. TypesOK
  <2>1. txs \in Seq(TxRec) /\ log \in Seq(DOMAIN txs) /\ runs \in Seq(RunRec)
    BY <1>2
  <2>2. height \in 0..Len(log) /\ view \in [Device -> 0..Len(log)]
    BY <1>2, <1>3
  <2>3. token \in [balance : Nat, allowance : Nat]
    BY <1>2
  <2>. QED BY <1>2, <2>1, <2>2, <2>3 DEF TypesOK
<1>. QED BY <1>3, <1>4 DEF WalletInv, LogOK, TxsOK, LandsInOrder, TokensOK

\* and every step keeps it.
LEMMA WalletInvNext ==
    WalletInv /\ [WalletNext]_walletVars => WalletInv'
<1>1. SUFFICES ASSUME WalletInv, [WalletNext]_walletVars PROVE WalletInv'
  OBVIOUS
<1>2. CASE UNCHANGED walletVars
  <2>1. height' \in 0..Len(log) /\ view' \in [Device -> 0..Len(log)]
    BY <1>1, <1>2, TypesAreBook DEF walletVars, TypesOK
  <2>. QED BY <1>1, <1>2, <2>1, RunsStillPreserve DEF walletVars, chainVars
<1>3. CASE \E i \in Pending : Land(i) \/ Revert(i)
  BY <1>1, <1>3, LandPreserves, RevertPreserves
<1>4. CASE Index
  BY <1>1, <1>4, IndexPreserves
<1>5. CASE \E d \in Device : Refresh(d)
  BY <1>1, <1>5, RefreshPreserves
<1>6. CASE \E d \in Device : \E ask \in Asks[d] : Start(d, ask)
  BY <1>1, <1>6, StartPreserves, WalletAssumption
<1>7. CASE \E r \in Running : RunStep(r) /\ UNCHANGED purse
  BY <1>1, <1>7, RunStepPreserves DEF Running
<1>8. CASE \E r \in Running : Fails(r)
  BY <1>1, <1>8, FailsPreserves DEF Running
<1>. QED BY <1>1, <1>2, <1>3, <1>4, <1>5, <1>6, <1>7, <1>8 DEF WalletNext

\* Whatever the pages, the indexer, the relayer and the chain do, in whatever order, and
\* whatever fails: plans are of notes that were there, transactions are of legs of plans,
\* they land in the order of the legs, and what a run resolves its inputs to is on the
\* chain (ops/driver.ts, ops/plan.ts, connection/writes.ts).
THEOREM WalletInvariant ==
    WalletSpec => []WalletInv
BY WalletInvInit, WalletInvNext, PTL DEF WalletSpec

-----------------------------------------------------------------------------
(***************************************************************************)
(* What a step may do to the chain and to what was asked.                  *)
(***************************************************************************)
AsksStay ==
    /\ DOMAIN runs \subseteq DOMAIN runs'
    /\ \A r \in DOMAIN runs : runs'[r].kind = runs[r].kind /\ runs'[r].amount = runs[r].amount

Sends == txs' = txs \/ \E tx : tx.status = "pending" /\ txs' = Append(txs, tx)

\* A step that the chain does not take.
OffChain == AsksStay /\ Sends /\ purse' = purse /\ log' = log /\ token' = token

\* A step of one run leaves all runs what they were asked for,
LEMMA MovedAsks ==
    ASSUME TypesOK, NEW r \in DOMAIN runs, NEW new, runs' = [runs EXCEPT ![r] = new],
           new.kind = runs[r].kind, new.amount = runs[r].amount
    PROVE  AsksStay
BY DEF TypesOK, AsksStay

\* and so does ending,
LEMMA EndAsks ==
    ASSUME WalletInv, NEW r \in DOMAIN runs
    PROVE  /\ \A pc : Go(r, pc) => AsksStay
           /\ \A pc : End(r, pc) => AsksStay
           /\ Fail(r) => AsksStay
           /\ \A tx, pc : SendAs(r, tx, pc) /\ tx.status = "pending" => AsksStay /\ Sends
<1>1. PICK run, f : run = runs[r] /\ f = Forgetting(run)
  OBVIOUS
<1>2. TypesOK /\ run \in RunRec
  BY <1>1, TypesAreBook
<1>3. f \in RunRec /\ f.kind = run.kind /\ f.amount = run.amount
  BY <1>1, <1>2, Forgotten
<1>4. ASSUME NEW pc, Go(r, pc) PROVE AsksStay
  <2>1. PICK new : new = [run EXCEPT !.pc = pc]
    OBVIOUS
  <2>2. new.kind = run.kind /\ new.amount = run.amount
    BY <1>2, <2>1 DEF RunRec
  <2>3. runs' = [runs EXCEPT ![r] = new]
    BY <1>1, <1>4, <2>1 DEF Go
  <2>. QED BY <1>1, <1>2, <2>2, <2>3, MovedAsks
<1>5. ASSUME NEW pc, End(r, pc) PROVE AsksStay
  <2>1. PICK new : new = [f EXCEPT !.pc = pc]
    OBVIOUS
  <2>2. new.kind = run.kind /\ new.amount = run.amount
    BY <1>3, <2>1 DEF RunRec
  <2>3. runs' = [runs EXCEPT ![r] = new]
    BY <1>1, <1>5, <2>1 DEF End
  <2>. QED BY <1>1, <1>2, <2>2, <2>3, MovedAsks
<1>6. ASSUME NEW tx, NEW pc, SendAs(r, tx, pc), tx.status = "pending" PROVE AsksStay /\ Sends
  <2>1. PICK new : new = [f EXCEPT !.tx = Len(txs) + 1, !.pc = pc]
    OBVIOUS
  <2>2. new.kind = run.kind /\ new.amount = run.amount
    BY <1>3, <2>1 DEF RunRec
  <2>3. runs' = [runs EXCEPT ![r] = new] /\ txs' = Append(txs, tx)
    BY <1>1, <1>6, <2>1 DEF SendAs
  <2>4. Sends
    BY <1>6, <2>3 DEF Sends
  <2>. QED BY <1>1, <1>2, <2>2, <2>3, <2>4, MovedAsks
<1>. QED BY <1>4, <1>5, <1>6 DEF Fail

\* and whatever reads.
LEMMA ReadsAsk ==
    ASSUME WalletInv, NEW r \in DOMAIN runs,
           \/ getHead(r) \/ readPaths(r) \/ receipt(r) \/ readTokenState(r) \/ Approved(r)
           \/ awaitMergedNote(r) \/ pollUntil(r)
    PROVE  AsksStay
<1>1. PICK run : run = runs[r]
  OBVIOUS
<1>2. TypesOK /\ run \in RunRec
  BY <1>1, TypesAreBook
<1>3. CASE getHead(r)
  <2>1. PICK new : new = [run EXCEPT !.head = height, !.pc = "paths"]
    OBVIOUS
  <2>2. new.kind = run.kind /\ new.amount = run.amount
    BY <1>2, <2>1 DEF RunRec
  <2>3. runs' = [runs EXCEPT ![r] = new]
    BY <1>1, <1>3, <2>1 DEF getHead
  <2>. QED BY <1>1, <1>2, <2>2, <2>3, MovedAsks
<1>4. CASE readPaths(r)
  <2>1. PICK new : new = [run EXCEPT !.paths = height, !.pc = "prove"]
    OBVIOUS
  <2>2. new.kind = run.kind /\ new.amount = run.amount
    BY <1>2, <2>1 DEF RunRec
  <2>3. runs' = [runs EXCEPT ![r] = new] \/ Fail(r)
    BY <1>1, <1>4, <2>1 DEF readPaths
  <2>. QED BY <1>1, <1>2, <2>2, <2>3, MovedAsks, EndAsks
<1>5. CASE receipt(r)
  BY <1>5, EndAsks DEF receipt
<1>6. CASE readTokenState(r)
  <2>1. PICK new : new = [run EXCEPT !.allowance = token.allowance, !.pc = "unlock"]
    OBVIOUS
  <2>2. new.kind = run.kind /\ new.amount = run.amount
    BY <1>2, <2>1 DEF RunRec
  <2>3. runs' = [runs EXCEPT ![r] = new] \/ Fail(r)
    BY <1>1, <1>6, <2>1 DEF readTokenState
  <2>. QED BY <1>1, <1>2, <2>2, <2>3, MovedAsks, EndAsks
<1>7. CASE Approved(r)
  <2>1. PICK new : new = [run EXCEPT !.tx = NoTx, !.pc = "prove"]
    OBVIOUS
  <2>2. new.kind = run.kind /\ new.amount = run.amount
    BY <1>2, <2>1 DEF RunRec
  <2>3. runs' = [runs EXCEPT ![r] = new]
    BY <1>1, <1>7, <2>1 DEF Approved
  <2>. QED BY <1>1, <1>2, <2>2, <2>3, MovedAsks
<1>8. CASE awaitMergedNote(r)
  <2>1. PICK f, note : f = Forgetting(run) /\ note = CHOOSE n \in Produced(r) : TRUE
    OBVIOUS
  <2>2. PICK new : new = [f EXCEPT !.merged = Append(run.merged, note), !.leg = run.leg + 1,
                                   !.tx = NoTx, !.pc = "session"]
    OBVIOUS
  <2>3. f \in RunRec /\ f.kind = run.kind /\ f.amount = run.amount
    BY <1>2, <2>1, Forgotten
  <2>4. new.kind = run.kind /\ new.amount = run.amount
    BY <2>2, <2>3 DEF RunRec
  <2>5. runs' = [runs EXCEPT ![r] = new]
    BY <1>1, <1>8, <2>1, <2>2 DEF awaitMergedNote
  <2>. QED BY <1>1, <1>2, <2>4, <2>5, MovedAsks
<1>9. CASE pollUntil(r)
  <2>1. PICK new : new = [run EXCEPT !.polls = run.polls + 1]
    OBVIOUS
  <2>2. new.kind = run.kind /\ new.amount = run.amount
    BY <1>2, <2>1 DEF RunRec
  <2>3. runs' = [runs EXCEPT ![r] = new] \/ Fail(r)
    BY <1>1, <1>9, <2>1 DEF pollUntil, Polled
  <2>. QED BY <1>1, <1>2, <2>2, <2>3, MovedAsks, EndAsks
<1>. QED BY <1>3, <1>4, <1>5, <1>6, <1>7, <1>8, <1>9

\* What is sent is pending.
LEMMA LegIsPending ==
    ASSUME NEW r
    PROVE  legAction(r).status = "pending"
BY DEF legAction

\* What a step does to the transactions: it sends one, settles one or leaves them.
LEMMA StepIs ==
    ASSUME WalletInv, [WalletNext]_walletVars
    PROVE  \/ OffChain
           \/ \E i \in Pending : Land(i) \/ Revert(i)
<1>1. TypesOK /\ DOMAIN runs = 1..Len(runs) /\ Len(runs) \in Nat
  BY TypesAreBook DEF TypesOK
<1>2. CASE UNCHANGED walletVars
  BY <1>2 DEF walletVars, chainVars, OffChain, AsksStay, Sends
<1>3. CASE Index
  BY <1>3 DEF Index, chainVars, OffChain, AsksStay, Sends
<1>4. CASE \E d \in Device : Refresh(d)
  BY <1>4 DEF Refresh, chainVars, OffChain, AsksStay, Sends
<1>5. CASE \E d \in Device : \E ask \in Asks[d] : Start(d, ask)
  <2>1. PICK d \in Device, ask \in UNION {Asks[e] : e \in Device} : Start(d, ask)
    BY <1>5
  <2>2. PICK new : runs' = Append(runs, new)
    BY <2>1 DEF Start
  <2>3. AsksStay
    BY <1>1, <2>2 DEF TypesOK, AsksStay
  <2>. QED BY <2>1, <2>3 DEF Start, chainVars, OffChain, Sends
<1>6. ASSUME NEW r \in Running, RunStep(r) /\ UNCHANGED purse PROVE OffChain
  <2>1. r \in DOMAIN runs
    BY DEF Running
  <2>2. CASE (getHead(r) \/ readPaths(r) \/ receipt(r) \/ readTokenState(r) \/ Approved(r))
             /\ UNCHANGED <<chainVars, height, view>>
    BY <1>6, <2>1, <2>2, ReadsAsk DEF OffChain, chainVars, Sends
  <2>3. CASE (awaitMergedNote(r) \/ pollUntil(r)) /\ UNCHANGED <<chainVars, height>>
    BY <1>6, <2>1, <2>3, ReadsAsk DEF OffChain, chainVars, Sends
  <2>4. CASE (submit(r) \/ handleRelay(r) \/ approveToken(r)) /\ UNCHANGED <<log, token, height, view>>
    <3>1. legAction(r).status = "pending"
      BY LegIsPending
    <3>2. submit(r) \/ handleRelay(r) => AsksStay /\ Sends
      BY <2>1, <3>1, EndAsks DEF submit, handleRelay, Sends
    <3>3. approveToken(r) => AsksStay /\ Sends
      BY <2>1, EndAsks DEF approveToken, Sends
    <3>. QED BY <1>6, <2>4, <3>2, <3>3 DEF OffChain
  <2>. QED BY <1>6, <2>2, <2>3, <2>4 DEF RunStep
<1>7. ASSUME NEW r \in Running, Fails(r) PROVE OffChain
  <2>1. r \in DOMAIN runs /\ Fail(r)
    BY <1>7 DEF Running, Fails, Rejects, WaitFails, RelayerUnheard
  <2>. QED BY <1>7, <2>1, EndAsks DEF Fails, OffChain, chainVars, Sends
<1>. QED BY <1>2, <1>3, <1>4, <1>5, <1>6, <1>7 DEF WalletNext

-----------------------------------------------------------------------------
(***************************************************************************)
(* Only rivals collide.                                                    *)
(***************************************************************************)
Collides(i, j) ==
    /\ j \in Landed \ Txs(txs[i].run)
    /\ IF txs[i].type \in Deposits THEN txs[j].type \in Deposits \cup {"approve"}
       ELSE txs[i].ins \cap txs[j].ins /= {}

\* Why the chain turns a transaction away,
LEMMA InvalidIs ==
    ASSUME NEW t, ~Valid(t)
    PROVE  /\ t.type # "approve"
           /\ t.type \in Deposits => ~(t.amount <= token.balance /\ t.amount <= token.allowance)
           /\ t.type \notin Deposits => ~(t.proved /\ t.ins \cap SpentAt(Len(log)) = {})
<1>1. "approve" \notin Deposits
  BY DEF Deposits
<1>2. t.type = "approve" => Valid(t)
  BY <1>1 DEF Valid
<1>3. t.type \in Deposits /\ t.amount <= token.balance /\ t.amount <= token.allowance => Valid(t)
  BY <1>1 DEF Valid
<1>4. t.type \notin Deposits /\ t.type # "approve" /\ t.proved
      /\ t.ins \cap SpentAt(Len(log)) = {} => Valid(t)
  BY <1>1 DEF Valid
<1>. QED BY <1>2, <1>3, <1>4

\* and that it is another run's doing.
LEMMA InvalidCollides ==
    ASSUME WalletInv, NEW i \in Pending, ~Valid(txs[i])
    PROVE  \E j : Collides(i, j)
<1>1. PICK r : r = txs[i].run
  OBVIOUS
<1>2. /\ TypesOK /\ ChainOK /\ LogOK /\ TxsOK /\ i \in DOMAIN txs /\ txs[i].status = "pending"
      /\ DOMAIN log = 1..Len(log) /\ \A k \in DOMAIN log : log[k] \in DOMAIN txs
  BY TypesAreBook DEF WalletInv, Pending, TypesOK
<1>3. txs[i].type # "approve" /\ r \in DOMAIN runs
  BY <1>1, <1>2, InvalidIs DEF TxsOK
<1>4. CASE txs[i].type \in Deposits
  <2>1. ~(txs[i].amount <= token.balance /\ txs[i].amount <= token.allowance)
    BY <1>4, InvalidIs
  <2>2. TxTokensOK(i, r)
    BY <1>1, <1>2, <1>3 DEF WalletInv, TokensOK, Txs
  <2>3. Rivals(r) # {}
    BY <1>2, <1>4, <2>1, <2>2 DEF TxTokensOK
  <2>. QED BY <1>1, <1>4, <2>3 DEF Rivals, Collides
<1>5. CASE txs[i].type \notin Deposits
  <2>1. ASSUME NEW j \in DOMAIN txs, txs[j].type # "approve", txs[j].run = r
        PROVE  \E l \in 1..runs[r].leg : txs[j].leg = l /\ LegTx(j, r, l)
    BY <1>2, <2>1 DEF TxsOK, IsLegTx
  <2>2. PICK l \in 1..runs[r].leg : txs[i].leg = l /\ LegTx(i, r, l)
    BY <1>1, <1>2, <1>3, <2>1
  <2>3. txs[i].proved /\ txs[i].ins = {n.leaf : n \in Inputs(r, l)}
    BY <2>2 DEF LegTx
  <2>4. txs[i].ins \cap SpentAt(Len(log)) # {}
    BY <1>5, <2>3, InvalidIs
  <2>5. PICK k \in 1..Len(log) : txs[i].ins \cap txs[log[k]].ins # {}
    BY <2>4 DEF SpentAt
  <2>6. PICK j : j = log[k]
    OBVIOUS
  <2>7. /\ j \in DOMAIN txs /\ txs[j].type # "approve" /\ txs[j].status = "landed"
        /\ j # i
    BY <1>2, <2>5, <2>6 DEF LogOK
  <2>8. txs[j].run # r
    <3>1. SUFFICES ASSUME txs[j].run = r PROVE FALSE
      OBVIOUS
    <3>2. PICK m \in 1..runs[r].leg : txs[j].leg = m /\ LegTx(j, r, m)
      BY <2>1, <2>7, <3>1
    <3>3. txs[j].ins = {n.leaf : n \in Inputs(r, m)}
      BY <3>2 DEF LegTx
    <3>4. m # l
      BY <1>1, <1>2, <2>2, <2>7, <3>1, <3>2 DEF TxsOK
    <3>. QED BY <1>2, <1>3, <2>3, <2>5, <2>6, <3>3, <3>4, InputsApart
  <2>. QED BY <1>1, <1>5, <2>5, <2>6, <2>7, <2>8 DEF Collides, Landed, Txs
<1>. QED BY <1>4, <1>5

\* What collided once has collided.
LEMMA CollisionStays ==
    ASSUME TxsGrow, NEW i \in DOMAIN txs, NEW j, Collides(i, j),
           TypesOK, Len(txs') \in Nat, DOMAIN txs' = 1..Len(txs')
    PROVE  Collides(i, j)'
<1>1. DOMAIN txs = 1..Len(txs) /\ Len(txs) \in Nat /\ Len(txs) <= Len(txs')
  BY DEF TypesOK, TxsGrow
<1>2. j \in DOMAIN txs /\ txs[j].status = "landed" /\ txs[j].run # txs[i].run
  BY DEF Collides, Landed, Txs
<1>3. /\ txs'[j].status = "landed" /\ txs'[j].run = txs[j].run /\ txs'[j].type = txs[j].type
      /\ txs'[j].ins = txs[j].ins
  BY <1>2 DEF TxsGrow
<1>4. txs'[i].run = txs[i].run /\ txs'[i].type = txs[i].type /\ txs'[i].ins = txs[i].ins
  BY DEF TxsGrow
<1>5. j \in DOMAIN txs'
  BY <1>1, <1>2
<1>. QED BY <1>2, <1>3, <1>4, <1>5 DEF Collides, Landed, Txs

RivalsCollide == \A i \in DOMAIN txs : txs[i].status = "reverted" => \E j : Collides(i, j)

\* A transaction that is sent is the last.
LEMMA SendsIs ==
    ASSUME TypesOK, Sends
    PROVE  /\ Len(txs') \in Nat /\ DOMAIN txs' = 1..Len(txs') /\ TxsGrow
           /\ \A i \in DOMAIN txs' : IF i \in DOMAIN txs THEN txs'[i] = txs[i]
                                                         ELSE txs'[i].status = "pending"
<1>1. DOMAIN txs = 1..Len(txs) /\ Len(txs) \in Nat
  BY DEF TypesOK
<1>2. CASE txs' = txs
  BY <1>1, <1>2 DEF TxsGrow
<1>3. CASE \E tx : tx.status = "pending" /\ txs' = Append(txs, tx)
  <2>1. PICK tx : tx.status = "pending" /\ txs' = Append(txs, tx)
    BY <1>3
  <2>2. PICK n : n = Len(txs) + 1
    OBVIOUS
  <2>3. /\ DOMAIN txs' = 1..n /\ Len(txs') = n /\ txs'[n] = tx /\ n \in Nat
        /\ \A i \in DOMAIN txs : txs'[i] = txs[i]
    BY <1>1, <2>1, <2>2 DEF TypesOK
  <2>. QED BY <1>1, <2>1, <2>2, <2>3 DEF TxsGrow
<1>. QED BY <1>2, <1>3 DEF Sends

\* Every step keeps what was turned away explained.
LEMMA RivalsCollideNext ==
    ASSUME WalletInv, RivalsCollide, [WalletNext]_walletVars
    PROVE  RivalsCollide'
<1>1. TypesOK /\ DOMAIN txs = 1..Len(txs) /\ Len(txs) \in Nat
  BY TypesAreBook DEF TypesOK
<1>2. CASE OffChain
  <2>1. /\ Len(txs') \in Nat /\ DOMAIN txs' = 1..Len(txs') /\ TxsGrow
        /\ \A i \in DOMAIN txs' : IF i \in DOMAIN txs THEN txs'[i] = txs[i]
                                                      ELSE txs'[i].status = "pending"
    BY <1>1, <1>2, SendsIs DEF OffChain
  <2>2. ASSUME NEW i \in DOMAIN txs', txs'[i].status = "reverted" PROVE \E j : Collides(i, j)'
    <3>1. i \in DOMAIN txs /\ txs[i].status = "reverted"
      BY <2>1, <2>2
    <3>2. PICK j : Collides(i, j)
      BY <3>1 DEF RivalsCollide
    <3>3. Collides(i, j)'
      BY <1>1, <2>1, <3>1, <3>2, CollisionStays
    <3>. QED BY <3>3
  <2>. QED BY <2>2 DEF RivalsCollide
<1>3. ASSUME NEW i \in Pending, Land(i) \/ Revert(i) PROVE RivalsCollide'
  <2>1. PICK s : Settles(i, s) /\ (s = "reverted" => ~Valid(txs[i]))
    BY <1>3 DEF Land, Revert, Settles
  <2>2. /\ i \in DOMAIN txs /\ DOMAIN txs' = DOMAIN txs /\ Len(txs') = Len(txs) /\ TxsGrow
        /\ txs'[i].status = s /\ \A j \in DOMAIN txs : j # i => txs'[j] = txs[j]
    BY <1>1, <2>1, SettledIs
  <2>3. ASSUME NEW a \in DOMAIN txs', txs'[a].status = "reverted" PROVE \E j : Collides(a, j)'
    <3>1. \E j : Collides(a, j)
      <4>1. CASE a = i
        BY <2>1, <2>2, <2>3, <4>1, InvalidCollides
      <4>2. CASE a # i
        BY <2>2, <2>3, <4>2 DEF RivalsCollide
      <4>. QED BY <4>1, <4>2
    <3>2. PICK j : Collides(a, j)
      BY <3>1
    <3>3. Collides(a, j)'
      BY <1>1, <2>2, <3>2, CollisionStays
    <3>. QED BY <3>3
  <2>. QED BY <2>3 DEF RivalsCollide
<1>. QED BY <1>2, <1>3, StepIs

\* The property as the invariant has it.
LEMMA RivalsCollideIs ==
    RivalsCollide => OnlyRivalsCollide
BY DEF RivalsCollide, Collides, OnlyRivalsCollide

\* A transaction that the chain turned away lost to one of another run: left alone, what a
\* wallet proves and sends (ops/driver.ts, connection/writes.ts) is always taken.
THEOREM WalletOnlyRivalsCollide ==
    WalletSpec => []OnlyRivalsCollide
<1>1. WalletInit => RivalsCollide
  BY DEF WalletInit, RivalsCollide
<1>2. WalletInv /\ RivalsCollide /\ [WalletNext]_walletVars => RivalsCollide'
  BY RivalsCollideNext
<1>. QED BY <1>1, <1>2, RivalsCollideIs, WalletInvariant, PTL DEF WalletSpec

-----------------------------------------------------------------------------
(***************************************************************************)
(* What a transaction that lands does to the account's notes.              *)
(***************************************************************************)
Wealth == Total(NotesAt(Len(log)))

\* What the account's notes are worth, of the chain.
LEMMA WealthIs ==
    BookTypes => /\ Wealth = Total(Coins(purse, Book, Len(Book)))
                 /\ Len(Book) = Len(log) /\ Book \in Seq(Entry)
<1>1. SUFFICES ASSUME BookTypes
      PROVE  /\ Wealth = Total(Coins(purse, Book, Len(Book)))
             /\ Len(Book) = Len(log) /\ Book \in Seq(Entry)
  OBVIOUS
<1>2. Len(log) \in 0..Len(log)
  BY <1>1 DEF BookTypes
<1>. QED BY <1>1, <1>2, NotesAre, BookIs DEF Wealth

\* No transaction on the chain spent a leaf that is not there.
LEMMA BookIsOK ==
    ChainOK => BookOK(purse, Book)
<1>1. SUFFICES ASSUME ChainOK PROVE BookOK(purse, Book)
  OBVIOUS
<1>2. /\ BookTypes /\ Book \in Seq(Entry) /\ Len(Book) = Len(log) /\ Len(log) \in Nat
      /\ \A k \in 1..Len(log) : Book[k].ins = txs[log[k]].ins /\ log[k] \in DOMAIN txs
  BY <1>1, BookIs DEF ChainOK, BookTypes
<1>3. Len(log) \in 0..Len(log)
  BY <1>2
<1>4. Leaves(Len(log)) = Ground(purse, Book, Len(Book))
  BY <1>2, <1>3, LeavesAre
<1>5. ASSUME NEW k \in 1..Len(log), NEW x \in txs[log[k]].ins PROVE x \in 1..Len(Leaves(Len(log)))
  <2>1. PICK j : j = log[k]
    OBVIOUS
  <2>2. j \in DOMAIN txs /\ txs[j].type # "approve"
    <3>1. DOMAIN log = 1..Len(log) /\ LogOK
      BY <1>1 DEF ChainOK, BookTypes
    <3>. QED BY <1>2, <2>1, <3>1 DEF LogOK
  <2>3. IsLegTx(j)
    BY <1>1, <2>2 DEF ChainOK, TxsOK
  <2>4. PICK r \in DOMAIN runs : \E l \in 1..runs[r].leg : LegTx(j, r, l)
    BY <2>3 DEF IsLegTx
  <2>5. PICK l \in 1..runs[r].leg : LegTx(j, r, l)
    BY <2>4
  <2>6. txs[j].ins = {n.leaf : n \in Inputs(r, l)}
    BY <2>5 DEF LegTx
  <2>7. \A n \in Inputs(r, l) : IsThere(n, Len(log))
    BY <1>1, InputsAre
  <2>. QED BY <1>5, <2>1, <2>6, <2>7 DEF IsThere
<1>6. Gone(Book, Len(Book)) \subseteq 1..Len(Leaves(Len(log)))
  BY <1>2, <1>5 DEF Gone
<1>. QED BY <1>2, <1>4, <1>6 DEF BookOK

\* What the account gets of a transaction's outputs.
Gets(type, v, rest) == CASE type = "merge" -> v + rest
                         [] type \in Spending -> rest
                         [] type = "deposit" -> v
                         [] type = "depositPriv" -> 0

\* What a circuit's outputs are worth to the account.
LEMMA MadeGets ==
    ASSUME NEW n \in Nat, NEW type \in Kinds \cup {"merge"}, NEW v \in Nat, NEW rest \in Int,
           type \notin Deposits => rest \in Nat
    PROVE  Total(Made(n, OutsOf(type, v, rest))) = Gets(type, v, rest)
<1>1. CASE type \in {"deposit", "depositPriv"}
  <2>1. PICK paid, own, none : paid = Out(v, FALSE) /\ own = Out(v, TRUE) /\ none = Out(0, TRUE)
    OBVIOUS
  <2>2. paid \in OutRec /\ own \in OutRec /\ none \in OutRec
        /\ Mine(paid) = 0 /\ Mine(own) = v /\ Mine(none) = 0
    BY <2>1, OutIs DEF Mine
  <2>3. /\ OutsOf("deposit", v, rest) = <<own, none>>
        /\ OutsOf("depositPriv", v, rest) = <<paid, none>>
    BY <2>1 DEF OutsOf, depositOuts, depositPrivOuts
  <2>4. Total(Made(n, <<own, none>>)) = v /\ Total(Made(n, <<paid, none>>)) = 0
    BY <2>2, MadeTwo
  <2>. QED BY <1>1, <2>3, <2>4 DEF Gets, Spending
<1>2. CASE type \notin {"deposit", "depositPriv"}
  <2>1. type \in {"merge", "transfer", "withdraw", "disburse"} /\ rest \in Nat
    BY <1>2 DEF Kinds, Spending, Deposits
  <2>2. PICK paid, own, change : paid = Out(v, FALSE) /\ own = Out(v, TRUE) /\ change = Out(rest, TRUE)
    OBVIOUS
  <2>3. paid \in OutRec /\ own \in OutRec /\ change \in OutRec
        /\ Mine(paid) = 0 /\ Mine(own) = v /\ Mine(change) = rest
    BY <2>1, <2>2, OutIs DEF Mine
  <2>4. /\ OutsOf("merge", v, rest) = <<own, change>>
        /\ OutsOf("transfer", v, rest) = <<paid, change>>
        /\ OutsOf("withdraw", v, rest) = <<change>>
    BY <2>2 DEF OutsOf, MergedNote, payeeOuts, withdrawOuts
  <2>5. /\ Total(Made(n, <<own, change>>)) = v + rest
        /\ Total(Made(n, <<paid, change>>)) = rest
        /\ Total(Made(n, <<change>>)) = rest
    BY <2>1, <2>3, MadeTwo, MadeOne
  <2>6. Total(Made(n, OutsOf("disburse", v, rest))) = rest
    <3>1. PICK pad : pad = Out(rest, rest > 0)
      BY Zenon
    <3>2. pad \in OutRec /\ pad.value = rest
      BY <2>1, <3>1 DEF Out, OutRec
    <3>3. Mine(pad) = rest
      <4>1. pad.mine = (rest > 0)
        BY <3>1, Zenon DEF Out
      <4>2. CASE rest > 0
        <5>1. pad.mine
          BY <4>1, <4>2, Zenon
        <5>. QED BY <3>2, <5>1 DEF Mine
      <4>3. CASE ~(rest > 0)
        <5>1. rest = 0
          BY <2>1, <4>3
        <5>. QED BY <3>2, <5>1 DEF Mine
      <4>. QED BY <4>2, <4>3
    <3>4. OutsOf("disburse", v, rest) = disburseOuts(v, rest)
      BY DEF OutsOf
    <3>5. OutsOf("disburse", v, rest) = <<paid, pad>>
      BY <2>2, <3>1, <3>4, Zenon DEF disburseOuts
    <3>. QED BY <2>1, <2>3, <3>2, <3>3, <3>5, MadeTwo
  <2>. QED BY <2>1, <2>4, <2>5, <2>6 DEF Gets, Spending
<1>. QED BY <1>1, <1>2

\* A transaction that lands moves the account's notes by what it pays and makes.
LEMMA LandMoves ==
    ASSUME WalletInv, NEW i \in Pending, Land(i), txs[i].type # "approve",
           NEW type, type = txs[i].type, NEW v, v = txs[i].amount
    PROVE  /\ v \in Nat /\ Wealth \in Nat /\ Wealth' \in Nat
           /\ type \in Kinds \cup {"merge"}
           /\ type \in Spending => Wealth' + v = Wealth
           /\ type = "deposit" => Wealth' = Wealth + v
           /\ type \in {"merge", "depositPriv"} => Wealth' = Wealth
<1>1. PICK L : L = Len(log)
  OBVIOUS
<1>2. /\ TypesOK /\ BookTypes /\ ChainOK /\ L \in Nat /\ i \in DOMAIN txs
      /\ purse \in Seq(Nat)
  BY <1>1, TypesAreBook DEF Pending, TypesOK
<1>3. PICK r \in DOMAIN runs : \E l \in 1..runs[r].leg : LegTx(i, r, l)
  BY <1>2 DEF ChainOK, TxsOK, IsLegTx
<1>4. PICK l \in 1..runs[r].leg : LegTx(i, r, l)
  BY <1>3
<1>5. PICK N, S : N = Inputs(r, l) /\ S = runs[r].plan[l].ins
  OBVIOUS
<1>6. /\ N \in Pile /\ Total(N) = Total(S) /\ \A n \in N : IsThere(n, L)
      /\ runs[r].plan[l].value \in Nat
  BY <1>1, <1>2, <1>4, <1>5, InputsAre, LegIs
<1>7. PICK rest : rest = Total(N) - v
  OBVIOUS
<1>8. /\ type = TypeOf(r, l) /\ v = runs[r].plan[l].value /\ v \in Nat
      /\ txs[i].ins = {n.leaf : n \in N} /\ txs[i].outs = OutsOf(type, v, rest)
  BY <1>4, <1>5, <1>6, <1>7 DEF LegTx
<1>9. runs[r] \in RunRec /\ runs[r].kind \in Kinds /\ runs[r].leg \in Nat
  <2>1. runs[r] \in RunRec
    BY <1>2, TypesAreBook
  <2>. QED BY <2>1 DEF RunRec
<1>10. type \in Kinds \cup {"merge"} /\ "merge" \notin Kinds
  BY <1>8, <1>9 DEF TypeOf, Kinds, Spending, Deposits
<1>11. PlanFits(runs[r].plan, runs[r].notes, runs[r].kind, runs[r].amount)
       /\ runs[r].leg <= Len(runs[r].plan)
  BY <1>2, RunPlanFits DEF ChainOK, MergedOK
<1>12. l \in 1..Len(runs[r].plan) /\ Len(runs[r].plan) \in Nat
  <2>1. Len(runs[r].plan) \in Nat
    BY <1>11 DEF PlanFits
  <2>. QED BY <1>9, <1>11, <2>1
<1>13. Total(N) \in Nat /\ rest \in Int
  BY <1>6, <1>7, <1>8, TotalNat DEF Pile
<1>14. /\ type = "merge" => rest = 0
       /\ type \in Spending => rest \in Nat
       /\ type \in Deposits => N = {}
  <2>1. CASE runs[r].plan[l].merge
    <3>1. Total(S) = v
      BY <1>5, <1>8, <1>11, <1>12, <2>1 DEF PlanFits
    <3>2. type = "merge"
      BY <1>8, <2>1 DEF TypeOf
    <3>. QED BY <1>6, <1>7, <1>8, <1>10, <3>1, <3>2 DEF Kinds
  <2>2. CASE ~runs[r].plan[l].merge
    <3>1. l = Len(runs[r].plan) /\ type = runs[r].kind
      BY <1>8, <1>11, <1>12, <2>2 DEF PlanFits, TypeOf
    <3>2. type \in Spending => Total(S) >= v
      BY <1>5, <1>8, <1>11, <3>1 DEF PlanFits
    <3>3. type \in Deposits => S = {}
      BY <1>5, <1>11, <1>12, <3>1 DEF PlanFits
    <3>4. S = {} => N = {}
      BY <1>5 DEF Inputs
    <3>. QED BY <1>6, <1>7, <1>8, <1>9, <1>10, <1>13, <3>1, <3>2, <3>3, <3>4
  <2>. QED BY <2>1, <2>2
<1>15. type \notin Deposits => rest \in Nat
  BY <1>10, <1>14 DEF Kinds
<1>16. PICK e, C, G : /\ e = EntryOf(i) /\ C = Coins(purse, Book, Len(Book))
                      /\ G = Len(Ground(purse, Book, Len(Book)))
  OBVIOUS
<1>17. /\ Wealth = Total(C) /\ Len(Book) = L /\ Book \in Seq(Entry) /\ BookOK(purse, Book)
       /\ C \in Purse
  BY <1>1, <1>2, <1>16, WealthIs, BookIsOK, CoinsArePurse
<1>18. WalletInv'
  BY LandPreserves
<1>19. BookTypes' /\ purse' = purse /\ log' = Append(log, i) /\ TxsGrow
  <2>1. TypesOK' /\ Settles(i, "landed")
    BY <1>18 DEF WalletInv, Land, Settles
  <2>. QED BY <1>2, <2>1, TypesAreBookNext, SettledIs DEF Land, Settles
<1>20. Book' = Append(Book, e) /\ e \in Entry /\ Len(Book') = L + 1
  <2>1. Book' = Append(Book, e) /\ e \in Entry
    BY <1>2, <1>16, <1>19, ChainAppends
  <2>. QED BY <1>2, <1>17, <2>1
<1>21. Wealth' = Total(Coins(purse, Append(Book, e), L + 1))
  <2>1. (BookTypes => Wealth = Total(Coins(purse, Book, Len(Book))))'
    BY WealthIs, PTL
  <2>. QED BY <1>19, <1>20, <2>1
<1>22. e.ins = {n.leaf : n \in N} /\ e.outs = OutsOf(type, v, rest)
  BY <1>8, <1>16 DEF EntryOf
<1>23. L \in 0..L /\ C = NotesAt(L) /\ G = Len(Leaves(L))
  BY <1>1, <1>2, <1>16, <1>17, NotesAre, LeavesAre
<1>24. \A n : n \in C <=> IsThere(n, L) /\ n.leaf \notin SpentAt(L)
  BY <1>1, <1>2, <1>23, NotesAreThere
<1>25. \A n \in N : n.leaf \notin SpentAt(L)
  <2>1. CASE type \in Deposits
    BY <1>14, <2>1
  <2>2. CASE type \notin Deposits
    <3>1. Valid(txs[i]) /\ type \notin Deposits \cup {"approve"}
      BY <2>2 DEF Land
    <3>2. txs[i].ins \cap SpentAt(L) = {}
      BY <1>1, <3>1, ValidIs
    <3>. QED BY <1>8, <3>2
  <2>. QED BY <2>1, <2>2
<1>26. N \subseteq C
  BY <1>6, <1>24, <1>25
<1>27. ASSUME NEW c \in C PROVE c.leaf \in e.ins <=> c \in N
  <2>1. ASSUME c.leaf \in e.ins PROVE c \in N
    <3>1. PICK n \in N : n.leaf = c.leaf
      BY <1>22, <2>1
    <3>2. n \in C /\ C \in Pile
      BY <1>17, <1>26, <3>1 DEF Purse
    <3>3. n = c
      BY <3>1, <3>2 DEF Pile, Apart
    <3>. QED BY <3>1, <3>3
  <2>. QED BY <1>22, <2>1
<1>28. e.ins \subseteq 1..G
  BY <1>6, <1>22, <1>23 DEF IsThere
<1>29. Wealth' + Total(N) = Wealth + Total(Made(G, e.outs))
       /\ Total(Coins(purse, Append(Book, e), L + 1)) \in Nat
  <2>1. Total(Coins(purse, Append(Book, e), Len(Book) + 1)) + Total(N)
           = Total(C) + Total(Made(G, e.outs))
    <3>1. \A c \in Coins(purse, Book, Len(Book)) : c.leaf \in e.ins <=> c \in N
      BY <1>16, <1>27
    <3>2. N \subseteq Coins(purse, Book, Len(Book))
          /\ e.ins \subseteq 1..Len(Ground(purse, Book, Len(Book)))
      BY <1>16, <1>26, <1>28
    <3>3. /\ purse \in Seq(Nat) /\ BookOK(purse, Book) /\ e \in Entry
      BY <1>2, <1>17, <1>20
    <3>4. PICK D, made : /\ D = Coins(purse, Append(Book, e), Len(Book) + 1)
                         /\ made = Made(Len(Ground(purse, Book, Len(Book))), e.outs)
      OBVIOUS
    <3>5. N \subseteq C /\ C = Coins(purse, Book, Len(Book))
      BY <1>16, <1>26
    <3>6. Total(D) + Total(N) = Total(C) + Total(made)
      BY <1>27, <3>2, <3>3, <3>4, <3>5, TotalAfter
    <3>. QED BY <1>16, <3>4, <3>6
  <2>2. Coins(purse, Append(Book, e), L + 1) \in Purse
    <3>1. Append(Book, e) \in Seq(Entry) /\ Len(Append(Book, e)) = L + 1
      BY <1>17, <1>20
    <3>2. L + 1 \in 0..(L + 1)
      BY <1>2
    <3>. QED BY <1>2, <3>1, <3>2, CoinsArePurse
  <2>3. Total(Coins(purse, Append(Book, e), L + 1)) \in Nat
    BY <2>2, TotalNat DEF Purse, Pile
  <2>. QED BY <1>17, <1>21, <2>1, <2>3
<1>30. G \in Nat
  <2>1. Len(Leaves(L)) \in Nat
    BY <1>1, <1>2, <1>23, LeavesGrow
  <2>. QED BY <1>23, <2>1
<1>31. Total(Made(G, e.outs)) = Gets(type, v, rest)
  BY <1>8, <1>10, <1>13, <1>15, <1>22, <1>30, MadeGets
<1>32. Wealth \in Nat /\ Wealth' \in Nat
  BY <1>17, <1>21, <1>29, TotalNat DEF Purse, Pile
<1>33. PICK after, before, total :
          /\ after = Wealth' /\ before = Wealth /\ total = Total(N)
          /\ after \in Nat /\ before \in Nat /\ total \in Nat /\ rest = total - v
  BY <1>7, <1>13, <1>32
<1>38. ASSUME type \in Spending PROVE Wealth' + v = Wealth
  <2>1. Gets(type, v, rest) = rest
    BY <1>38 DEF Gets, Spending
  <2>2. after + total = before + rest
    BY <1>29, <1>31, <1>33, <2>1
  <2>. QED BY <1>8, <1>33, <2>2
<1>34. ASSUME type = "merge" PROVE Wealth' = Wealth
  <2>1. Gets(type, v, rest) = v + rest
    BY <1>34 DEF Gets, Spending
  <2>2. after + total = before + (v + rest)
    BY <1>29, <1>31, <1>33, <2>1
  <2>. QED BY <1>8, <1>14, <1>33, <1>34, <2>2
<1>35. ASSUME type \in Deposits PROVE Total(N) = 0
  BY <1>14, <1>35, TotalNat
<1>36. ASSUME type = "deposit" PROVE Wealth' = Wealth + v
  <2>1. Gets(type, v, rest) = v
    BY <1>36 DEF Gets, Spending
  <2>. QED BY <1>8, <1>29, <1>31, <1>32, <1>35, <1>36, <2>1 DEF Deposits
<1>37. ASSUME type = "depositPriv" PROVE Wealth' = Wealth
  <2>1. Gets(type, v, rest) = 0
    BY <1>37 DEF Gets, Spending
  <2>. QED BY <1>29, <1>31, <1>32, <1>35, <1>37, <2>1 DEF Deposits
<1>. QED BY <1>8, <1>10, <1>32, <1>34, <1>36, <1>37, <1>38

-----------------------------------------------------------------------------
(***************************************************************************)
(* What the runs were asked and did.                                       *)
(***************************************************************************)
Ran(r) == \E i \in Txs(r) : i \in Landed /\ txs[i].type = runs[r].kind

DoneOf(kinds) == {r \in DOMAIN runs : runs[r].kind \in kinds /\ Ran(r)}

Amounts == [r \in DOMAIN runs |-> runs[r].amount]

AskedOf(kinds) == SumFunctionOnSet(Amounts, DoneOf(kinds))

Balances ==
    /\ Wealth = SumFunction(purse) + AskedOf({"deposit"}) - AskedOf({"transfer", "withdraw", "disburse"})
    /\ token.balance = Tokens - AskedOf(Deposits)

\* The property as the invariant has it.
LEMMA BalancesIs ==
    BalanceMovesAsAsked <=> Balances
BY DEF BalanceMovesAsAsked, Balances, AskedOf, Amounts, DoneOf, Ran, Wealth

\* A sum over runs depends on what they were asked.
LEMMA SumSame ==
    ASSUME NEW D, NEW w \in [D -> Nat], NEW S \in Parts(D),
           NEW E, NEW v \in [E -> Nat], S \subseteq E, \A x \in S : v[x] = w[x]
    PROVE  SumFunctionOnSet(w, S) = SumFunctionOnSet(v, S)
<1>1. PICK h : h = [x \in S |-> x]
  OBVIOUS
<1>2. Matches(h, w, S, v, S)
  BY <1>1 DEF Matches
<1>3. S \in Parts(E)
  BY DEF Parts
<1>. QED BY <1>2, <1>3, SumOnImage

\* What each run was asked, by run,
LEMMA AmountsAre ==
    TypesOK => /\ Amounts \in [DOMAIN runs -> Nat]
               /\ \A r \in DOMAIN runs : Amounts[r] = runs[r].amount /\ runs[r].amount \in Nat
<1>1. SUFFICES ASSUME TypesOK
      PROVE  /\ Amounts \in [DOMAIN runs -> Nat]
             /\ \A r \in DOMAIN runs : Amounts[r] = runs[r].amount /\ runs[r].amount \in Nat
  OBVIOUS
<1>2. ASSUME NEW r \in DOMAIN runs PROVE runs[r].amount \in Nat
  <2>1. runs[r] \in RunRec
    BY <1>1, RunIs
  <2>. QED BY <2>1 DEF RunRec
<1>. QED BY <1>2 DEF Amounts

\* and in all.
LEMMA AskedIs ==
    ASSUME TypesOK, NEW kinds
    PROVE  DoneOf(kinds) \in Parts(DOMAIN runs) /\ AskedOf(kinds) \in Nat
<1>1. DOMAIN runs = 1..Len(runs) /\ Len(runs) \in Nat
  BY DEF TypesOK
<1>2. IsFiniteSet(DOMAIN runs)
  BY <1>1, FS_Interval
<1>3. DoneOf(kinds) \in Parts(DOMAIN runs)
  <2>1. DoneOf(kinds) \subseteq DOMAIN runs
    BY DEF DoneOf
  <2>. QED BY <1>2, <2>1, FS_Subset DEF Parts
<1>4. AskedOf(kinds) \in Nat
  BY <1>3, AmountsAre, SumOnNat DEF AskedOf
<1>. QED BY <1>3, <1>4

\* A run is done when a transaction of its own kind landed, and by nothing else.
LEMMA RanStays ==
    ASSUME WalletInv, TypesOK', AsksStay, TxsGrow, Landed' = Landed,
           Len(txs') \in Nat, DOMAIN txs' = 1..Len(txs'), NEW kinds
    PROVE  DoneOf(kinds)' = DoneOf(kinds) /\ AskedOf(kinds)' = AskedOf(kinds)
<1>1. /\ TypesOK /\ TxsOK /\ DOMAIN txs = 1..Len(txs) /\ Len(txs) \in Nat
      /\ Landed \subseteq DOMAIN txs /\ DOMAIN txs \subseteq DOMAIN txs'
  BY DEF WalletInv, TypesOK, Landed, TxsGrow
<1>2. \A i \in DOMAIN txs : txs'[i].run = txs[i].run /\ txs'[i].type = txs[i].type
                            /\ txs[i].run \in DOMAIN runs
  BY <1>1 DEF TxsGrow, TxsOK
<1>3. \A r \in DOMAIN runs : r \in DOMAIN runs' /\ runs'[r].kind = runs[r].kind
  BY DEF AsksStay
<1>4. ASSUME NEW r \in DOMAIN runs PROVE Ran(r)' <=> Ran(r)
  BY <1>1, <1>2, <1>3 DEF Ran, Txs
<1>5. ASSUME NEW r \in DOMAIN runs', Ran(r)' PROVE r \in DOMAIN runs
  BY <1>1, <1>2, <1>5 DEF Ran, Txs
<1>6. DoneOf(kinds)' = DoneOf(kinds)
  BY <1>3, <1>4, <1>5 DEF DoneOf
<1>7. /\ Amounts' \in [DOMAIN runs' -> Nat]
      /\ \A r \in DOMAIN runs' : Amounts'[r] = runs'[r].amount
      /\ Amounts \in [DOMAIN runs -> Nat] /\ DoneOf(kinds) \in Parts(DOMAIN runs)
      /\ \A r \in DOMAIN runs : Amounts[r] = runs[r].amount
  <2>1. (TypesOK => /\ Amounts \in [DOMAIN runs -> Nat]
                    /\ \A r \in DOMAIN runs : Amounts[r] = runs[r].amount /\ runs[r].amount \in Nat)'
    BY AmountsAre, PTL
  <2>. QED BY <1>1, <2>1, AmountsAre, AskedIs
<1>8. DoneOf(kinds) \subseteq DOMAIN runs
  BY DEF DoneOf
<1>9. \A r \in DoneOf(kinds) : Amounts'[r] = Amounts[r]
  BY <1>3, <1>7, <1>8 DEF AsksStay
<1>10. DoneOf(kinds) \subseteq DOMAIN runs'
  BY <1>3, <1>8
<1>11. SumFunctionOnSet(Amounts, DoneOf(kinds)) = SumFunctionOnSet(Amounts', DoneOf(kinds))
  BY <1>7, <1>9, <1>10, SumSame
<1>. QED BY <1>6, <1>11 DEF AskedOf

\* A run that is paid is one run more.
LEMMA RanLands ==
    ASSUME WalletInv, NEW i \in Pending, Land(i), NEW r, r = txs[i].run, NEW kinds
    PROVE  /\ r \in DOMAIN runs /\ runs[r].amount \in Nat
           /\ txs[i].type = runs[r].kind => txs[i].amount = runs[r].amount
           /\ AskedOf(kinds)' = IF txs[i].type = runs[r].kind /\ runs[r].kind \in kinds
                                THEN AskedOf(kinds) + runs[r].amount ELSE AskedOf(kinds)
<1>1. TypesOK /\ TxsOK /\ ChainOK /\ i \in DOMAIN txs /\ r \in DOMAIN runs /\ Settles(i, "landed")
      /\ runs' = runs /\ runs[r] \in RunRec
  <2>1. TypesOK /\ TxsOK /\ ChainOK /\ i \in DOMAIN txs /\ r \in DOMAIN runs /\ Settles(i, "landed")
        /\ runs' = runs
    BY TypesAreBook DEF WalletInv, Pending, TxsOK, Land, Settles
  <2>. QED BY <2>1, RunIs
<1>2. /\ txs[i].status = "pending" /\ DOMAIN txs' = DOMAIN txs /\ txs'[i].status = "landed"
      /\ \A j \in DOMAIN txs : j # i => txs'[j] = txs[j]
      /\ \A j \in DOMAIN txs : /\ txs'[j].run = txs[j].run /\ txs'[j].leg = txs[j].leg
                               /\ txs'[j].type = txs[j].type
  BY <1>1, SettledIs
<1>3. Landed' = Landed \cup {i} /\ i \notin Landed /\ Landed \subseteq DOMAIN txs
  <2>1. \A j \in DOMAIN txs : txs'[j].status = "landed" <=> txs[j].status = "landed" \/ j = i
    BY <1>2
  <2>. QED BY <1>1, <1>2, <2>1 DEF Landed
<1>4. \A q : Txs(q)' = Txs(q)
  BY <1>2 DEF Txs
<1>5. PICK kind : kind = runs[r].kind
  OBVIOUS
<1>6. kind \in Kinds /\ "approve" \notin Kinds /\ "merge" \notin Kinds /\ runs[r].leg \in Nat
      /\ runs[r].amount \in Nat
  BY <1>1, <1>5 DEF RunRec, Kinds, Spending, Deposits
\* The transaction of the run's own kind is the one of its last leg.
<1>7. PICK plan, last : plan = runs[r].plan /\ last = Len(plan)
  OBVIOUS
<1>8. /\ PlanFits(plan, runs[r].notes, kind, runs[r].amount)
      /\ runs[r].leg <= last /\ last \in Nat
  <2>1. PlanMade(r) /\ MergedOK(r)
    BY <1>1 DEF WalletInv
  <2>2. PlanFits(plan, runs[r].notes, kind, runs[r].amount)
    BY <1>1, <1>5, <1>7, <2>1, RunPlanFits
  <2>3. plan \in Seq(PlanLeg)
    BY <2>2 DEF PlanFits
  <2>4. runs[r].leg <= Len(plan)
    BY <1>7, <2>1 DEF MergedOK
  <2>. QED BY <1>7, <2>2, <2>3, <2>4
<1>9. ASSUME NEW j \in DOMAIN txs, txs[j].run = r, txs[j].type = kind
      PROVE  txs[j].leg = last /\ last # 0 /\ txs[j].amount = runs[r].amount
  <2>1. txs[j].type # "approve"
    BY <1>6, <1>9
  <2>2. PICK l \in 1..runs[r].leg : txs[j].leg = l /\ LegTx(j, r, l)
    BY <1>1, <1>9, <2>1 DEF TxsOK, IsLegTx
  <2>3. ~plan[l].merge /\ txs[j].amount = plan[l].value
    BY <1>6, <1>7, <1>9, <2>2 DEF LegTx, TypeOf
  <2>4. l \in 1..last
    BY <1>6, <1>8
  <2>5. l = last
    BY <1>7, <1>8, <2>3, <2>4 DEF PlanFits
  <2>6. plan[last].value = runs[r].amount /\ last >= 1
    BY <1>7, <1>8 DEF PlanFits
  <2>. QED BY <1>8, <2>2, <2>3, <2>5, <2>6
<1>10. ASSUME NEW q \in DOMAIN runs, ~(q = r /\ txs[i].type = kind) PROVE Ran(q)' <=> Ran(q)
  <2>1. i \in Txs(q) => txs[i].type # runs[q].kind
    BY <1>5, <1>10 DEF Txs
  <2>2. \A j \in Txs(q) : j \in DOMAIN txs
    BY DEF Txs
  <2>. QED BY <1>1, <1>2, <1>3, <1>4, <2>1, <2>2 DEF Ran
<1>11. ASSUME txs[i].type = kind PROVE Ran(r)' /\ ~Ran(r)
  <2>1. i \in Txs(r)
    BY <1>1 DEF Txs
  <2>2. Ran(r)'
    BY <1>1, <1>2, <1>3, <1>4, <1>5, <1>11, <2>1 DEF Ran
  <2>3. ASSUME NEW j \in Txs(r), j \in Landed, txs[j].type = kind PROVE FALSE
    <3>1. j \in DOMAIN txs /\ txs[j].run = r
      BY DEF Txs
    <3>2. txs[j].leg = txs[i].leg /\ txs[i].leg # 0
      BY <1>1, <1>9, <1>11, <2>3, <3>1
    <3>3. j = i
      BY <1>1, <3>1, <3>2 DEF TxsOK
    <3>. QED BY <1>3, <2>3, <3>3
  <2>. QED BY <1>5, <2>2, <2>3 DEF Ran
<1>12. /\ Amounts \in [DOMAIN runs -> Nat] /\ DoneOf(kinds) \in Parts(DOMAIN runs)
       /\ Amounts[r] = runs[r].amount /\ Amounts' = Amounts /\ AskedOf(kinds) \in Nat
  BY <1>1, AmountsAre, AskedIs DEF Amounts
<1>13. CASE txs[i].type = kind /\ kind \in kinds
  <2>1. DoneOf(kinds)' = DoneOf(kinds) \cup {r} /\ r \notin DoneOf(kinds)
    BY <1>1, <1>5, <1>10, <1>11, <1>13 DEF DoneOf
  <2>2. SumFunctionOnSet(Amounts, DoneOf(kinds) \cup {r})
           = Amounts[r] + SumFunctionOnSet(Amounts, DoneOf(kinds))
    BY <1>1, <1>12, <2>1, SumOnAdd
  <2>3. AskedOf(kinds)' = runs[r].amount + AskedOf(kinds)
    BY <1>12, <2>1, <2>2 DEF AskedOf
  <2>. QED BY <1>1, <1>5, <1>6, <1>9, <1>12, <1>13, <2>3
<1>14. CASE ~(txs[i].type = kind /\ kind \in kinds)
  <2>1. DoneOf(kinds)' = DoneOf(kinds)
    BY <1>1, <1>5, <1>10, <1>14 DEF DoneOf
  <2>2. AskedOf(kinds)' = AskedOf(kinds)
    BY <1>12, <2>1 DEF AskedOf
  <2>. QED BY <1>1, <1>5, <1>6, <1>9, <1>14, <2>2
<1>. QED BY <1>13, <1>14

\* A step off the chain moves nothing.
LEMMA OffChainKeepsWealth ==
    ASSUME WalletInv, TypesOK', purse' = purse, log' = log, TxsGrow
    PROVE  Wealth' = Wealth
<1>1. BookTypes /\ BookTypes'
  BY TypesAreBook, TypesAreBookNext
<1>2. Book' = Book
  BY <1>1, ChainStill
<1>3. (BookTypes => /\ Wealth = Total(Coins(purse, Book, Len(Book)))
                    /\ Len(Book) = Len(log) /\ Book \in Seq(Entry))'
  BY WealthIs, PTL
<1>. QED BY <1>1, <1>2, <1>3, WealthIs

Paid == {"transfer", "withdraw", "disburse"}

\* Every step moves what it was asked to,
LEMMA BalancesNext ==
    ASSUME WalletInv, Balances, [WalletNext]_walletVars, WalletInv'
    PROVE  Balances'
<1>1. PICK first, in, out, all, worth, tokens :
         /\ first = SumFunction(purse) /\ in = AskedOf({"deposit"}) /\ out = AskedOf(Paid)
         /\ all = AskedOf(Deposits) /\ worth = Wealth /\ tokens = token.balance
  OBVIOUS
<1>2. /\ TypesOK /\ TypesOK' /\ DOMAIN txs = 1..Len(txs) /\ Len(txs) \in Nat
      /\ DOMAIN txs' = 1..Len(txs') /\ Len(txs') \in Nat
  BY TypesAreBook DEF WalletInv, TypesOK
<1>3. in \in Nat /\ out \in Nat /\ all \in Nat
  BY <1>1, <1>2, AskedIs
<1>4. worth = first + in - out /\ tokens = Tokens - all
  BY <1>1 DEF Balances, Paid
<1>5. ASSUME Wealth' = worth, AskedOf({"deposit"})' = in, AskedOf(Paid)' = out,
             AskedOf(Deposits)' = all, token'.balance = tokens, purse' = purse
      PROVE  Balances'
  BY <1>1, <1>4, <1>5 DEF Balances, Paid
<1>6. ASSUME AsksStay, TxsGrow, Landed' = Landed, purse' = purse, log' = log, token' = token
      PROVE  Balances'
  <2>1. /\ AskedOf({"deposit"})' = in /\ AskedOf(Paid)' = out /\ AskedOf(Deposits)' = all
    BY <1>1, <1>2, <1>6, RanStays
  <2>2. Wealth' = worth /\ token'.balance = tokens
    BY <1>1, <1>2, <1>6, OffChainKeepsWealth
  <2>. QED BY <1>5, <1>6, <2>1, <2>2
<1>7. CASE OffChain
  <2>1. /\ TxsGrow
        /\ \A i \in DOMAIN txs' : IF i \in DOMAIN txs THEN txs'[i] = txs[i]
                                                      ELSE txs'[i].status = "pending"
    BY <1>2, <1>7, SendsIs DEF OffChain
  <2>2. DOMAIN txs \subseteq DOMAIN txs'
    BY <1>2, <2>1 DEF TxsGrow
  <2>3. Landed' = Landed
    BY <2>1, <2>2 DEF Landed
  <2>. QED BY <1>6, <1>7, <2>1, <2>3 DEF OffChain
<1>8. ASSUME NEW i \in Pending, Revert(i) PROVE Balances'
  <2>1. Settles(i, "reverted") /\ log' = log /\ token' = token
    BY <1>8 DEF Revert, Settles
  <2>2. /\ i \in DOMAIN txs /\ txs[i].status = "pending" /\ DOMAIN txs' = DOMAIN txs
        /\ txs'[i].status = "reverted" /\ TxsGrow
        /\ \A j \in DOMAIN txs : j # i => txs'[j] = txs[j]
    BY <1>2, <2>1, SettledIs
  <2>3. Landed' = Landed
    <3>1. \A j \in DOMAIN txs : txs'[j].status = "landed" <=> txs[j].status = "landed"
      BY <2>2
    <3>. QED BY <2>2, <3>1 DEF Landed
  <2>4. AsksStay
    BY <2>1 DEF Settles, AsksStay
  <2>. QED BY <1>6, <2>1, <2>2, <2>3, <2>4 DEF Settles
<1>9. ASSUME NEW i \in Pending, Land(i) PROVE Balances'
  <2>1. PICK r, type, v, kind : /\ r = txs[i].run /\ type = txs[i].type /\ v = txs[i].amount
                                /\ kind = runs[r].kind
    OBVIOUS
  <2>2. /\ r \in DOMAIN runs /\ i \in DOMAIN txs /\ TxsOK
        /\ type = kind => v = runs[r].amount
        /\ \A kinds \in {{"deposit"}, Paid, Deposits} :
              AskedOf(kinds)' = IF type = kind /\ kind \in kinds
                                THEN AskedOf(kinds) + runs[r].amount ELSE AskedOf(kinds)
    <3>1. r \in DOMAIN runs /\ (type = kind => v = runs[r].amount)
      BY <1>9, <2>1, RanLands
    <3>2. ASSUME NEW kinds \in {{"deposit"}, Paid, Deposits}
          PROVE  AskedOf(kinds)' = IF type = kind /\ kind \in kinds
                                   THEN AskedOf(kinds) + runs[r].amount ELSE AskedOf(kinds)
      BY <1>9, <2>1, RanLands
    <3>. QED BY <3>1, <3>2 DEF Pending, WalletInv
  <2>3. /\ AskedOf({"deposit"})' = IF type = kind /\ kind = "deposit" THEN in + v ELSE in
        /\ AskedOf(Paid)' = IF type = kind /\ kind \in Paid THEN out + v ELSE out
        /\ AskedOf(Deposits)' = IF type = kind /\ kind \in Deposits THEN all + v ELSE all
    BY <1>1, <2>2
  <2>4. purse' = purse /\ token \in [balance : Nat, allowance : Nat] /\ v \in Nat
    BY <1>9, <2>1, TokenAfter DEF Land
  <2>5. type \in {"approve", "merge"} \/ type = kind
    <3>1. type # "approve" => \E l : LegTx(i, r, l)
      BY <2>1, <2>2 DEF TxsOK, IsLegTx
    <3>. QED BY <2>1, <3>1 DEF LegTx, TypeOf
  <2>6. kind \in Kinds /\ "approve" \notin Kinds /\ "merge" \notin Kinds
    <3>1. runs[r] \in RunRec
      BY <1>2, <2>2, RunIs
    <3>. QED BY <2>1, <3>1 DEF RunRec, Kinds, Spending, Deposits
  <2>7. CASE type = "approve"
    <3>1. log' = log /\ token'.balance = tokens
      BY <1>1, <1>9, <2>1, <2>7, TokenAfter DEF Land
    <3>2. TxsGrow
      <4>1. Settles(i, "landed")
        BY <1>9 DEF Land, Settles
      <4>. QED BY <1>2, <4>1, SettledIs
    <3>3. Wealth' = worth
      BY <1>1, <1>2, <2>4, <3>1, <3>2, OffChainKeepsWealth
    <3>. QED BY <1>5, <2>3, <2>4, <2>6, <2>7, <3>1, <3>3
  <2>8. CASE type = "merge"
    <3>1. Wealth' = worth
      BY <1>1, <1>9, <2>1, <2>8, LandMoves
    <3>2. token' = token
      <4>1. type \notin Deposits \cup {"approve"}
        BY <2>8 DEF Deposits
      <4>. QED BY <1>9, <2>1, <4>1, TokenAfter
    <3>. QED BY <1>1, <1>5, <2>3, <2>4, <2>6, <2>8, <3>1, <3>2
  <2>9. CASE type = kind
    <3>1. type \in Kinds /\ type # "approve" /\ type # "merge"
      BY <2>6, <2>9
    <3>2. PICK worthNext, inNext, outNext, allNext, tokensNext :
             /\ worthNext = Wealth' /\ inNext = AskedOf({"deposit"})' /\ outNext = AskedOf(Paid)'
             /\ allNext = AskedOf(Deposits)' /\ tokensNext = token'.balance
      OBVIOUS
    <3>3. /\ type \in Spending => worthNext + v = worth
          /\ type = "deposit" => worthNext = worth + v
          /\ type = "depositPriv" => worthNext = worth
          /\ worthNext \in Nat /\ worth \in Nat
      BY <1>1, <1>9, <2>1, <3>1, <3>2, LandMoves
    <3>4. /\ type \in Deposits => tokensNext = tokens - v
          /\ type \notin Deposits => tokensNext = tokens
      BY <1>1, <1>9, <2>1, <3>1, <3>2, TokenAfter
    <3>5. tokens \in Nat
      BY <1>1, <2>4
    <3>6. inNext = IF type = "deposit" THEN in + v ELSE in
      BY <2>3, <2>9, <3>2
    <3>7. outNext = IF type \in Paid THEN out + v ELSE out
      BY <2>3, <2>9, <3>2
    <3>8. allNext = IF type \in Deposits THEN all + v ELSE all
      BY <2>3, <2>9, <3>2
    <3>9. first \in Int /\ Tokens \in Int
      <4>1. first \in Nat
        <5>1. PICK L : L = <<>>
          OBVIOUS
        <5>2. L \in Seq(Entry) /\ Len(L) = 0 /\ 0 \in 0..Len(L)
          BY <5>1
        <5>3. purse \in Seq(Nat)
          BY <1>2 DEF TypesOK
        <5>4. Coins(purse, L, 0) \in Parts(Selectable)
          BY <5>2, <5>3, CoinsArePurse DEF Purse, Pile
        <5>. QED BY <1>1, <5>2, <5>3, <5>4, CoinsFirst, TotalNat
      <4>. QED BY <4>1, WalletAssumption DEF WalletAssumption
    <3>10. worthNext = first + inNext - outNext /\ tokensNext = Tokens - allNext
      <4>1. CASE type \in Spending
        <5>1. type \in Paid /\ type # "deposit" /\ type \notin Deposits
          BY <4>1 DEF Spending, Paid, Deposits
        <5>. QED BY <1>3, <1>4, <2>4, <3>3, <3>4, <3>5, <3>6, <3>7, <3>8, <3>9, <4>1, <5>1
      <4>2. CASE type = "deposit"
        <5>1. type \notin Paid /\ type \in Deposits
          BY <4>2 DEF Paid, Deposits
        <5>. QED BY <1>3, <1>4, <2>4, <3>3, <3>4, <3>5, <3>6, <3>7, <3>8, <3>9, <4>2, <5>1
      <4>3. CASE type = "depositPriv"
        <5>1. type \notin Paid /\ type \in Deposits /\ type # "deposit"
          BY <4>3 DEF Paid, Deposits
        <5>. QED BY <1>3, <1>4, <2>4, <3>3, <3>4, <3>5, <3>6, <3>7, <3>8, <3>9, <4>3, <5>1
      <4>. QED BY <3>1, <4>1, <4>2, <4>3 DEF Kinds, Deposits
    <3>. QED BY <1>1, <2>4, <3>2, <3>10 DEF Balances, Paid
  <2>. QED BY <2>5, <2>7, <2>8, <2>9
<1>. QED BY <1>7, <1>8, <1>9, StepIs

\* and at first nothing has moved.
LEMMA BalancesInit ==
    WalletInit => Balances
<1>1. SUFFICES ASSUME WalletInit PROVE Balances
  OBVIOUS
<1>2. /\ WalletInv /\ txs = <<>> /\ log = <<>> /\ runs = <<>> /\ token.balance = Tokens
      /\ Tokens \in Nat
  BY <1>1, WalletInvInit, WalletAssumption DEF WalletInit, WalletAssumption
<1>3. TypesOK /\ BookTypes /\ purse \in Seq(Nat) /\ Len(log) = 0
  BY <1>2, TypesAreBook DEF TypesOK
<1>4. ASSUME NEW kinds PROVE AskedOf(kinds) = 0
  <2>1. DoneOf(kinds) = {}
    BY <1>2 DEF DoneOf
  <2>. QED BY <1>3, <2>1, AmountsAre, SumOnNat DEF AskedOf
<1>5. Wealth = SumFunction(purse) /\ Wealth \in Nat
  <2>1. /\ Wealth = Total(Coins(purse, Book, 0)) /\ Book \in Seq(Entry) /\ Len(Book) = 0
        /\ 0 \in 0..Len(Book)
    BY <1>3, WealthIs
  <2>2. Coins(purse, Book, 0) \in Parts(Selectable)
    BY <1>3, <2>1, CoinsArePurse DEF Purse, Pile
  <2>. QED BY <1>3, <2>1, <2>2, CoinsFirst, TotalNat
<1>6. AskedOf({"deposit"}) = 0 /\ AskedOf({"transfer", "withdraw", "disburse"}) = 0
      /\ AskedOf(Deposits) = 0
  BY <1>4
<1>. QED BY <1>2, <1>5, <1>6 DEF Balances

\* The account's notes and its tokens are worth what they were, less what runs paid and
\* plus what they shielded, once each: merges, failures, retries and lost answers move no
\* money (driver.ts:97: your balance is unchanged).
THEOREM WalletBalanceMovesAsAsked ==
    WalletSpec => []BalanceMovesAsAsked
<1>1. WalletInit => Balances
  BY BalancesInit
<1>2. WalletInv /\ WalletInv' /\ Balances /\ [WalletNext]_walletVars => Balances'
  BY BalancesNext
<1>. QED BY <1>1, <1>2, BalancesIs, WalletInvariant, PTL DEF WalletSpec

\* The plan of a run that pays is made of the notes the run holds, and is payable.
LEMMA PlanIsOK ==
    ASSUME WalletInv, NEW r \in DOMAIN runs, runs[r].kind \notin Deposits
    PROVE  PlanOK(runs[r].plan, runs[r].notes, runs[r].kind, runs[r].amount)
<1>1. PICK run : run = runs[r] /\ run \in RunRec
  BY RunIn DEF WalletInv, TypesOK
<1>2. run.kind \in Spending /\ run.amount \in Nat \ {0} /\ run.notes \in Purse
  BY <1>1 DEF RunRec, Kinds
<1>3. PlanMade(r)
  BY DEF WalletInv
<1>4. run.plan = planSpendChain(run.kind, run.notes, run.amount)
      /\ Total(run.notes) >= run.amount
  BY <1>1, <1>2, <1>3 DEF PlanMade, planOf
<1>. QED BY <1>1, <1>2, <1>4, PlanFacts

\* What the invariant says of plans is what the property asks.
LEMMA PlansAreOK == WalletInv => PlansCover
<1>1. SUFFICES ASSUME WalletInv, NEW r \in DOMAIN runs, runs[r].kind \notin Deposits
      PROVE  LET plan == runs[r].plan
                 last == Len(plan)
                 own == Cardinality(runs[r].notes)
             IN  /\ \A i \in 1..last :
                       /\ plan[i].merge <=> i < last
                       /\ Cardinality(plan[i].ins) <= IF plan[i].merge THEN TRANSFER10_ARITY
                                                     ELSE terminalArity(runs[r].kind)
                       /\ \A n \in plan[i].ins :
                             \/ n \in runs[r].notes
                             \/ 0 - n.leaf \in 1..(i - 1) /\ n.value = plan[0 - n.leaf].value
                       /\ \A j \in 1..last : i /= j => plan[i].ins \cap plan[j].ins = {}
                       /\ i < last => Total(plan[i].ins) = plan[i].value
                 /\ Total(plan[last].ins) >= runs[r].amount
                 /\ (last - 1) * (TRANSFER10_ARITY - 1)
                       < own - terminalArity(runs[r].kind) + TRANSFER10_ARITY - 1
                    \/ last = 1
  BY DEF PlansCover
<1>2. PICK plan, S, kind, amount : plan = runs[r].plan /\ S = runs[r].notes
                                   /\ kind = runs[r].kind /\ amount = runs[r].amount
  OBVIOUS
<1>3. PlanOK(plan, S, kind, amount)
  BY <1>1, <1>2, PlanIsOK
<1>4. \A i \in 1..Len(plan) : LegOK(plan, S, kind, i)
  BY <1>3 DEF PlanOK
<1>5. ASSUME NEW i \in 1..Len(plan)
      PROVE  /\ plan[i].merge <=> i < Len(plan)
             /\ Cardinality(plan[i].ins) <= IF plan[i].merge THEN TRANSFER10_ARITY
                                           ELSE terminalArity(kind)
             /\ \A n \in plan[i].ins : \/ n \in S
                                       \/ 0 - n.leaf \in 1..(i - 1) /\ n.value = plan[0 - n.leaf].value
             /\ \A j \in 1..Len(plan) : i /= j => plan[i].ins \cap plan[j].ins = {}
             /\ i < Len(plan) => Total(plan[i].ins) = plan[i].value
  <2>1. LegOK(plan, S, kind, i)
    BY <1>4
  <2>2. InsFrom(plan, S, i)
    BY <2>1 DEF LegOK
  <2>. QED BY <2>1, <2>2 DEF LegOK, InsFrom
<1>6. /\ Total(plan[Len(plan)].ins) >= amount
      /\ \/ (Len(plan) - 1) * (TRANSFER10_ARITY - 1)
                < Cardinality(S) - terminalArity(kind) + TRANSFER10_ARITY - 1
         \/ Len(plan) = 1
  BY <1>3 DEF PlanOK
<1>. QED BY <1>2, <1>5, <1>6

\* What a wallet plans can be paid: planSpendChain (plan.ts:286) covers the amount with
\* notes the page holds, in legs a circuit takes, and makes no more of them than
\* plan.ts:280 says, whatever the notes and the arity.
THEOREM WalletPlansCover == WalletSpec => []PlansCover
<1>1. WalletInv => PlansCover
  BY PlansAreOK
<1>. QED BY <1>1, WalletInvariant, PTL

-----------------------------------------------------------------------------
(***************************************************************************)
(* What so many notes of a pile are worth at most.                         *)
(***************************************************************************)
Top(W, k) == Total(unspentLargestFirst(W, k))

\* A part of a pile that k notes make up.
Few(W, k) == {X \in SUBSET W : Cardinality(X) <= k}

\* What k notes are worth at most: no more than the pile, and no less than fewer.
LEMMA TopIs ==
    ASSUME NEW W \in Pile, NEW k \in Nat
    PROVE  /\ Top(W, k) \in Nat /\ Top(W, k) <= Total(W)
           /\ unspentLargestFirst(W, k) \in Few(W, k)
           /\ k >= Cardinality(W) => Top(W, k) = Total(W)
           /\ \A j \in Nat : j <= k => Top(W, j) <= Top(W, k)
<1>1. unspentLargestFirst(W, k) \in SUBSET W /\ W \in Parts(Selectable)
      /\ (k >= Cardinality(W) => unspentLargestFirst(W, k) = W)
  BY LargestNext, PileIsFinite
<1>2. unspentLargestFirst(W, k) \in Pile
      /\ Cardinality(unspentLargestFirst(W, k)) <= k
  <2>1. Cardinality(W) \in Nat
    BY PileIsFinite
  <2>. QED BY <2>1, LargestSize
<1>3. Total(unspentLargestFirst(W, k)) \in Nat
      /\ Total(unspentLargestFirst(W, k)) <= Total(W)
  BY <1>1, <1>2, PileIsFinite, TotalMono
<1>4. \A j \in Nat : j <= k => Top(W, j) <= Top(W, k)
  BY LargestGrow DEF Top
<1>. QED BY <1>1, <1>2, <1>3, <1>4 DEF Top, Few

\* The k largest are worth the most: taking the largest first takes the fewest.
LEMMA TopIsMost ==
    ASSUME NEW W \in Pile, NEW k \in Nat, NEW X \in Few(W, k)
    PROVE  Total(X) <= Top(W, k)
<1> DEFINE Bad == {j \in Nat : \E Y \in Few(W, j) : ~(Total(Y) <= Top(W, j))}
<1>1. SUFFICES ASSUME Bad # {} PROVE FALSE
  OBVIOUS
<1>2. PICK t \in Bad : \A j \in Bad : t <= j
  <2>1. Bad \subseteq Nat
    OBVIOUS
  <2>. HIDE DEF Bad
  <2>. QED BY <1>1, <2>1, LeastNatural
<1>3. PICK Y \in Few(W, t) : ~(Total(Y) <= Top(W, t))
  OBVIOUS
<1>4. t \in Nat /\ Y \in SUBSET W /\ Cardinality(Y) <= t
  BY DEF Few
<1>5. /\ Y \in Pile /\ Y \in Parts(Selectable) /\ IsFiniteSet(Y) /\ Cardinality(Y) \in Nat
      /\ W \in Parts(Selectable) /\ Total(Y) \in Nat /\ Top(W, t) \in Nat
      /\ W \in SUBSET Selectable /\ Cardinality(W) \in Nat
  BY <1>4, PartOfPile, PileIsFinite, TopIs
<1>6. t # 0
  <2>1. SUFFICES ASSUME t = 0 PROVE FALSE
    OBVIOUS
  <2>2. Y = {}
    BY <1>4, <1>5, <2>1, FS_EmptySet
  <2>. QED BY <1>3, <1>5, <2>2, TotalNat
<1>7. PICK s \in Nat : t = s + 1
  BY <1>4, <1>6
<1>8. ~(Y \subseteq unspentLargestFirst(W, t))
  <2>1. SUFFICES ASSUME Y \subseteq unspentLargestFirst(W, t) PROVE FALSE
    OBVIOUS
  <2>2. unspentLargestFirst(W, t) \in Parts(Selectable)
    BY <1>4, LargestSize, PileIsFinite
  <2>. QED BY <1>3, <1>5, <2>1, <2>2, TotalMono DEF Top
<1>9. PICK x \in Y : x \notin unspentLargestFirst(W, t)
  BY <1>8
<1>10. s < Cardinality(W)
  <2>1. t >= Cardinality(W) => unspentLargestFirst(W, t) = W
    BY <1>4, LargestNext
  <2>. QED BY <1>4, <1>5, <1>7, <1>9, <2>1
<1>11. PICK n \in W : /\ RankIn(W, n) = s /\ n \notin unspentLargestFirst(W, s)
                      /\ unspentLargestFirst(W, t) = unspentLargestFirst(W, s) \cup {n}
  BY <1>7, <1>10, LargestNext
<1>12. x \in Selectable /\ n \in Selectable /\ x \in W /\ n # x /\ x.value <= n.value
  <2>1. x \in Selectable /\ n \in Selectable /\ x \in W /\ n # x
    BY <1>4, <1>5, <1>9, <1>11
  <2>2. ~(RankIn(W, x) < t) /\ RankIn(W, x) \in Nat
    BY <1>9, <2>1, LargestIs, RankFacts
  <2>3. ~Before(x, n)
    <3>1. Before(x, n) => RankIn(W, x) < RankIn(W, n)
      BY <2>1, RankFacts
    <3>. QED BY <1>7, <1>11, <2>2, <3>1
  <2>4. x.leaf # n.leaf
    BY <1>11, <2>1 DEF Pile, Apart
  <2>5. Before(n, x)
    BY <2>1, <2>3, <2>4, BeforeIsOrder
  <2>6. n.value >= x.value
    BY <2>1, <2>5, BeforeIsOrder
  <2>. QED BY <2>1, <2>6 DEF Selectable
<1>13. /\ Y \ {x} \in Parts(Selectable) /\ Cardinality(Y \ {x}) <= s
       /\ Total(Y) = x.value + Total(Y \ {x}) /\ Total(Y \ {x}) \in Nat
  <2>1. /\ Y \ {x} \in Parts(Selectable) /\ Cardinality(Y \ {x}) + 1 = Cardinality(Y)
        /\ Cardinality(Y \ {x}) \in Nat
    BY <1>5, SmallerPart
  <2>2. (Y \ {x}) \cup {x} = Y /\ x \notin Y \ {x}
    OBVIOUS
  <2>3. Total((Y \ {x}) \cup {x}) = x.value + Total(Y \ {x})
    BY <1>12, <2>1, <2>2, TotalAdd
  <2>. QED BY <1>4, <1>7, <2>1, <2>2, <2>3, TotalNat
<1>14. Total(Y \ {x}) <= Top(W, s)
  <2>1. s \notin Bad
    <3>. HIDE DEF Bad
    <3>. QED BY <1>2, <1>7
  <2>2. Y \ {x} \in Few(W, s)
    BY <1>4, <1>13 DEF Few
  <2>. QED BY <2>1, <2>2
<1>15. Top(W, t) = n.value + Top(W, s)
  <2>1. unspentLargestFirst(W, s) \in Parts(Selectable)
    BY LargestSize, PileIsFinite
  <2>. QED BY <1>11, <1>12, <2>1, TotalAdd DEF Top
<1>16. Top(W, s) \in Nat /\ x.value \in Nat /\ n.value \in Nat
  BY <1>12, TopIs DEF Selectable
<1>. QED BY <1>3, <1>5, <1>12, <1>13, <1>14, <1>15, <1>16

\* The largest notes pay what the planner's selection pays, in as few.
LEMMA PayableIs ==
    ASSUME NEW T \in Pile, NEW kind \in Spending, NEW amount \in Nat \ {0}, Total(T) >= amount
    PROVE  Payable(kind, T, amount) <=> Top(T, terminalArity(kind)) >= amount
<1>1. PICK k, a : k = selectInputNotes(T, amount) /\ a = terminalArity(kind)
  OBVIOUS
<1>2. Selects(T, amount, k) /\ a \in Nat /\ k \in Nat \ {0} /\ k - 1 \in Nat
  <2>1. Selects(T, amount, k) /\ Cardinality(T) \in Nat
    BY <1>1, SelectsOne, PileIsFinite
  <2>. QED BY <1>1, <2>1, ArityIs DEF Selects
<1>3. Top(T, k) >= amount /\ Top(T, k - 1) < amount
  BY <1>2 DEF Selects, Top
<1>4. Top(T, k) \in Nat /\ Top(T, k - 1) \in Nat /\ Top(T, a) \in Nat
  BY <1>2, TopIs
<1>5. CASE k <= a
  <2>1. Top(T, k) <= Top(T, a)
    BY <1>2, <1>5, TopIs
  <2>. QED BY <1>1, <1>3, <1>4, <1>5, <2>1 DEF Payable
<1>6. CASE ~(k <= a)
  <2>1. a <= k - 1
    BY <1>2, <1>6
  <2>2. Top(T, a) <= Top(T, k - 1)
    BY <1>2, <2>1, TopIs
  <2>. QED BY <1>1, <1>3, <1>4, <1>6, <2>2 DEF Payable
<1>. QED BY <1>5, <1>6

-----------------------------------------------------------------------------
(***************************************************************************)
(* What a merge makes of them.                                             *)
(***************************************************************************)
\* Notes that are worth nothing add nothing.
LEMMA TotalNothing ==
    ASSUME NEW X \in Parts(Selectable), \A n \in X : n.value = 0
    PROVE  Total(X) = 0
<1> DEFINE Bad == {Y \in SUBSET X : Total(Y) # 0}
<1>1. SUFFICES ASSUME Bad # {} PROVE FALSE
  OBVIOUS
<1>2. PICK Y \in Bad : \A U \in Bad : Cardinality(Y) <= Cardinality(U)
  <2>1. IsFiniteSet(X) /\ Bad \subseteq SUBSET X
    BY DEF Parts
  <2>. HIDE DEF Bad
  <2>. QED BY <1>1, <2>1, SmallestSet
<1>3. Y \in SUBSET X /\ Y \in Parts(Selectable) /\ Total(Y) # 0 /\ X \in SUBSET Selectable
  BY PartOfPart DEF Parts
<1>4. PICK n \in Y : TRUE
  BY <1>3, TotalNat
<1>5. /\ Y \ {n} \in Parts(Selectable) /\ Cardinality(Y \ {n}) + 1 = Cardinality(Y)
      /\ Cardinality(Y \ {n}) \in Nat /\ Cardinality(Y) \in Nat
  BY <1>3, SmallerPart
<1>6. Total(Y \ {n}) = 0
  <2>1. ~(Cardinality(Y) <= Cardinality(Y \ {n}))
    BY <1>5
  <2>2. Y \ {n} \notin Bad
    <3>. HIDE DEF Bad
    <3>. QED BY <1>2, <2>1
  <2>. QED BY <1>3, <2>2
<1>7. Total((Y \ {n}) \cup {n}) = n.value + Total(Y \ {n})
  BY <1>3, <1>5, TotalAdd
<1>8. (Y \ {n}) \cup {n} = Y /\ n.value = 0
  BY <1>3
<1>. QED BY <1>3, <1>6, <1>7, <1>8

\* V is what is left of W once the notes I are folded into m.
Folds(W, I, m, V) ==
    /\ W \in Pile /\ V \in Pile /\ I \in SUBSET W
    /\ m \in V /\ m \notin W /\ m.value = Total(I) /\ W \ I \subseteq V
    /\ \A n \in V : n \in W \ I \/ n = m \/ n.value = 0

\* Notes of a folded pile stand for the notes that were folded, and as many others.
LEMMA FoldedAtMost ==
    ASSUME NEW W, NEW I, NEW m, NEW V, Folds(W, I, m, V), NEW K \in Nat \ {0},
           Cardinality(I) <= K, NEW k \in Nat \ {0}
    PROVE  Top(V, k) <= Top(W, K - 1 + k)
<1>1. PICK X : X = unspentLargestFirst(V, k)
  OBVIOUS
<1>2. PICK Y : Y = X \cap (W \ I)
  OBVIOUS
<1>3. /\ W \in Pile /\ V \in Pile /\ I \in SUBSET W /\ I \in Pile /\ m \in Selectable
      /\ X \in SUBSET V /\ Cardinality(X) <= k /\ X \in Parts(Selectable)
      /\ Y \in Parts(Selectable) /\ Y \in SUBSET X /\ I \in Parts(Selectable)
      /\ W \in SUBSET Selectable
  <2>1. W \in Pile /\ V \in Pile /\ I \in SUBSET W /\ m \in V
    BY DEF Folds
  <2>2. I \in Pile /\ V \in SUBSET Selectable /\ V \in Parts(Selectable)
        /\ W \in SUBSET Selectable
    BY <2>1, PartOfPile, PileIsFinite
  <2>3. X \in Few(V, k)
    BY <1>1, <2>1, TopIs
  <2>. QED BY <1>2, <2>1, <2>2, <2>3, PartOfPart, PileIsFinite DEF Few
<1>4. /\ IsFiniteSet(X) /\ IsFiniteSet(Y) /\ IsFiniteSet(I)
      /\ Cardinality(X) \in Nat /\ Cardinality(Y) \in Nat /\ Cardinality(I) \in Nat
      /\ Total(I) \in Nat /\ Total(Y) \in Nat /\ K - 1 + k \in Nat
      /\ Cardinality(Y) <= Cardinality(X)
  BY <1>3, TotalNat, FS_CardinalityType, FS_Subset DEF Parts
<1>5. CASE m \in X
  <2>1. Y \cup {m} \in SUBSET X /\ m \notin Y /\ m \notin I
    BY <1>2, <1>5 DEF Folds
  <2>2. /\ Y \cup {m} \in Parts(Selectable)
        /\ Total(Y \cup {m}) = m.value + Total(Y)
    BY <1>3, <2>1, TotalAdd
  <2>3. Total(X) = Total(Y \cup {m})
    <3>1. Total(X) = Total(Y \cup {m}) + Total(X \ (Y \cup {m}))
          /\ X \ (Y \cup {m}) \in Parts(Selectable)
      BY <1>3, <2>1, TotalSplit
    <3>2. \A n \in X \ (Y \cup {m}) : n.value = 0
      BY <1>2, <1>3 DEF Folds
    <3>3. Total(X \ (Y \cup {m})) = 0
      BY <3>1, <3>2, TotalNothing
    <3>4. Total(Y \cup {m}) \in Nat
      BY <2>2, TotalNat
    <3>. QED BY <3>1, <3>3, <3>4
  <2>4. Cardinality(Y) + 1 <= k
    <3>1. Cardinality(Y \cup {m}) = Cardinality(Y) + 1
      BY <1>4, <2>1, FS_AddElement
    <3>2. Cardinality(Y \cup {m}) <= Cardinality(X)
      BY <1>4, <2>1, FS_Subset
    <3>. QED BY <1>3, <1>4, <3>1, <3>2
  <2>5. Y \cup I \in Few(W, K - 1 + k)
    <3>1. Cardinality(Y \cup I) <= Cardinality(Y) + Cardinality(I) /\ Cardinality(Y \cup I) \in Nat
      <4>1. /\ IsFiniteSet(Y \cup I)
            /\ Cardinality(Y \cup I) = Cardinality(Y) + Cardinality(I) - Cardinality(Y \cap I)
        BY <1>4, FS_Union
      <4>2. IsFiniteSet(Y \cap I)
        BY <1>4, FS_Subset
      <4>3. Cardinality(Y \cap I) \in Nat /\ Cardinality(Y \cup I) \in Nat
        BY <4>1, <4>2, FS_CardinalityType
      <4>. QED BY <1>4, <4>1, <4>3
    <3>2. Y \cup I \in SUBSET W
      BY <1>2, <1>3
    <3>. QED BY <1>4, <2>4, <3>1, <3>2 DEF Few
  <2>6. Total(Y \cup I) = Total(I) + Total(Y)
    <3>1. Y \cup I \in Parts(Selectable)
      BY <1>3, UnionOfParts
    <3>2. Y = (Y \cup I) \ I
      BY <1>2
    <3>. QED BY <3>1, <3>2, TotalSplit
  <2>7. Total(Y \cup I) <= Top(W, K - 1 + k)
    BY <1>3, <1>4, <2>5, TopIsMost
  <2>. QED BY <1>1, <2>2, <2>3, <2>6, <2>7 DEF Folds, Top
<1>6. CASE m \notin X
  <2>1. Total(X) = Total(Y) + Total(X \ Y) /\ X \ Y \in Parts(Selectable)
    BY <1>3, TotalSplit
  <2>2. \A n \in X \ Y : n.value = 0
    BY <1>2, <1>3, <1>6 DEF Folds
  <2>3. Total(X) = Total(Y)
    BY <1>4, <2>1, <2>2, TotalNothing
  <2>4. Y \in Few(W, K - 1 + k)
    <3>1. Y \in SUBSET W
      BY <1>2
    <3>. QED BY <1>3, <1>4, <3>1 DEF Few
  <2>. QED BY <1>1, <1>3, <1>4, <2>3, <2>4, TopIsMost DEF Top
<1>. QED BY <1>5, <1>6

\* The largest notes of a pile are worth no more than the folded note and the others.
LEMMA FoldedAtLeast ==
    ASSUME NEW W, NEW I, NEW m, NEW V, Folds(W, I, m, V), NEW K \in Nat \ {0},
           Total(I) = Top(W, K), NEW k \in Nat \ {0}
    PROVE  Top(W, K - 1 + k) <= Top(V, k)
<1>1. PICK Y : Y = unspentLargestFirst(W, K - 1 + k)
  OBVIOUS
<1>2. K - 1 + k \in Nat /\ k - 1 \in Nat
  OBVIOUS
<1>3. /\ W \in Pile /\ V \in Pile /\ I \in SUBSET W /\ I \in Pile /\ m \in Selectable /\ m \in V
      /\ Y \in SUBSET W /\ Cardinality(Y) <= K - 1 + k /\ Y \in Pile /\ Y \ I \in Pile
  <2>1. W \in Pile /\ V \in Pile /\ I \in SUBSET W /\ m \in V
    BY DEF Folds
  <2>2. V \in SUBSET Selectable
    BY <2>1, PileIsFinite
  <2>3. Y \in Few(W, K - 1 + k)
    BY <1>1, <1>2, <2>1, TopIs
  <2>. QED BY <2>1, <2>2, <2>3, PartOfPile DEF Few
<1>4. /\ IsFiniteSet(Y) /\ Cardinality(Y) \in Nat /\ Y \in Parts(Selectable)
      /\ IsFiniteSet(Y \ I) /\ Cardinality(Y \ I) \in Nat /\ I \in Parts(Selectable)
  BY <1>3, PileIsFinite
<1>5. \E Q \in SUBSET (Y \ I) : Cardinality(Q) <= k - 1 /\ Total(Y \ Q) <= Total(I)
  <2>1. CASE Cardinality(Y \ I) <= k - 1
    <3>1. Y \ (Y \ I) \in SUBSET I
      OBVIOUS
    <3>2. Total(Y \ (Y \ I)) <= Total(I)
      BY <1>4, <3>1, TotalMono
    <3>. QED BY <2>1, <3>2
  <2>2. CASE ~(Cardinality(Y \ I) <= k - 1)
    <3>1. PICK Q : Q = unspentLargestFirst(Y \ I, k - 1)
      OBVIOUS
    <3>2. Q \in SUBSET (Y \ I) /\ Cardinality(Q) = k - 1
      BY <1>2, <1>3, <1>4, <2>2, <3>1, LargestNext, LargestSize
    <3>3. Cardinality(Y \ Q) = Cardinality(Y) - Cardinality(Q)
      <4>1. Y \cap Q = Q
        BY <3>2
      <4>. QED BY <1>4, <4>1, FS_Difference
    <3>4. Y \ Q \in Few(W, K)
      BY <1>2, <1>3, <1>4, <3>2, <3>3 DEF Few
    <3>5. Total(Y \ Q) <= Top(W, K)
      BY <1>3, <3>4, TopIsMost
    <3>. QED BY <3>2, <3>5
  <2>. QED BY <2>1, <2>2
<1>6. PICK Q \in SUBSET (Y \ I) : Cardinality(Q) <= k - 1 /\ Total(Y \ Q) <= Total(I)
  BY <1>5
<1>7. Q \in Parts(Selectable) /\ m \notin Q /\ Q \in SUBSET Y /\ Y \ Q \in Parts(Selectable)
  BY <1>3, <1>4, PartOfPart DEF Folds
<1>8. Total(Y) = Total(Q) + Total(Y \ Q) /\ Total(Q) \in Nat /\ Total(Y \ Q) \in Nat
      /\ Total(I) \in Nat
  BY <1>4, <1>7, TotalSplit, TotalNat
<1>9. Total(Q \cup {m}) = m.value + Total(Q)
  BY <1>3, <1>7, TotalAdd
<1>10. Q \cup {m} \in Few(V, k)
  <2>1. Q \cup {m} \in SUBSET V
    BY <1>3, <1>6 DEF Folds
  <2>2. IsFiniteSet(Q) /\ Cardinality(Q) \in Nat
    BY <1>7, FS_CardinalityType DEF Parts
  <2>3. Cardinality(Q \cup {m}) = Cardinality(Q) + 1
    BY <1>7, <2>2, FS_AddElement
  <2>. QED BY <1>2, <1>6, <2>1, <2>2, <2>3 DEF Few
<1>11. Total(Q \cup {m}) <= Top(V, k) /\ Top(V, k) \in Nat
  BY <1>3, <1>10, TopIsMost, TopIs
<1>. QED BY <1>1, <1>6, <1>8, <1>9, <1>11 DEF Folds, Top

\* If the notes that are folded are worth what as many can be, then what is left pays
\* with k notes what there was paid with as many more as were folded into one.
LEMMA FoldKeepsTop ==
    ASSUME NEW W, NEW I, NEW m, NEW V, Folds(W, I, m, V), NEW K \in Nat \ {0},
           Cardinality(I) <= K, Total(I) = Top(W, K), NEW k \in Nat \ {0}
    PROVE  Top(V, k) = Top(W, K - 1 + k)
<1>1. W \in Pile /\ V \in Pile
  BY DEF Folds
<1>2. Top(V, k) \in Nat /\ Top(W, K - 1 + k) \in Nat
  <2>1. K - 1 + k \in Nat
    OBVIOUS
  <2>. QED BY <1>1, <2>1, TopIs
<1>. QED BY <1>2, FoldedAtMost, FoldedAtLeast

\* What a planned working set pays, it pays with the notes of the purse.
LEMMA TopHeld ==
    ASSUME NEW S \in Purse, NEW m \in 0..Cardinality(S), NEW k \in Nat \ {0}
    PROVE  Top(Held(S, m), k) = Top(S, m * (TRANSFER10_ARITY - 1) + k)
<1> DEFINE Good(j) == \A i \in Nat \ {0} :
                         Top(Held(S, j), i) = Top(S, j * (TRANSFER10_ARITY - 1) + i)
           Bad == {j \in 0..Cardinality(S) : ~Good(j)}
<1>1. SUFFICES Bad = {}
  OBVIOUS
<1>2. SUFFICES ASSUME Bad # {} PROVE FALSE
  OBVIOUS
<1>3. S \in Pile /\ S \in Parts(Selectable) /\ Cardinality(S) \in Nat
      /\ TRANSFER10_ARITY \in Nat /\ TRANSFER10_ARITY >= 2
  BY PileIsFinite, ArityIs DEF Purse
<1>4. PICK j \in Bad : \A i \in Bad : j <= i
  <2>1. Bad \subseteq Nat
    BY <1>3
  <2>. HIDE DEF Bad
  <2>. QED BY <1>2, <2>1, LeastNatural
<1>5. j # 0
  <2>1. SUFFICES ASSUME j = 0 PROVE FALSE
    OBVIOUS
  <2>2. Held(S, j) = S
    BY <1>3, <2>1, HeldIs
  <2>3. \A i \in Nat \ {0} : j * (TRANSFER10_ARITY - 1) + i = i
    BY <1>3, <2>1
  <2>. QED BY <2>2, <2>3
<1>6. PICK h \in Nat : j = h + 1 /\ j \in 1..Cardinality(S) /\ h \in 0..Cardinality(S)
                       /\ j - 1 = h
  <2>1. j \in Nat /\ j - 1 \in Nat
    BY <1>3, <1>5
  <2>2. j = (j - 1) + 1 /\ j \in 1..Cardinality(S) /\ j - 1 \in 0..Cardinality(S)
    BY <1>3, <1>5, <2>1
  <2>. QED BY <2>1, <2>2
<1>7. Good(h)
  <2>1. h \notin Bad
    <3>. HIDE DEF Bad
    <3>. QED BY <1>4, <1>6
  <2>. QED BY <1>6, <2>1
<1>8. PICK W, V, I, new : /\ W = Held(S, h) /\ V = Held(S, j) /\ I = Fold(W)
                          /\ new = MergedAt(W, j)
  OBVIOUS
<1>9. /\ W \in Pile /\ V \in Pile /\ I \in SUBSET W /\ new \in Selectable /\ new.leaf = 0 - j
      /\ new.value = Total(I) /\ V = (W \ I) \cup {new} /\ \A n \in W : n.leaf > 0 - j
  BY <1>6, <1>8, WorkingStep, WorkingOK
<1>10. new \notin W
  <2>1. SUFFICES ASSUME new \in W PROVE FALSE
    OBVIOUS
  <2>2. new.leaf > 0 - j
    BY <1>9, <2>1
  <2>. QED BY <1>6, <1>9, <2>2
<1>11. Folds(W, I, new, V)
  BY <1>9, <1>10 DEF Folds
<1>12. Cardinality(I) <= TRANSFER10_ARITY /\ Total(I) = Top(W, TRANSFER10_ARITY)
  <2>1. I \in Few(W, TRANSFER10_ARITY)
    BY <1>3, <1>8, <1>9, TopIs DEF Fold
  <2>. QED BY <1>8, <2>1 DEF Few, Fold, Top
<1>13. ASSUME NEW i \in Nat \ {0}
       PROVE  Top(V, i) = Top(S, j * (TRANSFER10_ARITY - 1) + i)
  <2>1. Top(V, i) = Top(W, TRANSFER10_ARITY - 1 + i)
    BY <1>3, <1>11, <1>12, FoldKeepsTop
  <2>2. TRANSFER10_ARITY - 1 + i \in Nat \ {0}
    BY <1>3
  <2>3. Top(W, TRANSFER10_ARITY - 1 + i)
           = Top(S, h * (TRANSFER10_ARITY - 1) + (TRANSFER10_ARITY - 1 + i))
    BY <1>7, <1>8, <2>2
  <2>4. PICK q : q = TRANSFER10_ARITY - 1 /\ q \in Nat
    BY <1>3
  <2>5. h * q + (q + i) = (h + 1) * q + i
    BY <2>4
  <2>. QED BY <1>6, <2>1, <2>3, <2>4, <2>5
<1>. QED BY <1>4, <1>8, <1>13

-----------------------------------------------------------------------------
(***************************************************************************)
(* A run that had the chain to itself, and merged.                         *)
(***************************************************************************)
Alone(r) == /\ runs[r].kind \notin Deposits
            /\ \A k \in DOMAIN log : txs[log[k]].run = r /\ txs[log[k]].type = "merge"

\* Its transactions are the legs of its plan, in order, and its plan is of what there was.
LEMMA AloneIs ==
    ASSUME WalletInv, NEW r \in DOMAIN runs, Alone(r), NEW S, S = runs[r].notes
    PROVE  /\ S \in Purse /\ S = NotesAt(0) /\ runs[r].kind \in Spending
           /\ runs[r].amount \in Nat \ {0} /\ Total(S) >= runs[r].amount
           /\ runs[r].plan = planSpendChain(runs[r].kind, S, runs[r].amount)
           /\ \A k \in 1..Len(log) : /\ k \in 1..runs[r].leg /\ LegTx(log[k], r, k)
                                     /\ runs[r].plan[k].merge
<1>1. PICK run : run = runs[r] /\ run \in RunRec
  BY RunIn DEF WalletInv, TypesOK
<1>2. run.kind \in Spending /\ run.kind \notin Deposits /\ run.amount \in Nat \ {0}
      /\ S \in Purse /\ run.leg \in Nat
  BY <1>1 DEF RunRec, Kinds, Alone
<1>3. PlanMade(r) /\ LandsInOrder /\ TxsOK /\ LogOK /\ ChainOK /\ Len(log) \in Nat
      /\ DOMAIN log = 1..Len(log) /\ \A k \in 1..Len(log) : log[k] \in DOMAIN txs
  BY InvIsChainOK DEF WalletInv, TypesOK
<1>4. run.plan = planSpendChain(run.kind, S, run.amount) /\ Total(S) >= run.amount
  BY <1>1, <1>2, <1>3 DEF PlanMade, planOf
<1>5. S = NotesAt(0)
  <2>1. PICK v \in 0..Len(log) : S = NotesAt(v) /\ \A k \in 1..v : txs[log[k]].run # r
    BY <1>1, <1>3 DEF PlanMade
  <2>2. v = 0
    <3>1. SUFFICES ASSUME v # 0 PROVE FALSE
      OBVIOUS
    <3>2. 1 \in 1..v /\ 1 \in 1..Len(log)
      BY <1>3, <3>1
    <3>. QED BY <1>3, <2>1, <3>2 DEF Alone
  <2>. QED BY <2>1, <2>2
<1>6. ASSUME NEW k \in 1..Len(log)
      PROVE  k \in 1..run.leg /\ LegTx(log[k], r, k) /\ run.plan[k].merge
  <2>1. txs[log[k]].run = r /\ txs[log[k]].type = "merge" /\ log[k] \in DOMAIN txs
    BY <1>3 DEF Alone
  <2>2. \A a \in 1..k : a \in DOMAIN log
    BY <1>3
  <2>3. txs[log[k]].leg = k
    BY <1>3, <2>1, <2>2 DEF LandsInOrder, Alone
  <2>4. IsLegTx(log[k])
    BY <1>3, <2>1 DEF TxsOK
  <2>5. PICK q \in DOMAIN runs : \E l \in 1..runs[q].leg :
           txs[log[k]].run = q /\ txs[log[k]].leg = l /\ LegTx(log[k], q, l)
    BY <2>4 DEF IsLegTx
  <2>6. k \in 1..runs[r].leg /\ LegTx(log[k], r, k)
    BY <2>1, <2>3, <2>5
  <2>7. TypeOf(r, k) = "merge"
    BY <2>1, <2>6 DEF LegTx
  <2>8. run.plan[k].merge
    BY <1>1, <1>2, <2>7 DEF TypeOf, Spending
  <2>. QED BY <1>1, <2>6, <2>8
<1>. QED BY <1>1, <1>2, <1>4, <1>5, <1>6

\* A leg spends what was there before it, and no leg before it spent.
LEMMA AloneSpends ==
    ASSUME WalletInv, NEW r \in DOMAIN runs, Alone(r), NEW k \in 1..Len(log)
    PROVE  /\ \A n \in Inputs(r, k) : IsThere(n, k - 1)
           /\ txs[log[k]].ins = {n.leaf : n \in Inputs(r, k)}
           /\ k - 1 \in 0..Len(log) /\ k \in 0..Len(log)
<1>1. PICK S : S = runs[r].notes
  OBVIOUS
<1>2. /\ S = NotesAt(0) /\ k \in 1..runs[r].leg /\ LegTx(log[k], r, k)
  BY <1>1, AloneIs
<1>3. ChainOK /\ BookTypes /\ LandsInOrder /\ Len(log) \in Nat /\ DOMAIN log = 1..Len(log)
  BY InvIsChainOK DEF WalletInv, TypesOK, ChainOK
<1>4. k - 1 \in 0..Len(log) /\ k \in 0..Len(log) /\ 0 \in 0..Len(log) /\ 0 <= k - 1
  BY <1>3
<1>5. ASSUME NEW m \in Inputs(r, k) PROVE IsThere(m, k - 1)
  <2>1. PICK n \in runs[r].plan[k].ins : m = Resolved(r, n)
    BY DEF Inputs
  <2>2. \/ n \in S /\ m = n
        \/ 0 - n.leaf < k /\ n.leaf < 0 /\ n \in Selectable /\ \E j : MadeAt(m, r, 0 - n.leaf, j)
    BY <1>1, <1>2, <1>3, <2>1, PlannedIs
  <2>3. CASE n \in S /\ m = n
    <3>1. IsThere(m, 0)
      BY <1>2, <1>3, <1>4, <2>3, NotesAreThere
    <3>. QED BY <1>3, <1>4, <3>1, StaysThere
  <2>4. CASE 0 - n.leaf < k /\ n.leaf < 0 /\ n \in Selectable /\ \E j : MadeAt(m, r, 0 - n.leaf, j)
    <3>1. PICK j : MadeAt(m, r, 0 - n.leaf, j)
      BY <2>4
    <3>2. j \in 1..Len(log) /\ txs[log[j]].leg = 0 - n.leaf /\ IsThere(m, j)
      BY <3>1 DEF MadeAt
    <3>3. txs[log[j]].leg = j
      <4>1. \A a \in 1..j : a \in DOMAIN log
        BY <1>3, <3>2
      <4>. QED BY <1>3, <3>2, <4>1 DEF LandsInOrder, Alone
    <3>4. j <= k - 1 /\ j \in 0..Len(log)
      BY <1>3, <2>4, <3>2, <3>3
    <3>. QED BY <1>3, <1>4, <3>2, <3>4, StaysThere
  <2>. QED BY <2>2, <2>3, <2>4
<1>. QED BY <1>2, <1>4, <1>5 DEF LegTx

\* No leaf is spent that is not there.
LEMMA AloneSpent ==
    ASSUME WalletInv, NEW r \in DOMAIN runs, Alone(r), NEW h \in 0..Len(log)
    PROVE  /\ SpentAt(h) = UNION {txs[log[k]].ins : k \in 1..h}
           /\ \A i \in SpentAt(h) : i \in Int /\ 1 <= i /\ i <= Len(Leaves(h))
<1>1. ChainOK /\ BookTypes /\ Len(log) \in Nat
  BY InvIsChainOK DEF WalletInv, TypesOK, ChainOK
<1>2. ASSUME NEW i \in SpentAt(h) PROVE i \in Int /\ 1 <= i /\ i <= Len(Leaves(h))
  <2>1. PICK k \in 1..h : i \in txs[log[k]].ins
    BY DEF SpentAt
  <2>2. k \in 1..Len(log) /\ k - 1 <= h
    BY <1>1
  <2>3. PICK n \in Inputs(r, k) : i = n.leaf /\ IsThere(n, k - 1)
    <3>1. i \in {m.leaf : m \in Inputs(r, k)} /\ \A m \in Inputs(r, k) : IsThere(m, k - 1)
      BY <2>1, <2>2, AloneSpends
    <3>. QED BY <3>1
  <2>4. k - 1 \in 0..Len(log)
    BY <2>2, AloneSpends
  <2>5. Len(Leaves(k - 1)) <= Len(Leaves(h)) /\ Len(Leaves(k - 1)) \in Nat /\ Len(Leaves(h)) \in Nat
    BY <1>1, <2>2, <2>4, LeavesGrow
  <2>6. i \in 1..Len(Leaves(k - 1))
    BY <2>3 DEF IsThere
  <2>. QED BY <2>5, <2>6
<1>. QED BY <1>2 DEF SpentAt

\* A merge on the chain folds the notes of its leg.
LEMMA AloneFolds ==
    ASSUME WalletInv, NEW r \in DOMAIN runs, Alone(r), NEW k \in 1..Len(log)
    PROVE  \E m : Folds(NotesAt(k - 1), Inputs(r, k), m, NotesAt(k))
<1>1. PICK W, V, I, G, H, v, m :
         /\ W = NotesAt(k - 1) /\ V = NotesAt(k) /\ I = Inputs(r, k)
         /\ G = Leaves(k - 1) /\ H = Leaves(k) /\ v = runs[r].plan[k].value
         /\ m = [leaf |-> Len(G) + 1, value |-> v]
  OBVIOUS
<1>2. /\ ChainOK /\ BookTypes /\ Len(log) \in Nat /\ DOMAIN log = 1..Len(log)
      /\ k - 1 \in 0..Len(log) /\ k \in 0..Len(log)
      /\ \A n \in I : IsThere(n, k - 1)
  <2>1. ChainOK /\ BookTypes
    BY InvIsChainOK DEF ChainOK
  <2>2. Len(log) \in Nat /\ DOMAIN log = 1..Len(log)
    BY <2>1 DEF BookTypes
  <2>. QED BY <1>1, <2>1, <2>2, AloneSpends
<1>3. /\ k \in 1..runs[r].leg /\ LegTx(log[k], r, k) /\ runs[r].plan[k].merge
      /\ txs[log[k]].run = r /\ txs[log[k]].type = "merge"
  <2>1. PICK S : S = runs[r].notes
    OBVIOUS
  <2>. QED BY <1>2, <2>1, AloneIs DEF Alone
<1>4. txs[log[k]].ins = {n.leaf : n \in I}
  BY <1>1, <1>3 DEF LegTx
<1>5. /\ W \in Purse /\ V \in Purse /\ W \in Pile /\ V \in Pile
      /\ \A n : n \in W <=> IsThere(n, k - 1) /\ n.leaf \notin SpentAt(k - 1)
      /\ \A n : n \in V <=> IsThere(n, k) /\ n.leaf \notin SpentAt(k)
  BY <1>1, <1>2, NotesAreThere DEF Purse
<1>6. /\ G \in Seq(OutRec) /\ H \in Seq(OutRec) /\ Len(G) \in Nat /\ Len(H) \in Nat
      /\ \A i \in 1..Len(G) : H[i] = G[i]
  <2>1. k - 1 <= k
    BY <1>2
  <2>. QED BY <1>1, <1>2, <2>1, LeavesGrow
<1>7. SpentAt(k) = SpentAt(k - 1) \cup txs[log[k]].ins
  <2>1. 1..k = 1..(k - 1) \cup {k}
    BY <1>2
  <2>. QED BY <2>1 DEF SpentAt
<1>8. /\ \A i \in SpentAt(k - 1) : i \in Int /\ 1 <= i /\ i <= Len(G)
      /\ \A n \in I : n.leaf \in 1..Len(G)
  BY <1>1, <1>2, AloneSpent DEF IsThere
<1>9. /\ I \in Pile /\ Total(I) = v /\ v \in Nat
  <2>1. /\ I \in Pile /\ Total(I) = Total(runs[r].plan[k].ins) /\ v \in Nat
        /\ k \in 1..Len(runs[r].plan)
    BY <1>1, <1>2, <1>3, InputsAre, LegIs
  <2>2. PlanFits(runs[r].plan, runs[r].notes, runs[r].kind, runs[r].amount)
    BY <1>2, RunPlanFits DEF ChainOK
  <2>3. Total(runs[r].plan[k].ins) = v
    BY <1>1, <1>3, <2>1, <2>2 DEF PlanFits
  <2>. QED BY <2>1, <2>3
<1>10. /\ txs[log[k]].outs = OutsOf("merge", v, 0)
       /\ Len(H) = Len(G) + 2 /\ H[Len(G) + 2] = Out(0, TRUE)
  <2>1. TypeOf(r, k) = "merge"
    BY <1>3 DEF LegTx
  <2>2. txs[log[k]].outs = OutsOf("merge", v, Total(I) - v)
    BY <1>1, <1>3, <2>1 DEF LegTx
  <2>3. Total(I) - v = 0
    BY <1>9
  <2>4. txs[log[k]].outs = OutsOf("merge", v, 0)
    BY <2>2, <2>3
  <2>5. PICK outs : outs = OutsOf("merge", v, 0) /\ outs = txs[log[k]].outs
    BY <2>4
  <2>6. Len(outs) = 2 /\ outs[2] = Out(0, TRUE)
    BY <2>5, OutsAre
  <2>7. /\ Len(H) = Len(G) + Len(outs)
        /\ \A i \in 1..Len(outs) : H[Len(G) + i] = outs[i]
    <3>1. LET o == txs[log[k]].outs
          IN  /\ Len(Leaves(k)) = Len(Leaves(k - 1)) + Len(o)
              /\ \A i \in 1..Len(o) : Leaves(k)[Len(Leaves(k - 1)) + i] = o[i]
      BY <1>2, LeavesOf
    <3>. QED BY <1>1, <2>5, <3>1
  <2>8. 2 \in 1..Len(outs)
    BY <2>6
  <2>9. H[Len(G) + 2] = Out(0, TRUE)
    BY <2>6, <2>7, <2>8
  <2>. QED BY <2>4, <2>6, <2>7, <2>9
<1>11. m.leaf = Len(G) + 1 /\ m.value = v /\ IsThere(m, k) /\ m \in Selectable
  <2>1. txs[log[k]].leg = k
    <3>1. LandsInOrder /\ DOMAIN log = 1..Len(log) /\ \A a \in 1..k : a \in 1..Len(log)
      BY <1>2 DEF WalletInv, BookTypes
    <3>. QED BY <3>1 DEF LandsInOrder, Alone
  <2>2. MadeAt(m, r, k, k)
    BY <1>1, <1>2, <1>3, <2>1, MadeByMerge
  <2>. QED BY <1>1, <2>2 DEF MadeAt, IsThere
<1>12. I \in SUBSET W
  <2>1. ASSUME NEW n \in I PROVE n.leaf \notin SpentAt(k - 1)
    <3>1. SUFFICES ASSUME n.leaf \in SpentAt(k - 1) PROVE FALSE
      OBVIOUS
    <3>2. PICK j \in 1..(k - 1) : n.leaf \in txs[log[j]].ins
      BY <3>1 DEF SpentAt
    <3>3. j \in 1..Len(log) /\ j # k
      BY <1>2
    <3>4. j \in 1..runs[r].leg /\ txs[log[j]].ins = {a.leaf : a \in Inputs(r, j)}
      <4>1. PICK S : S = runs[r].notes
        OBVIOUS
      <4>. QED BY <3>3, <4>1, AloneIs, AloneSpends
    <3>5. {a.leaf : a \in Inputs(r, k)} \cap {a.leaf : a \in Inputs(r, j)} = {}
      BY <1>2, <1>3, <3>3, <3>4, InputsApart
    <3>6. n.leaf \in {a.leaf : a \in Inputs(r, k)}
      BY <1>1
    <3>. QED BY <3>2, <3>4, <3>5, <3>6
  <2>. QED BY <1>2, <1>5, <2>1
<1>13. m \in V
  <2>1. m.leaf \notin SpentAt(k)
    BY <1>4, <1>6, <1>7, <1>8, <1>11
  <2>. QED BY <1>5, <1>11, <2>1
<1>14. m \notin W
  <2>1. m \in W => m.leaf \in 1..Len(G)
    BY <1>1, <1>5 DEF IsThere
  <2>. QED BY <1>6, <1>11, <2>1
<1>15. ASSUME NEW n \in W \ I PROVE n \in V
  <2>1. IsThere(n, k - 1) /\ n.leaf \notin SpentAt(k - 1)
    BY <1>5
  <2>2. IsThere(n, k)
    <3>1. k - 1 <= k
      BY <1>2
    <3>. QED BY <1>2, <2>1, <3>1, StaysThere
  <2>3. n.leaf \notin txs[log[k]].ins
    BY <1>4, <1>5, <1>12 DEF Pile, Apart
  <2>. QED BY <1>5, <1>7, <2>1, <2>2, <2>3
<1>16. ASSUME NEW n \in V PROVE n \in W \ I \/ n = m \/ n.value = 0
  <2>1. /\ IsThere(n, k) /\ n.leaf \notin SpentAt(k) /\ n \in Selectable
        /\ n.leaf \in 1..Len(H) /\ H[n.leaf].mine /\ n.value = H[n.leaf].value
    BY <1>1, <1>5 DEF IsThere
  <2>2. CASE n.leaf \in 1..Len(G)
    <3>1. IsThere(n, k - 1)
      BY <1>1, <1>6, <2>1, <2>2 DEF IsThere
    <3>. QED BY <1>4, <1>5, <1>7, <2>1, <3>1
  <2>3. CASE n.leaf = Len(G) + 1
    <3>1. H[m.leaf].value = m.value
      BY <1>1, <1>11 DEF IsThere
    <3>. QED BY <1>11, <2>1, <2>3, <3>1, SelectableIs
  <2>4. CASE n.leaf = Len(G) + 2
    <3>1. n.value = Out(0, TRUE).value
      BY <1>10, <2>1, <2>4
    <3>. QED BY <3>1, OutIs
  <2>. QED BY <1>6, <1>10, <2>1, <2>2, <2>3, <2>4
<1>. QED BY <1>1, <1>5, <1>9, <1>11, <1>12, <1>13, <1>14, <1>15, <1>16 DEF Folds

\* A leg's inputs are no more than it planned.
LEMMA InputsAreFew ==
    ASSUME NEW r, NEW l, IsFiniteSet(runs[r].plan[l].ins)
    PROVE  Cardinality(Inputs(r, l)) <= Cardinality(runs[r].plan[l].ins)
<1>1. PICK S, T, f : /\ S = runs[r].plan[l].ins /\ T = Inputs(r, l)
                     /\ f = [n \in S |-> Resolved(r, n)]
  OBVIOUS
<1>2. T = {f[n] : n \in S}
  BY <1>1 DEF Inputs
<1>3. DOMAIN f = S /\ f = [n \in S |-> f[n]]
  BY <1>1
<1>4. f \in [S -> T] /\ \A y \in T : \E x \in S : f[x] = y
  BY <1>2, <1>3
<1>5. f \in Surjection(S, T)
  BY <1>4 DEF Surjection
<1>. QED BY <1>1, <1>5, FS_Surjection

\* The chain an undisturbed run made pays with k notes what its planned working set
\* would: what the purse pays with as many more as its merges folded away.
LEMMA AloneTop ==
    ASSUME WalletInv, NEW r \in DOMAIN runs, Alone(r), NEW S, S = runs[r].notes,
           NEW M, IsMerges(S, runs[r].kind, runs[r].amount, M),
           runs[r].plan = Plan(S, runs[r].amount, M)
    PROVE  /\ Len(log) \in 0..M /\ Len(runs[r].plan) = M + 1
           /\ \A h \in 0..Len(log) : \A k \in Nat \ {0} :
                 Top(NotesAt(h), k) = Top(S, h * (TRANSFER10_ARITY - 1) + k)
<1>1. PICK K, L, plan, kind, amount :
         /\ K = TRANSFER10_ARITY /\ L = Len(log) /\ plan = runs[r].plan
         /\ kind = runs[r].kind /\ amount = runs[r].amount
  OBVIOUS
<1>2. /\ S \in Purse /\ S \in Pile /\ S = NotesAt(0) /\ kind \in Spending /\ amount \in Nat \ {0}
      /\ \A k \in 1..L : k \in 1..runs[r].leg /\ LegTx(log[k], r, k) /\ plan[k].merge
  BY <1>1, AloneIs DEF Purse
<1>3. ChainOK /\ BookTypes /\ L \in Nat
  BY <1>1, InvIsChainOK DEF ChainOK, BookTypes
<1>4. K \in Nat /\ K >= 2 /\ K \in Nat \ {0} /\ M \in 0..Cardinality(S) /\ Cardinality(S) \in Nat
      /\ M \in Nat
  <2>1. Cardinality(S) \in Nat /\ M \in 0..Cardinality(S)
    BY <1>2, PileIsFinite DEF IsMerges
  <2>. QED BY <1>1, <2>1, ArityIs
<1>5. plan = [leg \in 1..(M + 1) |-> IF leg <= M THEN MergeLeg(S, leg) ELSE LastLeg(S, amount, M)]
  BY <1>1 DEF Plan
<1>6. Len(plan) = M + 1
  <2>1. PICK n \in Nat : n = M + 1
    BY <1>4
  <2>2. plan = [leg \in 1..n |-> plan[leg]]
    BY <1>5, <2>1
  <2>. QED BY <2>1, <2>2, FunIsSeq
<1>7. PlanOK(plan, S, kind, amount)
  BY <1>1, PlanIsOK DEF Alone
<1>8. ASSUME NEW k \in 1..L
      PROVE  /\ k <= M /\ plan[k].ins = Fold(Held(S, k - 1))
             /\ k \in 1..Len(plan) /\ Cardinality(plan[k].ins) <= K /\ IsFiniteSet(plan[k].ins)
  <2>1. k \in 1..Len(plan)
    BY <1>1, <1>2, <1>3, LegIs
  <2>2. LegOK(plan, S, kind, k) /\ plan[k].merge
    BY <1>2, <1>7, <2>1 DEF PlanOK
  <2>3. k < Len(plan) /\ Cardinality(plan[k].ins) <= K /\ plan[k].ins \in Pile
    BY <1>1, <2>2 DEF LegOK
  <2>4. k <= M /\ k \in 1..(M + 1)
    BY <1>3, <1>4, <1>6, <2>1, <2>3
  <2>5. plan[k] = MergeLeg(S, k)
    BY <1>5, <2>4
  <2>. QED BY <2>1, <2>3, <2>4, <2>5, PileIsFinite DEF MergeLeg
<1>9. L \in 0..M
  <2>1. CASE L = 0
    BY <1>4, <2>1
  <2>2. CASE L # 0
    <3>1. L \in 1..L
      BY <1>3, <2>2
    <3>2. L <= M
      BY <1>8, <3>1
    <3>. QED BY <1>3, <1>4, <3>2
  <2>. QED BY <2>1, <2>2
<1> DEFINE Good(h) == \A k \in Nat \ {0} : Top(NotesAt(h), k) = Top(S, h * (K - 1) + k)
           Bad == {h \in 0..L : ~Good(h)}
<1>10. SUFFICES Bad = {}
  BY <1>1, <1>6, <1>9
<1>11. SUFFICES ASSUME Bad # {} PROVE FALSE
  OBVIOUS
<1>12. PICK j \in Bad : \A i \in Bad : j <= i
  <2>1. Bad \subseteq Nat
    BY <1>3
  <2>. HIDE DEF Bad
  <2>. QED BY <1>11, <2>1, LeastNatural
<1>13. j # 0
  <2>1. SUFFICES ASSUME j = 0 PROVE FALSE
    OBVIOUS
  <2>2. \A i \in Nat \ {0} : j * (K - 1) + i = i
    BY <1>4, <2>1
  <2>. QED BY <1>2, <2>1, <2>2
<1>14. PICK h \in Nat : j = h + 1 /\ j \in 1..L /\ h \in 0..L /\ j - 1 = h
  <2>1. j \in Nat /\ j - 1 \in Nat
    BY <1>3, <1>13
  <2>2. j = (j - 1) + 1 /\ j \in 1..L /\ j - 1 \in 0..L
    BY <1>3, <1>13, <2>1
  <2>. QED BY <2>1, <2>2
<1>15. Good(h)
  <2>1. h \notin Bad
    <3>. HIDE DEF Bad
    <3>. QED BY <1>12, <1>14
  <2>. QED BY <1>14, <2>1
<1>16. PICK W, V, I : W = NotesAt(h) /\ V = NotesAt(j) /\ I = Inputs(r, j)
  OBVIOUS
<1>17. PICK m : Folds(W, I, m, V)
  BY <1>1, <1>14, <1>16, AloneFolds
<1>18. Cardinality(I) <= K
  <2>1. /\ Cardinality(plan[j].ins) <= K /\ IsFiniteSet(plan[j].ins)
    BY <1>8, <1>14
  <2>2. Cardinality(I) <= Cardinality(plan[j].ins)
    BY <1>1, <1>16, <2>1, InputsAreFew
  <2>3. Cardinality(plan[j].ins) \in Nat /\ IsFiniteSet(I)
    <3>1. I \in Pile
      BY <1>17, PartOfPile DEF Folds
    <3>. QED BY <2>1, <3>1, FS_CardinalityType, PileIsFinite
  <2>4. Cardinality(I) \in Nat
    BY <2>3, FS_CardinalityType
  <2>. QED BY <1>4, <2>1, <2>2, <2>3, <2>4
<1>19. Total(I) = Top(W, K)
  <2>1. Total(I) = Total(plan[j].ins)
    BY <1>1, <1>2, <1>3, <1>14, <1>16, InputsAre
  <2>2. plan[j].ins = Fold(Held(S, h))
    BY <1>8, <1>14
  <2>3. Total(I) = Top(Held(S, h), K)
    BY <1>1, <2>1, <2>2 DEF Fold, Top
  <2>4. h \in 0..Cardinality(S)
    BY <1>3, <1>4, <1>9, <1>14
  <2>5. Top(Held(S, h), K) = Top(S, h * (K - 1) + K)
    <3>1. TRANSFER10_ARITY \in Nat \ {0}
      BY <1>1, <1>4
    <3>2. Top(Held(S, h), TRANSFER10_ARITY)
             = Top(S, h * (TRANSFER10_ARITY - 1) + TRANSFER10_ARITY)
      BY <1>2, <2>4, <3>1, TopHeld
    <3>. QED BY <1>1, <3>2
  <2>6. Top(W, K) = Top(S, h * (K - 1) + K)
    BY <1>4, <1>15, <1>16
  <2>. QED BY <2>3, <2>5, <2>6
<1>20. ASSUME NEW i \in Nat \ {0} PROVE Top(V, i) = Top(S, j * (K - 1) + i)
  <2>1. Top(V, i) = Top(W, K - 1 + i)
    BY <1>4, <1>17, <1>18, <1>19, FoldKeepsTop
  <2>2. K - 1 + i \in Nat \ {0}
    BY <1>4
  <2>3. Top(W, K - 1 + i) = Top(S, h * (K - 1) + (K - 1 + i))
    BY <1>15, <1>16, <2>2
  <2>4. PICK q : q = K - 1 /\ q \in Nat
    BY <1>4
  <2>5. h * q + (q + i) = (h + 1) * q + i
    BY <2>4
  <2>. QED BY <1>14, <2>1, <2>3, <2>4, <2>5
<1>. QED BY <1>12, <1>16, <1>20

\* The log of a state, as a function.
LEMMA LogIs ==
    WalletInv => /\ LogOK /\ Len(log) \in Nat /\ DOMAIN log = 1..Len(log)
                 /\ log \in [1..Len(log) -> DOMAIN txs]
                 /\ \A k \in DOMAIN log : log[k] \in DOMAIN txs
<1>1. SUFFICES ASSUME WalletInv
      PROVE  /\ LogOK /\ Len(log) \in Nat /\ DOMAIN log = 1..Len(log)
             /\ log \in [1..Len(log) -> DOMAIN txs]
             /\ \A k \in DOMAIN log : log[k] \in DOMAIN txs
  OBVIOUS
<1>2. LogOK /\ log \in Seq(DOMAIN txs)
  BY <1>1 DEF WalletInv, TypesOK
<1>. QED BY <1>2

\* As many merges as landed are the log's, if there is nothing else.
LEMMA AloneIsAll ==
    ASSUME WalletInv, NEW r \in DOMAIN runs, runs[r].kind \notin Deposits,
           NEW merges, merges = {i \in Txs(r) \cap Landed : txs[i].type = "merge"},
           DOMAIN txs = merges
    PROVE  Alone(r) /\ Cardinality(merges) = Len(log)
<1>1. /\ LogOK /\ Len(log) \in Nat /\ DOMAIN log = 1..Len(log)
      /\ log \in [1..Len(log) -> merges] /\ \A k \in DOMAIN log : log[k] \in merges
  BY LogIs
<1>2. \A k \in DOMAIN log : log[k] \in merges
  BY <1>1
<1>3. \A i \in merges : /\ txs[i].run = r /\ txs[i].type = "merge" /\ i \in DOMAIN txs
                        /\ txs[i].status = "landed"
  BY DEF Txs, Landed
<1>4. Alone(r)
  BY <1>2, <1>3 DEF Alone
<1>5. \A i \in merges : \E k \in DOMAIN log : log[k] = i
  BY <1>1, <1>3 DEF LogOK
<1>6. \A a, b \in DOMAIN log : log[a] = log[b] => a = b
  BY <1>1 DEF LogOK
<1>8. log \in Bijection(1..Len(log), merges)
  BY <1>1, <1>5, <1>6 DEF Bijection, Injection, Surjection, IsInjective
<1>9. ExistsBijection(1..Len(log), merges)
  BY <1>8 DEF ExistsBijection
<1>10. Cardinality(merges) = Len(log)
  BY <1>1, <1>9, FS_CountingElements
<1>. QED BY <1>4, <1>10

\* The least of two numbers of merges is one, whichever chain is counted from.
LEMMA RetryPlans ==
    ASSUME WalletInv, NEW r \in DOMAIN runs, Alone(r),
           NEW N, N = NotesAt(Len(log)), NEW kind, kind = runs[r].kind,
           NEW amount, amount = runs[r].amount
    PROVE  /\ Total(N) >= amount
           /\ Len(planSpendChain(kind, N, amount)) = Len(runs[r].plan) - Len(log)
<1>1. PICK S, L, K, a : /\ S = runs[r].notes /\ L = Len(log) /\ K = TRANSFER10_ARITY
                        /\ a = terminalArity(kind)
  OBVIOUS
<1>2. /\ S \in Purse /\ S \in Pile /\ kind \in Spending /\ amount \in Nat \ {0}
      /\ Total(S) >= amount /\ runs[r].plan = planSpendChain(kind, S, amount)
  BY <1>1, AloneIs DEF Purse
<1>3. /\ K \in Nat /\ K >= 2 /\ a \in Nat \ {0} /\ Cardinality(S) \in Nat /\ Total(S) \in Nat
  BY <1>1, <1>2, ArityIs, PileIsFinite
<1>4. PICK M : IsMerges(S, kind, amount, M) /\ runs[r].plan = Plan(S, amount, M)
  BY <1>2, PlanIs
<1>5. /\ L \in 0..M /\ Len(runs[r].plan) = M + 1
      /\ \A k \in Nat \ {0} : Top(N, k) = Top(S, L * (K - 1) + k)
  <2>1. /\ Len(log) \in 0..M /\ Len(runs[r].plan) = M + 1
        /\ \A h \in 0..Len(log) : \A k \in Nat \ {0} :
              Top(NotesAt(h), k) = Top(S, h * (TRANSFER10_ARITY - 1) + k)
    BY <1>1, <1>4, AloneTop
  <2>2. L \in 0..L
    BY <1>1, <2>1
  <2>. QED BY <1>1, <2>1, <2>2
<1>6. M \in Nat /\ L \in Nat /\ M \in 0..Cardinality(S)
  BY <1>3, <1>4, <1>5 DEF IsMerges
<1>7. N \in Purse /\ N \in Pile /\ Cardinality(N) \in Nat /\ Total(N) \in Nat
  <2>1. BookTypes
    BY InvIsChainOK DEF ChainOK
  <2>2. L \in 0..Len(log)
    BY <1>1, <1>6
  <2>. QED BY <1>1, <2>1, <2>2, NotesAreThere, PileIsFinite DEF Purse
<1>8. Total(N) >= amount
  <2>1. PICK k : k = Cardinality(S) + 1 /\ k \in Nat \ {0}
    BY <1>3
  <2>2. PICK i \in Nat : i = L * (K - 1)
    <3>1. K - 1 \in Nat
      BY <1>3
    <3>. QED BY <1>6, <3>1
  <2>3. i + k \in Nat /\ i + k >= Cardinality(S)
    BY <1>3, <2>1, <2>2
  <2>4. Top(S, i + k) = Total(S)
    BY <1>2, <2>3, TopIs
  <2>5. Top(N, k) = Total(S)
    BY <1>5, <2>1, <2>2, <2>4
  <2>6. Top(N, k) <= Total(N) /\ Top(N, k) \in Nat
    BY <1>7, <2>1, TopIs
  <2>. QED BY <1>2, <1>3, <1>7, <2>5, <2>6
<1>9. PICK W : IsMerges(N, kind, amount, W) /\ planSpendChain(kind, N, amount) = Plan(N, amount, W)
  BY <1>2, <1>7, <1>8, PlanIs
<1>10. W \in Nat /\ W \in 0..Cardinality(N) /\ Len(planSpendChain(kind, N, amount)) = W + 1
  <2>1. W \in Nat /\ W \in 0..Cardinality(N)
    BY <1>7, <1>9 DEF IsMerges
  <2>2. PICK n \in Nat : n = W + 1
    BY <2>1
  <2>3. PICK plan : plan = Plan(N, amount, W)
    OBVIOUS
  <2>4. plan = [leg \in 1..n |-> plan[leg]]
    BY <2>2, <2>3 DEF Plan
  <2>. QED BY <1>9, <2>1, <2>2, <2>3, <2>4, FunIsSeq
<1> DEFINE Pays(m) == Top(S, m * (K - 1) + a) >= amount
<1>11. ASSUME NEW m \in 0..Cardinality(S) PROVE Payable(kind, Held(S, m), amount) <=> Pays(m)
  <2>1. Held(S, m) \in Pile /\ Total(Held(S, m)) >= amount
    BY <1>2, HeldCovers
  <2>2. Payable(kind, Held(S, m), amount) <=> Top(Held(S, m), a) >= amount
    BY <1>1, <1>2, <2>1, PayableIs
  <2>3. Top(Held(S, m), a) = Top(S, m * (K - 1) + a)
    BY <1>1, <1>2, <1>3, TopHeld
  <2>. QED BY <2>2, <2>3
<1>12. ASSUME NEW m \in 0..Cardinality(N) PROVE Payable(kind, Held(N, m), amount) <=> Pays(L + m)
  <2>1. Held(N, m) \in Pile /\ Total(Held(N, m)) >= amount
    BY <1>7, <1>8, HeldCovers
  <2>2. Payable(kind, Held(N, m), amount) <=> Top(Held(N, m), a) >= amount
    BY <1>1, <1>2, <2>1, PayableIs
  <2>3. Top(Held(N, m), a) = Top(N, m * (K - 1) + a)
    BY <1>1, <1>3, <1>7, TopHeld
  <2>4. PICK q : q = K - 1 /\ q \in Nat
    BY <1>3
  <2>5. m \in Nat /\ m * q \in Nat
    BY <1>7, <2>4
  <2>6. m * q + a \in Nat \ {0}
    BY <1>3, <2>5
  <2>7. Top(N, m * q + a) = Top(S, L * q + (m * q + a))
    BY <1>5, <2>4, <2>6
  <2>8. L * q + (m * q + a) = (L + m) * q + a
    BY <1>3, <1>6, <2>4, <2>5
  <2>. QED BY <2>2, <2>3, <2>4, <2>7, <2>8
<1>13. Pays(M) /\ \A l \in 0..(M - 1) : ~Pays(l)
  <2>. HIDE DEF Pays
  <2>1. Pays(M)
    BY <1>4, <1>6, <1>11 DEF IsMerges
  <2>2. ASSUME NEW l \in 0..(M - 1) PROVE ~Pays(l)
    <3>1. l \in 0..Cardinality(S)
      BY <1>3, <1>6
    <3>2. ~Payable(kind, Held(S, l), amount)
      BY <1>4 DEF IsMerges
    <3>. QED BY <1>11, <3>1, <3>2
  <2>. QED BY <2>1, <2>2
<1>14. Pays(L + W) /\ \A l \in 0..(W - 1) : ~Pays(L + l)
  <2>. HIDE DEF Pays
  <2>1. Pays(L + W)
    BY <1>9, <1>10, <1>12 DEF IsMerges
  <2>2. ASSUME NEW l \in 0..(W - 1) PROVE ~Pays(L + l)
    <3>1. l \in 0..Cardinality(N)
      BY <1>7, <1>10
    <3>2. ~Payable(kind, Held(N, l), amount)
      BY <1>9 DEF IsMerges
    <3>. QED BY <1>12, <3>1, <3>2
  <2>. QED BY <2>1, <2>2
<1>15. M = L + W
  <2>. HIDE DEF Pays
  <2>1. CASE M < L + W
    <3>1. M - L \in 0..(W - 1) /\ L + (M - L) = M
      BY <1>5, <1>6, <1>10, <2>1
    <3>2. ~Pays(L + (M - L))
      BY <1>14, <3>1
    <3>. QED BY <1>13, <3>1, <3>2
  <2>2. CASE L + W < M
    <3>1. L + W \in 0..(M - 1)
      BY <1>6, <1>10, <2>2
    <3>. QED BY <1>13, <1>14, <3>1
  <2>. QED BY <1>6, <1>10, <2>1, <2>2
<1>. QED BY <1>1, <1>5, <1>6, <1>8, <1>10, <1>15

\* The same, of a state.
LEMMA RetryNow ==
    ASSUME WalletInv, NEW r \in DOMAIN runs, Alone(r)
    PROVE  /\ Total(NotesAt(Len(log))) >= runs[r].amount
           /\ Len(planSpendChain(runs[r].kind, NotesAt(Len(log)), runs[r].amount))
                  = Len(runs[r].plan) - Len(log)
  BY RetryPlans

\* What the invariant says of a chain that is planned again.
LEMMA RetriesAreShorter == WalletInv => RetryIsShorter
<1>1. SUFFICES ASSUME WalletInv, NEW r \in DOMAIN runs, runs[r].kind \notin Deposits,
                      NEW merges, merges = {i \in Txs(r) \cap Landed : txs[i].type = "merge"},
                      DOMAIN txs = merges
      PROVE  /\ Total(NotesAt(Len(log))) >= runs[r].amount
             /\ Len(planSpendChain(runs[r].kind, NotesAt(Len(log)), runs[r].amount))
                    = Len(runs[r].plan) - Cardinality(merges)
  BY DEF RetryIsShorter
<1>2. Alone(r) /\ Cardinality(merges) = Len(log)
  BY <1>1, AloneIsAll
<1>3. /\ Total(NotesAt(Len(log))) >= runs[r].amount
      /\ Len(planSpendChain(runs[r].kind, NotesAt(Len(log)), runs[r].amount))
             = Len(runs[r].plan) - Len(log)
  BY <1>1, <1>2, RetryNow
<1>. QED BY <1>2, <1>3

\* Plans are payable as they stand (planSpendChain, plan.ts:286: the amount is covered with
\* notes the page holds, in legs a circuit takes, no more of them than plan.ts:280 says),
\* and one that failed half way is planned again over what the chain made of it with as
\* many legs fewer as it landed (driver.ts:95), whatever the notes and the arity.
THEOREM WalletPlansAreSound == WalletSpec => []PlansAreSound
<1>1. WalletInv => PlansAreSound
  BY PlansAreOK, RetriesAreShorter DEF PlansAreSound
<1>. QED BY <1>1, WalletInvariant, PTL
===============================================================================
