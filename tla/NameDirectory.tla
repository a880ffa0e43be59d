--------------------------- MODULE NameDirectory ---------------------------
(***************************************************************************)
(* The indexer's name directory (apps/indexer/src/names.ts and the POST    *)
(* /names route): which owner a name pays, and with which keys.            *)
(*                                                                         *)
(* A registration is checked against the served map, awaits its insert,    *)
(* and is served when the insert has answered, so that several for one     *)
(* name may be under way.  A v1 payload holds a stealth address, a v2      *)
(* payload the consumer pair too, or the wish to clear it; whoever sends   *)
(* one holds the owner's signature over it, and a captured one may be sent *)
(* again.                                                                  *)
(***************************************************************************)
EXTENDS Naturals, Sequences

CONSTANTS Name, Owner,
          Meta,         \* stealth addresses
          Pair,         \* consumer pairs
          None,         \* no record, no pair
          MaxRequests,  \* bound on the registrations sent
          MaxCrashes    \* bound on the crashes

VARIABLES byName,    \* the served map
          rows,      \* the table
          registrations,  \* the registrations, in the order they were received
          up,        \* whether the process runs
          crashes,
          \* for the properties only:
          claimed,   \* the names that were ever served
          stored     \* every row there ever was

directoryVars == <<byName, rows, registrations, up, crashes, claimed, stored>>

Record == [owner : Owner, meta : Meta, pair : Pair \cup {None}]

ASSUME DirectoryAssumption == None \notin Record /\ None \notin Pair

Empty == [n \in Name |-> None]

At(i, pc) == registrations[i].pc = pc

Goes(i, pc) == registrations' = [registrations EXCEPT ![i].pc = pc]

-----------------------------------------------------------------------------
\* Mutant: anyone may write over a record.
TakenByNobody(existing, owner) == FALSE

Taken(existing, owner) == existing /= None /\ existing.owner /= owner

\* A v1 write keeps the pair it finds, a v2 write applies its own.
pairOf(existing, form, pair) ==
    IF form = "v2" THEN pair ELSE IF existing = None THEN None ELSE existing.pair

\* A signed payload is received and checked against what is served.
register(name, owner, meta, form, pair) ==
    LET existing == byName[name]
    IN  /\ up /\ Len(registrations) < MaxRequests
        /\ registrations' = Append(registrations,
               [name |-> name, form |-> form, signed |-> pair, late |-> name \in claimed,
                pc |-> IF Taken(existing, owner) THEN "taken" ELSE "insert",
                record |-> [owner |-> owner, meta |-> meta, pair |-> pairOf(existing, form, pair)]])
        /\ UNCHANGED <<byName, rows, up, crashes, claimed, stored>>

\* The row is written, also for a process that is gone.
insertRow(i) ==
    /\ At(i, "insert")
    /\ rows' = [rows EXCEPT ![registrations[i].name] = registrations[i].record]
    /\ stored' = stored \cup {<<registrations[i].name, registrations[i].record>>}
    /\ Goes(i, IF up THEN "committed" ELSE "unheard")
    /\ UNCHANGED <<byName, up, crashes, claimed>>

\* The insert, or its answer, is lost; the caller is told that it failed.
insertFails(i) ==
    /\ At(i, "insert") \/ At(i, "committed")
    /\ Goes(i, IF At(i, "insert") THEN "failed" ELSE "unheard")
    /\ UNCHANGED <<byName, rows, up, crashes, claimed, stored>>

\* Mutant: the map is written without waiting for the row.
AwaitedNothing(i) == At(i, "insert") \/ At(i, "committed")

Awaited(i) == At(i, "committed")

\* The insert is answered, and the record is served.
serve(i) ==
    /\ up /\ Awaited(i)
    /\ byName' = [byName EXCEPT ![registrations[i].name] = registrations[i].record]
    /\ claimed' = claimed \cup {registrations[i].name}
    /\ Goes(i, "ok")
    /\ UNCHANGED <<rows, up, crashes, stored>>

\* The process dies; inserts it has sent may still be applied.
DirectoryCrash ==
    /\ up /\ crashes < MaxCrashes
    /\ up' = FALSE /\ crashes' = crashes + 1
    /\ byName' = Empty
    /\ registrations' = [i \in DOMAIN registrations |->
                       IF At(i, "committed") THEN [registrations[i] EXCEPT !.pc = "unheard"] ELSE registrations[i]]
    /\ UNCHANGED <<rows, claimed, stored>>

\* Mutant: a boot starts with an empty directory.
LoadedNothing == Empty

Loaded == rows

\* A boot reads every row before the API listens; what a dead process had sent has been
\* applied or dropped by then.
bootDirectory ==
    /\ ~up
    /\ \A i \in DOMAIN registrations : ~At(i, "insert")
    /\ up' = TRUE
    /\ byName' = Loaded
    /\ claimed' = claimed \cup {n \in Name : byName'[n] /= None}
    /\ UNCHANGED <<rows, registrations, crashes, stored>>

DirectoryInit ==
    /\ byName = Empty /\ rows = Empty
    /\ registrations = <<>>
    /\ up = TRUE /\ crashes = 0
    /\ claimed = {} /\ stored = {}

DirectoryNext ==
    \/ \E name \in Name, owner \in Owner, meta \in Meta :
          \/ register(name, owner, meta, "v1", None)
          \/ \E pair \in Pair \cup {None} : register(name, owner, meta, "v2", pair)
    \/ \E i \in DOMAIN registrations : insertRow(i) \/ insertFails(i) \/ serve(i)
    \/ DirectoryCrash \/ bootDirectory

DirectorySpec == DirectoryInit /\ [][DirectoryNext]_directoryVars

-----------------------------------------------------------------------------
Passed(i) == ~At(i, "taken")

\* What the owner of this record has signed for this name.
SignedBy(owner, name) == {i \in DOMAIN registrations : registrations[i].name = name /\ registrations[i].record.owner = owner}

\* Every record, served or stored, is its owner's own: the stealth address and the pair
\* were signed for that name by that owner, although a v1 write copies a pair it read
\* before others were applied (names.ts:103).
RecordsAreSigned ==
    \A n \in Name : \A r \in {byName[n], rows[n]} \ {None} :
        /\ \E i \in SignedBy(r.owner, n) : registrations[i].record.meta = r.meta
        /\ r.pair /= None => \E i \in SignedBy(r.owner, n) : registrations[i].signed = r.pair

\* Served state is never ahead of durable state (names.ts:48): what a payer is shown was a
\* row, and a name that was ever shown keeps one, whatever crashed or failed since.
ServedWasStored ==
    /\ \A n \in Name : byName[n] /= None => <<n, byName[n]>> \in stored
    /\ \A n \in claimed : rows[n] /= None

\* Once a name was served, in this process or an earlier one, nobody gets to write it but
\* those who had asked for it before (names.ts:97).
LatecomersAreRefused ==
    \A i \in DOMAIN registrations : Passed(i) /\ registrations[i].late =>
        \E j \in 1..(i - 1) :
            /\ Passed(j) /\ ~registrations[j].late
            /\ registrations[j].name = registrations[i].name
            /\ registrations[j].record.owner = registrations[i].record.owner

\* names.ts:12 says that a name is first-come and never transferable.  The code does not
\* keep it: two requests that were checked before either was stored overwrite each other.
NeverTransferred ==
    [][\A n \in Name : rows[n] /= None => rows'[n] /= None /\ rows'[n].owner = rows[n].owner]_directoryVars

\* names.ts:19 says that a v1 write leaves the consumer pair untouched.  The code does not
\* keep it: the pair it writes was read before the insert was awaited.
TripleSurvivesV1 ==
    [][\A i \in DOMAIN registrations : insertRow(i) /\ registrations[i].form = "v1" =>
           LET n == registrations[i].name
           IN  rows[n] /= None /\ rows[n].owner = rows'[n].owner => rows'[n].pair = rows[n].pair]_directoryVars
=============================================================================
