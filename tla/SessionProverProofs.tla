------------------------ MODULE SessionProverProofs ------------------------
(***************************************************************************)
(* Of an operation that is asked for in a page, the key and the proof.     *)
(* What the prover service guarantees for any list of circuits, any number *)
(* of requests and faults, and pipes of any length; and what the key cache *)
(* guarantees for any number of accounts, any idle time and any number of  *)
(* actions, whichever way the wallet answers a popup.                      *)
(***************************************************************************)
EXTENDS Prover, Session, FiniteSetTheorems, TLAPS

-----------------------------------------------------------------------------
(***************************************************************************)
(* The prover.                                                             *)
(***************************************************************************)
InsidePc == {"start", "hello", "gate", "compile", "compute", "send", "read", "gpu"}
Talking  == {"hello", "read"}
Artifact == {"fits", "stale", "broken", "missing"}
Size     == Artifact \cup {"none"}
Someone  == User \cup {Nobody}
Line     == {"log", "assertion"}
Message  == [ok : BOOLEAN, for : Someone, size : Size]

WorkerRecord ==
    [phase : {"none", "loading", "idle", "busy", "dead"}, job : Someone,
     stalled : BOOLEAN, logged : Nat, stdin : Seq(User), out : Seq(Message),
     err : Seq(Line)]

Typed == /\ status \in {"initializing", "ready", "failed"}
         /\ booted \in Nat
         /\ proveLock \in Someone
         /\ pc \in [User -> InsidePc \cup {"none", "locking", "done"}]
         /\ ask \in [User -> [circuit : Circuit, kind : Kind]]
         /\ got \in [User -> [for : Someone, size : Size]]
         /\ compiled \subseteq Circuit
         /\ size \in [Circuit -> Size]
         /\ worker \in [Circuit -> WorkerRecord]
         /\ artifact \in [Circuit -> Artifact]

-----------------------------------------------------------------------------
(***************************************************************************)
(* The invariant.                                                          *)
(***************************************************************************)
\* The boot thread is inside until it ends, and alone; a request is inside
\* under the lock.
TurnOK == /\ pc[Boot] \in InsidePc \cup {"done"}
          /\ pc[Boot] /= "done" => status = "initializing"
          /\ status = "initializing" =>
                pc[Boot] /= "done" /\ \A r \in Request : pc[r] \in {"none", "done"}
          /\ \A r \in Request : pc[r] \in InsidePc => proveLock = r

\* An engine that is compiled has a .so that fits, and a worker of that .so says so.
FitOK == /\ \A c \in compiled : artifact[c] = "fits"
         /\ \A c \in Circuit : size[c] \in {"none", artifact[c]}
         /\ pc[Boot] = "compile" => size[At(Boot)] = "fits"
         /\ \A u \in User : pc[u] \in {"send", "read", "gpu"} => At(u) \in compiled

\* What is in the pipes of a worker: nothing, its introduction, or one request's job.
Quiet(w) == /\ w.phase \in {"none", "idle", "dead"}
            /\ w.stdin = <<>> /\ w.out = <<>> /\ w.job = Nobody

Introducing(c, w) ==
    /\ w.stdin = <<>> /\ w.job = Nobody
    /\ \/ w.phase \in {"loading", "dead"} /\ w.out = <<>>
       \/ /\ w.phase \in {"idle", "dead"}
          /\ w.out = <<[ok |-> TRUE, for |-> Nobody, size |-> artifact[c]]>>

ServingJob(c, u, w) ==
    \/ w.phase \in {"idle", "dead"} /\ w.stdin = <<u>> /\ w.out = <<>> /\ w.job = Nobody
    \/ w.phase \in {"busy", "dead"} /\ w.stdin = <<>> /\ w.out = <<>> /\ w.job = u
    \/ /\ w.phase \in {"idle", "dead"} /\ w.stdin = <<>> /\ w.job = Nobody
       /\ \E ok \in BOOLEAN : w.out = <<[ok |-> ok, for |-> u, size |-> artifact[c]]>>

\* ... as the user that talks to it expects.
Fits(c, u, p, w) == /\ p = "hello" => Introducing(c, w)
                    /\ p = "read" => ServingJob(c, u, w)
                    /\ p \notin Talking => Quiet(w)

PipesOK ==
    /\ \A u \in User : pc[u] \in Talking => Fits(At(u), u, pc[u], worker[At(u)])
    /\ \A c \in Circuit :
          (\A u \in User : pc[u] \in Talking => At(u) /= c) => Quiet(worker[c])

GotOK == \A u \in User : pc[u] = "gpu" => got[u] = [for |-> u, size |-> "fits"]

Inv == Typed /\ TurnOK /\ FitOK /\ PipesOK /\ GotOK

-----------------------------------------------------------------------------
LEMMA BootIsNoRequest == Boot \in User /\ Request \subseteq User /\ Boot \notin Request
BY ProverAssumption DEF User

LEMMA FirstCircuit == BootOrder[1] \in Circuit
BY ProverAssumption DEF Circuit

LEMMA NoWorkerQuiet == NoWorker \in WorkerRecord /\ Quiet(NoWorker)
BY DEF NoWorker, WorkerRecord, Quiet, Someone

LEMMA SpawnedIntroduces ==
    ASSUME NEW c
    PROVE  Spawned \in WorkerRecord /\ Introducing(c, Spawned)
<1>1. NoWorker \in WorkerRecord /\ NoWorker.stdin = <<>> /\ NoWorker.out = <<>>
      /\ NoWorker.job = Nobody
  BY NoWorkerQuiet DEF Quiet
<1>2. /\ Spawned \in WorkerRecord /\ Spawned.phase = "loading"
      /\ Spawned.stdin = <<>> /\ Spawned.out = <<>> /\ Spawned.job = Nobody
  BY <1>1 DEF Spawned, WorkerRecord
<1>. QED BY <1>2 DEF Introducing

LEMMA InitInv == Init => Inv
<1>. SUFFICES ASSUME Init PROVE Inv
  OBVIOUS
<1>1. /\ pc \in [User -> InsidePc \cup {"none", "locking", "done"}]
      /\ pc[Boot] = "start" /\ \A r \in Request : pc[r] = "none"
      /\ \A u \in User : pc[u] \in {"start", "none"}
  BY BootIsNoRequest DEF Init, InsidePc
<1>2. Typed
  BY <1>1, FirstCircuit, NoWorkerQuiet
     DEF Init, Typed, NoWitness, Someone, Size, Artifact, Kind
<1>3. TurnOK /\ FitOK /\ GotOK
  BY <1>1 DEF Init, TurnOK, FitOK, GotOK, InsidePc
<1>4. PipesOK
  BY <1>1, NoWorkerQuiet DEF Init, PipesOK, Talking
<1>. QED BY <1>2, <1>3, <1>4 DEF Inv

(***************************************************************************)
(* One thread at a time: the boot thread before any request, requests      *)
(* under the lock.                                                         *)
(***************************************************************************)
LEMMA OneInside ==
    ASSUME TurnOK, NEW u \in User, NEW v \in User, pc[u] \in InsidePc, pc[v] \in InsidePc
    PROVE  u = v
<1>1. CASE u = Boot \/ v = Boot
  <2>1. status = "initializing"
    BY <1>1 DEF TurnOK, InsidePc
  <2>2. \A r \in Request : pc[r] \notin InsidePc
    BY <2>1 DEF TurnOK, InsidePc
  <2>. QED BY <2>2 DEF User
<1>2. CASE u \in Request /\ v \in Request
  BY <1>2 DEF TurnOK
<1>. QED BY <1>1, <1>2 DEF User

\* A step of the one who is inside changes the pipes of the worker it is at.
LEMMA PipesStep ==
    ASSUME Inv, NEW u \in User, pc[u] \in InsidePc, NEW p, pc' = [pc EXCEPT ![u] = p],
           UNCHANGED <<ask, artifact>>, NEW w, worker' = [worker EXCEPT ![At(u)] = w],
           Fits(At(u), u, p, w)
    PROVE  PipesOK'
<1>1. /\ At(u) \in Circuit /\ worker'[At(u)] = w /\ pc'[u] = p
      /\ \A c \in Circuit : c /= At(u) => worker'[c] = worker[c]
      /\ \A v \in User : v /= u => pc'[v] = pc[v]
      /\ \A v \in User : At(v)' = At(v)
  BY DEF Inv, Typed, At
<1>2. \A v \in User : v /= u => pc[v] \notin Talking
  BY OneInside DEF Inv, Talking, InsidePc
<1>3. ASSUME NEW v \in User, pc'[v] \in Talking
      PROVE  Fits(At(v), v, pc[v], worker[At(v)])'
  <2>1. v = u
    BY <1>1, <1>2, <1>3
  <2>2. At(u)' = At(u) /\ artifact' = artifact
    BY <1>1
  <2>. QED BY <1>1, <2>1, <2>2 DEF Fits, Introducing, ServingJob, Quiet
<1>4. ASSUME NEW c \in Circuit, \A v \in User : pc'[v] \in Talking => At(v)' /= c
      PROVE  Quiet(worker'[c])
  <2>1. CASE c = At(u)
    <3>1. p \notin Talking
      BY <1>1, <1>4, <2>1
    <3>. QED BY <1>1, <2>1, <3>1 DEF Fits
  <2>2. CASE c /= At(u)
    <3>1. \A v \in User : pc[v] \in Talking => At(v) /= c
      BY <1>2, <2>2
    <3>. QED BY <1>1, <2>2, <3>1 DEF Inv, PipesOK
  <2>. QED BY <2>1, <2>2
<1>. QED BY <1>3, <1>4 DEF PipesOK, Quiet

\* A step of one who talks to no worker, and then does not either.
LEMMA PipesStay ==
    ASSUME Inv, NEW u \in User, pc[u] \notin Talking, NEW p, p \notin Talking,
           pc' = [pc EXCEPT ![u] = p], UNCHANGED <<worker, artifact>>,
           \A v \in User : v /= u => ask'[v] = ask[v]
    PROVE  PipesOK'
<1>1. /\ pc'[u] = p /\ \A v \in User : v /= u => pc'[v] = pc[v]
      /\ \A v \in User : v /= u => At(v)' = At(v)
  BY DEF Inv, Typed, At
<1>2. ASSUME NEW v \in User, pc'[v] \in Talking
      PROVE  Fits(At(v), v, pc[v], worker[At(v)])'
  <2>1. v /= u /\ pc'[v] = pc[v] /\ At(v)' = At(v)
    BY <1>1, <1>2
  <2>2. Fits(At(v), v, pc[v], worker[At(v)])
    BY <1>2, <2>1 DEF Inv, PipesOK
  <2>. QED BY <2>1, <2>2 DEF Fits, Introducing, ServingJob, Quiet
<1>3. ASSUME NEW c \in Circuit, \A v \in User : pc'[v] \in Talking => At(v)' /= c
      PROVE  Quiet(worker'[c])
  <2>1. \A v \in User : pc[v] \in Talking => At(v) /= c
    BY <1>1, <1>3
  <2>. QED BY <2>1 DEF Inv, PipesOK
<1>. QED BY <1>2, <1>3 DEF PipesOK, Quiet

LEMMA AppendIn ==
    ASSUME NEW S, NEW s \in Seq(S), NEW e \in S
    PROVE  Append(s, e) \in Seq(S)
OBVIOUS

\* Nothing is in the pipes of a worker whose user is not talking to it.
LEMMA QuietAt ==
    ASSUME Inv, NEW u \in User, pc[u] \in InsidePc \ Talking
    PROVE  /\ At(u) \in Circuit /\ worker[At(u)] \in WorkerRecord
           /\ Quiet(worker[At(u)])
           /\ worker = [worker EXCEPT ![At(u)] = worker[At(u)]]
<1>1. At(u) \in Circuit /\ worker \in [Circuit -> WorkerRecord]
  BY DEF Inv, Typed, At
<1>2. \A v \in User : pc[v] \in Talking => At(v) /= At(u)
  BY OneInside DEF Inv, Talking, InsidePc
<1>3. Quiet(worker[At(u)])
  BY <1>1, <1>2 DEF Inv, PipesOK
<1>. QED BY <1>1, <1>3

\* Who is inside goes on inside.
LEMMA GoKeeps ==
    ASSUME Inv, NEW u \in User, pc[u] \in InsidePc, NEW p \in InsidePc, Goto(u, p),
           UNCHANGED <<status, proveLock, booted, ask, artifact>>,
           NEW w \in WorkerRecord, worker' = [worker EXCEPT ![At(u)] = w],
           Fits(At(u), u, p, w), compiled' \subseteq Circuit,
           size' \in [Circuit -> Size], FitOK',
           got' \in [User -> [for : Someone, size : Size]],
           p = "gpu" => got'[u] = [for |-> u, size |-> "fits"]
    PROVE  Inv'
<1>1. pc' = [pc EXCEPT ![u] = p] /\ pc \in [User -> InsidePc \cup {"none", "locking", "done"}]
  BY DEF Goto, Inv, Typed
<1>2. pc'[u] = p /\ \A v \in User : v /= u => pc'[v] = pc[v]
  BY <1>1
<1>3. \A v \in User : v /= u => pc[v] \notin InsidePc
  BY OneInside DEF Inv
<1>4. Typed'
  BY <1>1 DEF Inv, Typed
<1>5. TurnOK'
  BY <1>2, BootIsNoRequest DEF Inv, TurnOK, InsidePc
<1>6. PipesOK'
  BY <1>1, PipesStep
<1>7. GotOK'
  BY <1>2, <1>3 DEF GotOK, InsidePc
<1>. QED BY <1>4, <1>5, <1>6, <1>7 DEF Inv

\* Who is inside leaves, and with it the lock; the boot thread ends the boot.
LEMMA LeaveKeeps ==
    ASSUME Inv, NEW u \in User, pc[u] \in InsidePc, Goto(u, "done"),
           u = Boot => status' \in {"ready", "failed"} /\ proveLock' = proveLock,
           u /= Boot => status' = status /\ proveLock' = IF proveLock = u THEN Nobody ELSE proveLock,
           booted' \in Nat, UNCHANGED <<ask, artifact, compiled, size>>,
           NEW w \in WorkerRecord, worker' = [worker EXCEPT ![At(u)] = w], Quiet(w),
           got' \in [User -> [for : Someone, size : Size]]
    PROVE  Inv'
<1>1. pc' = [pc EXCEPT ![u] = "done"]
      /\ pc \in [User -> InsidePc \cup {"none", "locking", "done"}]
  BY DEF Goto, Inv, Typed
<1>2. pc'[u] = "done" /\ \A v \in User : v /= u => pc'[v] = pc[v]
  BY <1>1
<1>3. \A v \in User : v /= u => pc[v] \notin InsidePc
  BY OneInside DEF Inv
<1>4. Typed'
  BY <1>1, BootIsNoRequest DEF Inv, Typed, Someone
<1>5. TurnOK'
  BY <1>2, <1>3, BootIsNoRequest DEF Inv, TurnOK, InsidePc
<1>6. PipesOK'
  <2>1. Fits(At(u), u, "done", w)
    BY DEF Fits, Talking
  <2>. QED BY <1>1, <2>1, PipesStep
<1>7. FitOK'
  BY <1>2, BootIsNoRequest DEF Inv, FitOK, At
<1>8. GotOK'
  BY <1>2, <1>3 DEF GotOK, InsidePc
<1>. QED BY <1>4, <1>5, <1>6, <1>7, <1>8 DEF Inv

LEMMA FailKeeps ==
    ASSUME Inv, NEW u \in User, pc[u] \in InsidePc, NEW code, Fail(u, code),
           UNCHANGED <<booted, ask, artifact, compiled, size>>,
           NEW w \in WorkerRecord, worker' = [worker EXCEPT ![At(u)] = w], Quiet(w),
           got' \in [User -> [for : Someone, size : Size]]
    PROVE  Inv'
<1>1. /\ Goto(u, "done")
      /\ u = Boot => status' \in {"ready", "failed"} /\ proveLock' = proveLock
      /\ u /= Boot => status' = status /\ proveLock' = IF proveLock = u THEN Nobody ELSE proveLock
  BY DEF Fail
<1>2. booted' \in Nat
  BY DEF Inv, Typed
<1>. QED BY <1>1, <1>2, LeaveKeeps

\* A worker's step, or a read of its stderr.
LEMMA WorkerKeeps ==
    ASSUME Inv, NEW c \in Circuit, NEW w \in WorkerRecord,
           worker' = [worker EXCEPT ![c] = w],
           UNCHANGED <<status, booted, proveLock, pc, ask, got, compiled, size, artifact>>,
           Introducing(c, worker[c]) => Introducing(c, w),
           \A u \in User : ServingJob(c, u, worker[c]) => ServingJob(c, u, w),
           Quiet(worker[c]) => Quiet(w)
    PROVE  Inv'
<1>1. /\ worker \in [Circuit -> WorkerRecord]
      /\ worker'[c] = w /\ \A d \in Circuit : d /= c => worker'[d] = worker[d]
  BY DEF Inv, Typed
<1>2. Typed'
  BY <1>1 DEF Inv, Typed
<1>3. TurnOK' /\ FitOK' /\ GotOK'
  BY DEF Inv, TurnOK, FitOK, GotOK, At
<1>4. ASSUME NEW u \in User, pc[u] \in Talking
      PROVE  Fits(At(u), u, pc[u], worker'[At(u)])
  <2>1. At(u) \in Circuit /\ Fits(At(u), u, pc[u], worker[At(u)])
    BY <1>4 DEF Inv, PipesOK, Typed, At
  <2>. QED BY <1>1, <1>4, <2>1 DEF Fits
<1>5. PipesOK'
  <2>1. \A u \in User : pc'[u] \in Talking => Fits(At(u), u, pc[u], worker[At(u)])'
    BY <1>4 DEF Fits, Introducing, ServingJob, Quiet, At
  <2>2. \A d \in Circuit :
          (\A u \in User : pc'[u] \in Talking => At(u)' /= d) => Quiet(worker'[d])
    BY <1>1 DEF Inv, PipesOK, At
  <2>. QED BY <2>1, <2>2 DEF PipesOK, Quiet
<1>. QED BY <1>2, <1>3, <1>5 DEF Inv

-----------------------------------------------------------------------------
(***************************************************************************)
(* The worker.                                                             *)
(***************************************************************************)
LEMMA LoadInv ==
    ASSUME Inv, NEW c \in Circuit, Load(c)
    PROVE  Inv'
<1>1. /\ worker[c] \in WorkerRecord /\ worker[c].phase = "loading"
      /\ artifact[c] \in Artifact
  BY DEF Load, Works, Inv, Typed
<1> DEFINE m == [ok |-> TRUE, for |-> Nobody, size |-> artifact[c]]
           dead == [worker[c] EXCEPT !.phase = "dead"]
           idle == [worker[c] EXCEPT !.phase = "idle", !.out = Append(@, m)]
<1>2. m \in Message
  BY <1>1 DEF Message, Someone, Size
<1>3. dead \in WorkerRecord /\ dead.phase = "dead" /\ dead.stdin = worker[c].stdin
      /\ dead.out = worker[c].out /\ dead.job = worker[c].job
  BY <1>1 DEF WorkerRecord
<1>4. idle \in WorkerRecord /\ idle.phase = "idle" /\ idle.stdin = worker[c].stdin
      /\ idle.out = Append(worker[c].out, m) /\ idle.job = worker[c].job
  <2>. HIDE DEF m
  <2>1. Append(worker[c].out, m) \in Seq(Message)
    BY <1>1, <1>2, AppendIn DEF WorkerRecord
  <2>. QED BY <1>1, <2>1 DEF WorkerRecord
<1>5. /\ Introducing(c, worker[c]) => Introducing(c, dead)
      /\ Introducing(c, worker[c]) => Introducing(c, idle)
  <2>1. Append(<<>>, m) = <<m>>
    OBVIOUS
  <2>. HIDE DEF dead, idle
  <2>. QED BY <1>1, <1>3, <1>4, <2>1 DEF Introducing
<1>6. ~Quiet(worker[c]) /\ \A u \in User : ~ServingJob(c, u, worker[c])
  BY <1>1 DEF Quiet, ServingJob
<1>7. /\ worker' = [worker EXCEPT ![c] = IF artifact[c] = "broken" THEN dead ELSE idle]
      /\ UNCHANGED <<status, booted, proveLock, pc, ask, got, compiled, size, artifact>>
  BY DEF Load, SetWorker, host
<1>. HIDE DEF dead, idle
<1>8. CASE artifact[c] = "broken"
  BY <1>3, <1>5, <1>6, <1>7, <1>8, WorkerKeeps
<1>9. CASE artifact[c] /= "broken"
  BY <1>4, <1>5, <1>6, <1>7, <1>9, WorkerKeeps
<1>. QED BY <1>8, <1>9

LEMMA ReadLineInv ==
    ASSUME Inv, NEW c \in Circuit, ReadLine(c)
    PROVE  Inv'
<1>1. /\ worker[c] \in WorkerRecord /\ worker[c].phase = "idle"
      /\ worker[c].stdin /= <<>> /\ worker[c].stdin \in Seq(User)
  BY DEF ReadLine, Works, Inv, Typed, WorkerRecord
<1> DEFINE w == [worker[c] EXCEPT !.phase = "busy", !.logged = 0,
                     !.job = Head(worker[c].stdin), !.stdin = Tail(@)]
<1>2. /\ Head(worker[c].stdin) \in Someone
      /\ Tail(worker[c].stdin) \in Seq(User)
  BY <1>1 DEF Someone
<1>3. /\ w \in WorkerRecord /\ w.phase = "busy" /\ w.stdin = Tail(worker[c].stdin)
      /\ w.out = worker[c].out /\ w.job = Head(worker[c].stdin)
  BY <1>1, <1>2 DEF WorkerRecord
<1>4. ~Quiet(worker[c]) /\ ~Introducing(c, worker[c])
  BY <1>1 DEF Quiet, Introducing
<1>. HIDE DEF w
<1>5. ASSUME NEW u \in User, ServingJob(c, u, worker[c])
      PROVE  ServingJob(c, u, w)
  <2>1. worker[c].stdin = <<u>> /\ worker[c].out = <<>>
    BY <1>1, <1>5 DEF ServingJob
  <2>2. Head(<<u>>) = u /\ Tail(<<u>>) = <<>>
    OBVIOUS
  <2>. QED BY <1>3, <2>1, <2>2 DEF ServingJob
<1>6. /\ worker' = [worker EXCEPT ![c] = w]
      /\ UNCHANGED <<status, booted, proveLock, pc, ask, got, compiled, size, artifact>>
  BY DEF ReadLine, SetWorker, host, w
<1>. QED BY <1>3, <1>4, <1>5, <1>6, WorkerKeeps

\* Steps that touch nothing but what the invariant does not speak of.
LEMMA SameKeeps ==
    ASSUME Inv, NEW c \in Circuit, NEW w \in WorkerRecord,
           worker' = [worker EXCEPT ![c] = w],
           UNCHANGED <<status, booted, proveLock, pc, ask, got, compiled, size, artifact>>,
           w.phase = worker[c].phase \/ (w.phase = "dead" /\ worker[c].phase /= "none"),
           w.stdin = worker[c].stdin, w.out = worker[c].out, w.job = worker[c].job
    PROVE  Inv'
<1>1. worker[c].phase \in {"none", "loading", "idle", "busy", "dead"}
  BY DEF Inv, Typed, WorkerRecord
<1>2. /\ Introducing(c, worker[c]) => Introducing(c, w)
      /\ Quiet(worker[c]) => Quiet(w)
      /\ \A u \in User : ServingJob(c, u, worker[c]) => ServingJob(c, u, w)
  BY <1>1 DEF Introducing, Quiet, ServingJob
<1>. QED BY <1>2, WorkerKeeps

LEMMA LogInv ==
    ASSUME Inv, NEW c \in Circuit, Log(c)
    PROVE  Inv'
<1>1. worker[c] \in WorkerRecord /\ worker[c].logged \in Nat
      /\ worker[c].err \in Seq(Line)
  BY DEF Inv, Typed, WorkerRecord
<1> DEFINE w == [worker[c] EXCEPT !.err = Append(@, "log"), !.logged = @ + 1]
<1>2. /\ Append(worker[c].err, "log") \in Seq(Line)
      /\ worker[c].logged + 1 \in Nat
  <2>1. "log" \in Line
    BY DEF Line
  <2>. QED BY <1>1, <2>1, AppendIn
<1>3. /\ w \in WorkerRecord /\ w.phase = worker[c].phase /\ w.stdin = worker[c].stdin
      /\ w.out = worker[c].out /\ w.job = worker[c].job
  BY <1>1, <1>2 DEF WorkerRecord
<1>4. /\ worker' = [worker EXCEPT ![c] = w]
      /\ UNCHANGED <<status, booted, proveLock, pc, ask, got, compiled, size, artifact>>
  BY DEF Log, SetWorker, host
<1>. HIDE DEF w
<1>. QED BY <1>3, <1>4, SameKeeps

LEMMA MainInv ==
    ASSUME Inv, NEW c \in Circuit, circuit_main(c)
    PROVE  Inv'
<1> DEFINE job == worker[c].job
           kind == ask[job].kind
           m == [ok |-> kind = "good", for |-> job, size |-> artifact[c]]
           broken == [worker[c] EXCEPT !.phase = "dead", !.err = Append(@, "assertion")]
           done == [worker[c] EXCEPT !.phase = "idle", !.job = Nobody, !.out = Append(@, m)]
<1>1. /\ worker[c] \in WorkerRecord /\ worker[c].phase = "busy" /\ job \in Someone
      /\ worker[c].err \in Seq(Line) /\ artifact[c] \in Artifact
  BY DEF circuit_main, Works, Inv, Typed, WorkerRecord
<1>2. m \in Message
  BY <1>1 DEF Message, Size
<1>3. /\ broken \in WorkerRecord /\ broken.phase = "dead"
      /\ broken.stdin = worker[c].stdin
      /\ broken.out = worker[c].out /\ broken.job = job
  <2>1. Append(worker[c].err, "assertion") \in Seq(Line)
    <3>1. "assertion" \in Line
      BY DEF Line
    <3>. QED BY <1>1, <3>1, AppendIn
  <2>. QED BY <1>1, <2>1 DEF WorkerRecord
<1>4. /\ done \in WorkerRecord /\ done.phase = "idle" /\ done.stdin = worker[c].stdin
      /\ done.out = Append(worker[c].out, m) /\ done.job = Nobody
  <2>. HIDE DEF m
  <2>1. Append(worker[c].out, m) \in Seq(Message) /\ Nobody \in Someone
    BY <1>1, <1>2, AppendIn DEF WorkerRecord, Someone
  <2>. QED BY <1>1, <2>1 DEF WorkerRecord
<1>5. UNCHANGED <<status, booted, proveLock, pc, ask, got, compiled, size, artifact>>
  BY DEF circuit_main, SetWorker, host
<1>6. CASE kind = "unsat"
  <2>1. worker' = [worker EXCEPT ![c] = broken]
    BY <1>6 DEF circuit_main, SetWorker
  <2>. HIDE DEF broken
  <2>. QED BY <1>1, <1>3, <1>5, <2>1, SameKeeps
<1>7. CASE kind /= "unsat"
  <2>1. worker' = [worker EXCEPT ![c] = done]
    BY <1>7 DEF circuit_main, SetWorker
  <2>2. ~Quiet(worker[c]) /\ ~Introducing(c, worker[c])
    BY <1>1 DEF Quiet, Introducing
  <2>3. ASSUME NEW u \in User, ServingJob(c, u, worker[c])
        PROVE  ServingJob(c, u, done)
    <3>1. job = u /\ worker[c].stdin = <<>> /\ worker[c].out = <<>>
      BY <1>1, <2>3 DEF ServingJob
    <3>2. Append(<<>>, m) = <<m>> /\ (kind = "good") \in BOOLEAN
      OBVIOUS
    <3>3. done.out = <<m>> /\ done.phase = "idle" /\ done.stdin = <<>> /\ done.job = Nobody
      BY <1>4, <3>1, <3>2
    <3>4. \E ok \in BOOLEAN : <<m>> = <<[ok |-> ok, for |-> u, size |-> artifact[c]]>>
      BY <3>1, <3>2
    <3>. HIDE DEF done, m
    <3>. QED BY <3>3, <3>4 DEF ServingJob
  <2>. HIDE DEF done
  <2>. QED BY <1>4, <1>5, <2>1, <2>2, <2>3, WorkerKeeps
<1>. QED BY <1>6, <1>7

LEMMA FaultInv ==
    ASSUME Inv, NEW c \in Circuit, Die(c) \/ Stall(c) \/ Resume(c)
    PROVE  Inv'
<1>1. worker[c] \in WorkerRecord
  BY DEF Inv, Typed
<1>2. UNCHANGED <<status, booted, proveLock, pc, ask, got, compiled, size, artifact>>
  BY DEF Die, Stall, Resume, SetWorker, host
<1>3. CASE Die(c)
  <2> DEFINE w == [worker[c] EXCEPT !.phase = "dead"]
  <2>1. /\ w \in WorkerRecord /\ w.phase = "dead" /\ w.stdin = worker[c].stdin
        /\ w.out = worker[c].out /\ w.job = worker[c].job
    BY <1>1 DEF WorkerRecord
  <2>2. worker' = [worker EXCEPT ![c] = w] /\ worker[c].phase /= "none"
    BY <1>3 DEF Die, Alive
  <2>. HIDE DEF w
  <2>. QED BY <1>2, <2>1, <2>2, SameKeeps
<1>4. ASSUME NEW b \in BOOLEAN, worker' = [worker EXCEPT ![c] = [worker[c] EXCEPT !.stalled = b]]
      PROVE  Inv'
  <2> DEFINE w == [worker[c] EXCEPT !.stalled = b]
  <2>1. /\ w \in WorkerRecord /\ w.phase = worker[c].phase /\ w.stdin = worker[c].stdin
        /\ w.out = worker[c].out /\ w.job = worker[c].job
    BY <1>1 DEF WorkerRecord
  <2>2. worker' = [worker EXCEPT ![c] = w]
    BY <1>4
  <2>. HIDE DEF w
  <2>. QED BY <1>2, <2>1, <2>2, SameKeeps
<1>. QED BY <1>3, <1>4 DEF Stall, Resume, SetWorker

-----------------------------------------------------------------------------
(***************************************************************************)
(* The way of a user to an engine.                                         *)
(***************************************************************************)
\* Who is not inside waits, or is turned away, or takes the free lock.
LEMMA ProveInv ==
    ASSUME Inv, NEW r \in Request, prove(r)
    PROVE  Inv'
<1>1. /\ pc[r] = "none" /\ r \in User /\ r /= Boot
      /\ UNCHANGED <<status, booted, got, compiled, size, worker, artifact>>
  BY BootIsNoRequest DEF prove, host, Fail
<1>2. ASSUME NEW p \in {"locking", "done"}, Goto(r, p), p = "locking" => status = "ready",
             proveLock' = proveLock \/ (proveLock = r /\ proveLock' = Nobody),
             NEW a \in [circuit : Circuit, kind : Kind],
             ask' = ask \/ ask' = [ask EXCEPT ![r] = a]
      PROVE  Inv'
  <2>1. /\ pc' = [pc EXCEPT ![r] = p]
        /\ pc \in [User -> InsidePc \cup {"none", "locking", "done"}]
        /\ ask \in [User -> [circuit : Circuit, kind : Kind]]
    BY <1>2 DEF Goto, Inv, Typed
  <2>2. /\ pc'[r] = p /\ \A v \in User : v /= r => pc'[v] = pc[v]
        /\ \A v \in User : v /= r => ask'[v] = ask[v]
        /\ p \notin InsidePc /\ p \notin Talking /\ pc[r] \notin Talking
        /\ p \notin {"send", "read", "gpu"}
    BY <1>1, <1>2, <2>1 DEF InsidePc, Talking
  <2>3. Typed'
    BY <1>1, <1>2, <2>1 DEF Inv, Typed, Someone
  <2>4. TurnOK'
    BY <1>1, <1>2, <2>2, BootIsNoRequest DEF Inv, TurnOK, InsidePc
  <2>5. FitOK' /\ GotOK'
    BY <1>1, <1>2, <2>2, BootIsNoRequest DEF Inv, FitOK, GotOK, At
  <2>6. PipesOK'
    BY <1>1, <2>1, <2>2, PipesStay
  <2>. QED BY <2>3, <2>4, <2>5, <2>6 DEF Inv
<1>3. PICK c \in Circuit, k \in Kind :
          IF Ready(c)
          THEN /\ ask' = [ask EXCEPT ![r] = [circuit |-> c, kind |-> k]]
               /\ Goto(r, "locking")
               /\ UNCHANGED <<status, answer, proveLock>>
          ELSE Fail(r, 503) /\ UNCHANGED ask
  BY DEF prove
<1>4. [circuit |-> c, kind |-> k] \in [circuit : Circuit, kind : Kind]
  OBVIOUS
<1>5. CASE Ready(c)
  BY <1>2, <1>3, <1>4, <1>5 DEF Ready
<1>6. CASE ~Ready(c)
  <2>1. Fail(r, 503) /\ ask' = ask
    BY <1>3, <1>6
  <2>2. Goto(r, "done") /\ (proveLock' = proveLock \/ (proveLock = r /\ proveLock' = Nobody))
    BY <1>1, <2>1 DEF Fail
  <2>. QED BY <1>2, <1>4, <2>1, <2>2
<1>. QED BY <1>5, <1>6

LEMMA AcquireInv ==
    ASSUME Inv, NEW r \in Request, Acquire(r)
    PROVE  Inv'
<1>1. /\ pc[r] = "locking" /\ r \in User /\ r /= Boot /\ proveLock = Nobody /\ proveLock' = r
      /\ pc' = [pc EXCEPT ![r] = "compute"]
      /\ UNCHANGED <<status, booted, ask, got, compiled, size, worker, artifact>>
  BY BootIsNoRequest DEF Acquire, Goto, host
<1>2. pc \in [User -> InsidePc \cup {"none", "locking", "done"}]
  BY DEF Inv, Typed
<1>3. pc'[r] = "compute" /\ \A v \in User : v /= r => pc'[v] = pc[v]
  BY <1>1, <1>2
<1>4. Typed'
  BY <1>1, <1>2 DEF Inv, Typed, Someone, InsidePc
<1>5. Nobody \notin Request
  BY ProverAssumption DEF User
<1>6. TurnOK'
  BY <1>1, <1>3, <1>5, BootIsNoRequest DEF Inv, TurnOK, InsidePc
<1>7. FitOK' /\ GotOK'
  BY <1>1, <1>3, BootIsNoRequest DEF Inv, FitOK, GotOK, At
<1>8. PipesOK'
  BY <1>1, PipesStay DEF Talking
<1>. QED BY <1>4, <1>6, <1>7, <1>8 DEF Inv

\* The shape of the state a user finds, wherever it is inside.
LEMMA UserFacts ==
    ASSUME Inv, NEW u \in User
    PROVE  /\ At(u) \in Circuit /\ worker[At(u)] \in WorkerRecord
           /\ worker = [worker EXCEPT ![At(u)] = worker[At(u)]]
           /\ got \in [User -> [for : Someone, size : Size]]
           /\ compiled \subseteq Circuit /\ size \in [Circuit -> Size]
           /\ artifact[At(u)] \in Artifact
           /\ NoWitness \in [for : Someone, size : Size]
BY DEF Inv, Typed, At, NoWitness, Someone, Size, Artifact

LEMMA DeathKeeps ==
    ASSUME Inv, NEW u \in User, pc[u] \in InsidePc,
           _death(u) \/ _timeout(u), UNCHANGED <<booted, ask, got, compiled, size, artifact>>
    PROVE  Inv'
<1>1. /\ worker' = [worker EXCEPT ![At(u)] = NoWorker]
      /\ \E code \in {400, 500} : Fail(u, code)
  BY DEF _death, _timeout, _kill
<1>2. got' \in [User -> [for : Someone, size : Size]]
  BY UserFacts
<1>. QED BY <1>1, <1>2, NoWorkerQuiet, FailKeeps

LEMMA ComputeInv ==
    ASSUME Inv, NEW u \in User, compute(u)
    PROVE  Inv'
<1>1. /\ pc[u] = "compute" /\ pc[u] \in InsidePc \ Talking
      /\ UNCHANGED <<booted, ask, got, compiled, size, artifact>>
  BY DEF compute, InsidePc, Talking
<1>2. Quiet(worker[At(u)])
  BY <1>1, QuietAt
<1>3. ASSUME NEW code, Fail(u, code), UNCHANGED worker
      PROVE  Inv'
  BY <1>1, <1>2, <1>3, UserFacts, FailKeeps
<1>4. ASSUME NEW p \in {"send", "hello"}, Goto(u, p), UNCHANGED <<status, proveLock>>,
             At(u) \in compiled,
             p = "send" => worker' = worker,
             p = "hello" => worker' = [worker EXCEPT ![At(u)] = Spawned]
      PROVE  Inv'
  <2>1. pc' = [pc EXCEPT ![u] = p] /\ \A v \in User : v /= u => pc'[v] = pc[v]
    BY <1>4 DEF Goto, Inv, Typed
  <2>2. pc'[u] = p /\ p \notin {"compile", "gpu"} /\ p \in InsidePc
    BY <2>1 DEF Inv, Typed, InsidePc
  <2>3. FitOK'
    BY <1>1, <1>4, <2>1, <2>2, BootIsNoRequest DEF Inv, FitOK, At
  <2>4. CASE p = "send"
    <3>1. Fits(At(u), u, p, worker[At(u)])
      BY <1>2, <2>4 DEF Fits, Talking
    <3>. QED BY <1>1, <1>4, <2>2, <2>3, <2>4, <3>1, UserFacts, GoKeeps
  <2>5. CASE p = "hello"
    <3>1. Fits(At(u), u, p, Spawned) /\ Spawned \in WorkerRecord
      BY <2>5, SpawnedIntroduces DEF Fits, Talking
    <3>. QED BY <1>1, <1>4, <2>2, <2>3, <2>5, <3>1, UserFacts, GoKeeps
  <2>. QED BY <2>4, <2>5
<1>. QED BY <1>3, <1>4 DEF compute, _kill

LEMMA SendInv ==
    ASSUME Inv, NEW u \in User, send(u)
    PROVE  Inv'
<1>1. /\ pc[u] = "send" /\ pc[u] \in InsidePc \ Talking
      /\ UNCHANGED <<booted, ask, got, compiled, size, artifact>>
  BY DEF send, InsidePc, Talking
<1>2. Quiet(worker[At(u)])
  BY <1>1, QuietAt
<1>3. CASE ~Alive(At(u))
  BY <1>1, <1>3, DeathKeeps DEF send
<1>4. CASE Alive(At(u))
  <2> DEFINE w == [worker[At(u)] EXCEPT !.stdin = Append(@, u)]
  <2>1. worker' = [worker EXCEPT ![At(u)] = w] /\ Goto(u, "read")
        /\ UNCHANGED <<status, proveLock>>
    BY <1>4 DEF send
  <2>2. /\ worker[At(u)].phase \in {"idle", "dead"} /\ worker[At(u)].stdin = <<>>
        /\ worker[At(u)].out = <<>> /\ worker[At(u)].job = Nobody
    BY <1>2, <1>4 DEF Quiet, Alive
  <2>3. Append(<<>>, u) = <<u>> /\ <<u>> \in Seq(User)
    OBVIOUS
  <2>4. /\ w \in WorkerRecord /\ w.phase = worker[At(u)].phase /\ w.stdin = <<u>>
        /\ w.out = <<>> /\ w.job = Nobody
    BY <2>2, <2>3, UserFacts DEF WorkerRecord
  <2>. HIDE DEF w
  <2>5. Fits(At(u), u, "read", w) /\ "read" \in InsidePc
    BY <2>2, <2>4 DEF Fits, ServingJob, Talking, InsidePc
  <2>6. pc' = [pc EXCEPT ![u] = "read"] /\ \A v \in User : v /= u => pc'[v] = pc[v]
        /\ pc'[u] = "read"
    BY <2>1 DEF Goto, Inv, Typed
  <2>7. FitOK'
    BY <1>1, <2>6, BootIsNoRequest DEF Inv, FitOK, At
  <2>. QED BY <1>1, <2>1, <2>4, <2>5, <2>7, UserFacts, GoKeeps
<1>. QED BY <1>3, <1>4

-----------------------------------------------------------------------------
(***************************************************************************)
(* Waiting for the worker.                                                 *)
(***************************************************************************)
LEMMA DrainInv ==
    ASSUME Inv, NEW u \in User, _drain_stderr_once(u)
    PROVE  Inv'
<1> DEFINE w == [worker[At(u)] EXCEPT !.err = Tail(@)]
<1>1. /\ worker' = [worker EXCEPT ![At(u)] = w] /\ worker[At(u)].err /= <<>>
      /\ UNCHANGED <<status, booted, proveLock, pc, ask, got, compiled, size, artifact>>
  BY DEF _drain_stderr_once
<1>2. Tail(worker[At(u)].err) \in Seq(Line)
  <2>1. worker[At(u)].err \in Seq(Line)
    BY UserFacts DEF WorkerRecord
  <2>. QED BY <1>1, <2>1
<1>3. /\ w \in WorkerRecord /\ w.phase = worker[At(u)].phase
      /\ w.stdin = worker[At(u)].stdin /\ w.out = worker[At(u)].out
      /\ w.job = worker[At(u)].job
  BY <1>2, UserFacts DEF WorkerRecord
<1>. HIDE DEF w
<1>. QED BY <1>1, <1>3, UserFacts, SameKeeps

LEMMA GivenUpInv ==
    ASSUME Inv, NEW u \in User, Eof(u) \/ Deadline(u)
    PROVE  Inv'
<1>1. /\ pc[u] \in InsidePc
      /\ UNCHANGED <<booted, ask, got, compiled, size, artifact>>
      /\ _death(u) \/ _timeout(u)
  BY DEF Eof, Deadline, AwaitsWorker, InsidePc
<1>. QED BY <1>1, DeathKeeps

\* A move that neither compiles nor introduces leaves the engines as they fit.
LEMMA FitStays ==
    ASSUME Inv, NEW u \in User, NEW p, Goto(u, p),
           UNCHANGED <<ask, artifact, compiled, size>>,
           p = "compile" => size[At(u)] = "fits",
           p \in {"send", "read", "gpu"} => At(u) \in compiled
    PROVE  FitOK'
<1>1. pc'[u] = p /\ \A v \in User : v /= u => pc'[v] = pc[v]
  BY DEF Goto, Inv, Typed
<1>2. \A v \in User : At(v)' = At(v)
  BY DEF At
<1>. QED BY <1>1, <1>2, BootIsNoRequest DEF Inv, FitOK

LEMMA HandshakeInv ==
    ASSUME Inv, NEW u \in User, start(u)
    PROVE  Inv'
<1> DEFINE p == IF At(u) \in compiled THEN "send" ELSE "gate"
           m == [ok |-> TRUE, for |-> Nobody, size |-> artifact[At(u)]]
           w == [worker[At(u)] EXCEPT !.out = Tail(@)]
<1>1. /\ pc[u] = "hello" /\ pc[u] \in InsidePc /\ worker[At(u)].out /= <<>> /\ Goto(u, p)
      /\ size' = [size EXCEPT ![At(u)] = Head(worker[At(u)].out).size]
      /\ worker' = [worker EXCEPT ![At(u)] = w]
      /\ UNCHANGED <<status, booted, proveLock, ask, got, compiled, artifact>>
  BY DEF start, InsidePc
<1>2. /\ worker[At(u)].phase \in {"idle", "dead"} /\ worker[At(u)].stdin = <<>>
      /\ worker[At(u)].job = Nobody /\ worker[At(u)].out = <<m>>
  <2>1. Introducing(At(u), worker[At(u)])
    BY <1>1 DEF Inv, PipesOK, Fits, Talking
  <2>. QED BY <1>1, <2>1 DEF Introducing
<1>3. Head(<<m>>) = m /\ Tail(<<m>>) = <<>> /\ <<>> \in Seq(Message)
  OBVIOUS
<1>4. /\ w \in WorkerRecord /\ w.phase = worker[At(u)].phase /\ w.stdin = <<>>
      /\ w.out = <<>> /\ w.job = Nobody
  <2>. HIDE DEF m
  <2>. QED BY <1>2, <1>3, UserFacts DEF WorkerRecord
<1>5. size' = [size EXCEPT ![At(u)] = artifact[At(u)]]
  <2>1. Head(worker[At(u)].out) = m
    BY <1>2, <1>3
  <2>2. m.size = artifact[At(u)]
    OBVIOUS
  <2>. HIDE DEF m, w, p
  <2>. QED BY <1>1, <2>1, <2>2
<1>6. p \in InsidePc /\ p \notin Talking /\ p \notin {"compile", "gpu"}
      /\ (p = "send" => At(u) \in compiled)
  BY DEF InsidePc, Talking
<1>. HIDE DEF w, m, p
<1>7. Fits(At(u), u, p, w)
  BY <1>2, <1>4, <1>6 DEF Fits, Quiet, Talking
<1>8. size' \in [Circuit -> Size]
  BY <1>5, UserFacts DEF Size
<1>9. FitOK'
  <2>1. pc'[u] = p /\ \A v \in User : v /= u => pc'[v] = pc[v]
    BY <1>1 DEF Goto, Inv, Typed
  <2>2. \A c \in Circuit : size'[c] \in {"none", artifact[c]}
    BY <1>5, UserFacts DEF Inv, FitOK
  <2>3. pc'[Boot] /= "compile"
    <3>1. CASE u = Boot
      BY <1>6, <2>1, <3>1
    <3>2. CASE u /= Boot
      BY <1>1, <2>1, <3>2, BootIsNoRequest, OneInside DEF Inv, InsidePc
    <3>. QED BY <3>1, <3>2
  <2>4. \A v \in User : At(v)' = At(v)
    BY <1>1 DEF At
  <2>5. p \notin {"read", "gpu"}
    BY <1>6 DEF Talking
  <2>. QED BY <1>1, <1>6, <2>1, <2>2, <2>3, <2>4, <2>5 DEF Inv, FitOK
<1>. QED BY <1>1, <1>4, <1>6, <1>7, <1>8, <1>9, UserFacts, GoKeeps

LEMMA AnsweredInv ==
    ASSUME Inv, NEW u \in User, Answered(u)
    PROVE  Inv'
<1> DEFINE w == [worker[At(u)] EXCEPT !.out = Tail(@)]
<1>1. /\ pc[u] = "read" /\ pc[u] \in InsidePc /\ worker[At(u)].out /= <<>>
      /\ worker' = [worker EXCEPT ![At(u)] = w]
      /\ UNCHANGED <<booted, ask, compiled, size, artifact>>
  BY DEF Answered, InsidePc, host
<1>2. PICK ok \in BOOLEAN :
          worker[At(u)].out = <<[ok |-> ok, for |-> u, size |-> artifact[At(u)]]>>
  <2>1. ServingJob(At(u), u, worker[At(u)])
    BY <1>1 DEF Inv, PipesOK, Fits, Talking
  <2>. QED BY <1>1, <2>1 DEF ServingJob
<1>3. /\ worker[At(u)].phase \in {"idle", "dead"} /\ worker[At(u)].stdin = <<>>
      /\ worker[At(u)].job = Nobody
  <2>1. ServingJob(At(u), u, worker[At(u)])
    BY <1>1 DEF Inv, PipesOK, Fits, Talking
  <2>. QED BY <1>1, <2>1 DEF ServingJob
<1> DEFINE m == [ok |-> ok, for |-> u, size |-> artifact[At(u)]]
<1>4. Head(<<m>>) = m /\ Tail(<<m>>) = <<>> /\ <<>> \in Seq(Message)
      /\ m.for = u /\ m.size = artifact[At(u)]
  OBVIOUS
<1>5. Head(worker[At(u)].out).for = u /\ Head(worker[At(u)].out).size = artifact[At(u)]
  BY <1>2, <1>4
<1>6. /\ w \in WorkerRecord /\ Quiet(w)
  <2>. HIDE DEF m
  <2>1. Tail(worker[At(u)].out) = <<>>
    BY <1>2, <1>4 DEF m
  <2>2. /\ w \in WorkerRecord /\ w.phase = worker[At(u)].phase /\ w.stdin = <<>>
        /\ w.out = <<>> /\ w.job = Nobody
    BY <1>3, <1>4, <2>1, UserFacts DEF WorkerRecord
  <2>. HIDE DEF w
  <2>. QED BY <1>3, <2>2 DEF Quiet
<1>. HIDE DEF w, m
<1>7. CASE /\ got' = [got EXCEPT ![u] = [for |-> u, size |-> artifact[At(u)]]]
           /\ Goto(u, "gpu") /\ UNCHANGED <<status, proveLock>>
  <2>1. At(u) \in compiled /\ artifact[At(u)] = "fits"
    BY <1>1 DEF Inv, FitOK
  <2>2. /\ got' \in [User -> [for : Someone, size : Size]]
        /\ got'[u] = [for |-> u, size |-> "fits"]
    BY <1>7, <2>1, UserFacts DEF Someone, Size, Artifact
  <2>3. FitOK'
    BY <1>1, <1>7, <2>1, FitStays
  <2>4. Fits(At(u), u, "gpu", w) /\ "gpu" \in InsidePc
    BY <1>6 DEF Fits, Talking, InsidePc
  <2>. QED BY <1>1, <1>6, <1>7, <2>2, <2>3, <2>4, UserFacts, GoKeeps
<1>8. ASSUME NEW code, Fail(u, code), got' = got
      PROVE  Inv'
  BY <1>1, <1>6, <1>8, UserFacts, FailKeeps
<1>. QED BY <1>5, <1>7, <1>8 DEF Answered

LEMMA ProveWitnessInv ==
    ASSUME Inv, NEW r \in Request, _prove_witness(r)
    PROVE  Inv'
<1>1. /\ r \in User /\ r /= Boot /\ pc[r] \in InsidePc \ Talking /\ Goto(r, "done")
      /\ proveLock' = IF proveLock = r THEN Nobody ELSE proveLock
      /\ got' = [got EXCEPT ![r] = NoWitness]
      /\ UNCHANGED <<status, booted, ask, compiled, size, worker, artifact>>
  BY BootIsNoRequest DEF _prove_witness, host, InsidePc, Talking
<1>2. got' \in [User -> [for : Someone, size : Size]] /\ booted' \in Nat
  BY <1>1, UserFacts DEF Inv, Typed
<1>. QED BY <1>1, <1>2, QuietAt, LeaveKeeps

LEMMA GpuThrowsInv ==
    ASSUME Inv, NEW u \in User, GpuThrows(u)
    PROVE  Inv'
<1>1. /\ pc[u] \in InsidePc \ Talking /\ Fail(u, 500)
      /\ got' = [got EXCEPT ![u] = NoWitness]
      /\ UNCHANGED <<booted, ask, compiled, size, worker, artifact>>
  BY DEF GpuThrows, host, InsidePc, Talking
<1>2. got' \in [User -> [for : Someone, size : Size]]
  BY <1>1, UserFacts
<1>. QED BY <1>1, <1>2, QuietAt, FailKeeps

-----------------------------------------------------------------------------
(***************************************************************************)
(* The boot thread.                                                        *)
(***************************************************************************)
LEMMA StartWorkerInv ==
    ASSUME Inv, StartWorker
    PROVE  Inv'
<1>1. /\ pc[Boot] \in InsidePc \ Talking /\ Boot \in User
      /\ UNCHANGED <<booted, ask, got, compiled, size, artifact>>
  BY BootIsNoRequest DEF StartWorker, InsidePc, Talking
<1>2. CASE artifact[At(Boot)] = "missing"
  <2>1. Fail(Boot, 500) /\ worker' = worker
    BY <1>2 DEF StartWorker
  <2>. QED BY <1>1, <2>1, QuietAt, UserFacts, FailKeeps
<1>3. CASE artifact[At(Boot)] /= "missing"
  <2>1. /\ Goto(Boot, "hello") /\ UNCHANGED <<status, proveLock>>
        /\ worker' = [worker EXCEPT ![At(Boot)] = Spawned]
    BY <1>3 DEF StartWorker, _kill
  <2>2. /\ Fits(At(Boot), Boot, "hello", Spawned) /\ Spawned \in WorkerRecord
        /\ "hello" \in InsidePc
    BY SpawnedIntroduces DEF Fits, Talking, InsidePc
  <2>3. FitOK'
    BY <1>1, <2>1, FitStays
  <2>. QED BY <1>1, <2>1, <2>2, <2>3, UserFacts, GoKeeps
<1>. QED BY <1>2, <1>3

LEMMA GateInv ==
    ASSUME Inv, Gate
    PROVE  Inv'
<1>1. /\ pc[Boot] \in InsidePc \ Talking /\ Boot \in User
      /\ UNCHANGED <<booted, ask, got, compiled, size, worker, artifact>>
  BY BootIsNoRequest DEF Gate, host, InsidePc, Talking
<1>2. Quiet(worker[At(Boot)])
  BY <1>1, QuietAt
<1>3. CASE check_witness_size(At(Boot))
  <2>1. Goto(Boot, "compile") /\ UNCHANGED <<status, proveLock>> /\ size[At(Boot)] = "fits"
    BY <1>3 DEF Gate, check_witness_size
  <2>2. Fits(At(Boot), Boot, "compile", worker[At(Boot)]) /\ "compile" \in InsidePc
    BY <1>2 DEF Fits, Talking, InsidePc
  <2>3. FitOK'
    BY <1>1, <2>1, FitStays
  <2>. QED BY <1>1, <2>1, <2>2, <2>3, UserFacts, GoKeeps
<1>4. CASE ~check_witness_size(At(Boot))
  <2>1. Fail(Boot, 500)
    BY <1>4 DEF Gate
  <2>. QED BY <1>1, <1>2, <2>1, UserFacts, FailKeeps
<1>. QED BY <1>3, <1>4

LEMMA CompileInv ==
    ASSUME Inv, Compile
    PROVE  Inv'
<1>1. /\ pc[Boot] \in InsidePc \ Talking /\ pc[Boot] = "compile" /\ Boot \in User
      /\ compiled' = compiled \cup {At(Boot)} /\ Goto(Boot, "compute")
      /\ UNCHANGED <<status, proveLock, booted, ask, got, size, worker, artifact>>
  BY BootIsNoRequest DEF Compile, InsidePc, Talking
<1>2. Fits(At(Boot), Boot, "compute", worker[At(Boot)]) /\ "compute" \in InsidePc
  BY <1>1, QuietAt DEF Fits, Talking, InsidePc
<1>3. At(Boot) \in Circuit /\ artifact[At(Boot)] = "fits"
  BY <1>1, UserFacts DEF Inv, FitOK
<1>4. FitOK'
  <2>1. pc'[Boot] = "compute" /\ \A v \in User : v /= Boot => pc'[v] = pc[v]
    BY <1>1 DEF Goto, Inv, Typed
  <2>2. \A v \in User : At(v)' = At(v)
    BY <1>1 DEF At
  <2>. QED BY <1>1, <1>3, <2>1, <2>2 DEF Inv, FitOK
<1>. QED BY <1>1, <1>2, <1>3, <1>4, UserFacts, GoKeeps

\* The boot thread goes on to the next circuit of the list, or the boot is over.
LEMMA WarmedUpInv ==
    ASSUME Inv, WarmedUp
    PROVE  Inv'
<1>1. /\ pc[Boot] \in InsidePc \ Talking /\ pc[Boot] = "gpu" /\ Boot \in User
      /\ booted' = booted + 1 /\ got' = [got EXCEPT ![Boot] = NoWitness]
      /\ UNCHANGED <<proveLock, compiled, size, worker, artifact>>
  BY BootIsNoRequest DEF WarmedUp, host, InsidePc, Talking
<1>2. booted' \in Nat /\ got' \in [User -> [for : Someone, size : Size]]
  BY <1>1, UserFacts DEF Inv, Typed
<1>3. CASE ~(booted' < Len(BootOrder))
  <2>1. Goto(Boot, "done") /\ status' = "ready" /\ ask' = ask
    BY <1>3 DEF WarmedUp
  <2>. QED BY <1>1, <1>2, <2>1, QuietAt, LeaveKeeps
<1>4. CASE booted' < Len(BootOrder)
  <2>1. /\ ask' = [ask EXCEPT ![Boot].circuit = BootOrder[booted' + 1]]
        /\ pc' = [pc EXCEPT ![Boot] = "start"] /\ status' = status
    BY <1>4 DEF WarmedUp, Goto
  <2>2. BootOrder[booted' + 1] \in Circuit
    <3>1. BootOrder \in Seq(Circuit)
      BY ProverAssumption
    <3>2. Len(BootOrder) \in Nat /\ booted' \in Nat
      BY <1>2, <3>1
    <3>3. \A i, n \in Nat : i < n => i + 1 \in 1 .. n
      OBVIOUS
    <3>4. booted' + 1 \in 1 .. Len(BootOrder)
      BY <1>4, <3>2, <3>3
    <3>. QED BY <3>1, <3>4
  <2>3. /\ pc \in [User -> InsidePc \cup {"none", "locking", "done"}]
        /\ ask \in [User -> [circuit : Circuit, kind : Kind]]
    BY DEF Inv, Typed
  <2>4. /\ pc'[Boot] = "start" /\ \A v \in User : v /= Boot => pc'[v] = pc[v]
        /\ \A v \in User : v /= Boot => ask'[v] = ask[v]
        /\ ask' \in [User -> [circuit : Circuit, kind : Kind]]
    BY <1>1, <2>1, <2>2, <2>3
  <2>5. Typed'
    BY <1>1, <1>2, <2>1, <2>3, <2>4 DEF Inv, Typed, InsidePc
  <2>6. TurnOK'
    BY <1>1, <2>1, <2>4, BootIsNoRequest DEF Inv, TurnOK, InsidePc
  <2>7. \A v \in User : v /= Boot => pc[v] \notin InsidePc
    BY <1>1, OneInside DEF Inv
  <2>8. FitOK' /\ GotOK'
    BY <1>1, <2>4, <2>7 DEF Inv, FitOK, GotOK, At, InsidePc
  <2>9. PipesOK'
    BY <1>1, <2>1, <2>4, PipesStay DEF Talking
  <2>. QED BY <2>5, <2>6, <2>8, <2>9 DEF Inv
<1>. QED BY <1>3, <1>4

-----------------------------------------------------------------------------
(***************************************************************************)
(* Every step.                                                             *)
(***************************************************************************)
LEMMA NextInv == Inv /\ [Next]_vars => Inv'
<1>. SUFFICES ASSUME Inv, [Next]_vars PROVE Inv'
  OBVIOUS
<1>1. CASE _initialize
  BY <1>1, StartWorkerInv, GateInv, CompileInv, WarmedUpInv DEF _initialize
<1>2. ASSUME NEW r \in Request, prove(r) \/ Acquire(r)
      PROVE  Inv'
  BY <1>2, ProveInv, AcquireInv
<1>3. ASSUME NEW u \in User, Thread(u)
      PROVE  Inv'
  <2>1. CASE compute(u)
    BY <2>1, ComputeInv
  <2>2. CASE send(u)
    BY <2>2, SendInv
  <2>3. CASE _drain_stderr_once(u)
    BY <2>3, DrainInv
  <2>4. CASE Eof(u) \/ Deadline(u)
    BY <2>4, GivenUpInv
  <2>5. CASE start(u)
    BY <2>5, HandshakeInv
  <2>6. CASE Answered(u)
    BY <2>6, AnsweredInv
  <2>7. CASE _prove_witness(u)
    <3>1. u \in Request
      BY <2>7 DEF _prove_witness
    <3>. QED BY <2>7, <3>1, ProveWitnessInv
  <2>. QED BY <1>3, <2>1, <2>2, <2>3, <2>4, <2>5, <2>6, <2>7 DEF Thread, Wait
<1>4. ASSUME NEW u \in User, GpuThrows(u)
      PROVE  Inv'
  BY <1>4, GpuThrowsInv
<1>5. ASSUME NEW c \in Circuit, Work(c)
      PROVE  Inv'
  BY <1>5, LoadInv, ReadLineInv, LogInv, MainInv DEF Work
<1>6. ASSUME NEW c \in Circuit, Die(c) \/ Stall(c) \/ Resume(c)
      PROVE  Inv'
  BY <1>6, FaultInv
<1>7. CASE UNCHANGED vars
  <2>1. UNCHANGED <<status, booted, proveLock, pc, ask, got, compiled, size, worker, artifact>>
    BY <1>7 DEF vars, host
  <2>2. Typed' /\ TurnOK' /\ FitOK' /\ GotOK'
    BY <2>1 DEF Inv, Typed, TurnOK, FitOK, GotOK, At
  <2>3. PipesOK'
    BY <2>1 DEF Inv, PipesOK, Fits, Introducing, ServingJob, Quiet, At
  <2>. QED BY <2>2, <2>3 DEF Inv
<1>. QED BY <1>1, <1>2, <1>3, <1>4, <1>5, <1>6, <1>7 DEF Next

(***************************************************************************)
(* The state of the service stays in the shape Inv gives it: one thread    *)
(* inside, engines that fit their zkey, and in the pipes of a worker no    *)
(* more than what the one who talks to it is waiting for.                  *)
(***************************************************************************)
THEOREM ProverInvariant == Spec => []Inv
<1>. QED BY InitInv, NextInv, PTL DEF Spec

LEMMA InvOneAtATime == Inv => OneAtATime
<1>. SUFFICES ASSUME Inv PROVE Cardinality(Inside) <= 1
  BY DEF OneAtATime
<1>1. \A u \in Inside : u \in User /\ pc[u] \in InsidePc
  BY DEF Inside, InsidePc
<1>2. CASE Inside = {}
  BY <1>2, FS_EmptySet
<1>3. CASE Inside /= {}
  <2>1. PICK u : u \in Inside
    BY <1>3
  <2>2. Inside = {u}
    BY <1>1, <2>1, OneInside DEF Inv
  <2>. QED BY <2>2, FS_Singleton
<1>. QED BY <1>2, <1>3

(***************************************************************************)
(* ProofsAreTheirOwn, for any list of circuits, any number of requests and *)
(* faults and any size of pipe: one thread at a time is in an engine, and  *)
(* a proof is made of the witness of the request it answers, as long as    *)
(* the zkey wants it (_prove_lock, _timeout, _death, check_witness_size).  *)
(***************************************************************************)
THEOREM ProverProofsAreTheirOwn == Spec => []ProofsAreTheirOwn
<1>1. Inv => ProofsAreTheirOwn
  BY InvOneAtATime DEF Inv, GotOK, ProofsAreTheirOwn
<1>. QED BY <1>1, ProverInvariant, PTL
-----------------------------------------------------------------------------
(***************************************************************************)
(* The blame.  What was printed and what was broken is followed through    *)
(* the life of a worker, as PipesOK follows its pipes.                     *)
(***************************************************************************)
\* A constraint was broken, as far as the parent has read or can read on stderr.
Told(w, e) == "assertion" \in e \cup {w.err[i] : i \in DOMAIN w.err}

\* What a user at p may find at its worker: an assertion is about its own input, and
\* a worker that is gone or stalled without one went wrong in its turn.
Judged(p, kind, w, e, excused) ==
    /\ Told(w, e) => w.phase = "dead" /\ w.out = <<>> /\ p = "read" /\ kind = "unsat"
    /\ w.stalled => w.out = <<>> /\ p \in Talking /\ excused
    /\ p \in {"hello", "send", "read"} =>
          w.phase \notin {"none", "dead"} \/ excused \/ Told(w, e)
    /\ p = "read" /\ w.out /= <<>> => (Head(w.out).ok <=> kind = "good")
    /\ p = "gpu" => kind = "good"

Calm(w, e) == ~Told(w, e) /\ ~w.stalled

Excused(u) == u \in Request => hit[u]

\* What a user leaves at its worker when it goes to p.
LeavesAt(p, kind, w, e, excused) == /\ p \in InsidePc => Judged(p, kind, w, e, excused)
                                    /\ p \notin InsidePc => Calm(w, e)

CasesOK ==
    /\ \A u \in User : pc[u] \in InsidePc =>
          Judged(pc[u], ask[u].kind, worker[At(u)], errbuf[At(u)], Excused(u))
    /\ \A c \in Circuit :
          (\A u \in User : pc[u] \in InsidePc => At(u) /= c) => Calm(worker[c], errbuf[c])

\* The boot goes down the list; a request that passed its check finds all compiled.
BootOK ==
    /\ pc[Boot] /= "done" => booted < Len(BootOrder) /\ At(Boot) = BootOrder[booted + 1]
    /\ \A i \in 1 .. booted : BootOrder[i] \in compiled
    /\ status = "ready" => compiled = Circuit
    /\ \A r \in Request : pc[r] \notin {"none", "done"} => status = "ready"
    /\ \A c \in compiled : size[c] = "fits"

AnswersOK == /\ \A r \in Request : pc[r] /= "done" => answer[r] = 0
             /\ BlameIsFair

Kept == /\ answer \in [Request -> Nat]
        /\ hit \in [Request -> BOOLEAN]
        /\ errbuf \in [Circuit -> SUBSET Line]

Blame == Kept /\ BootOK /\ CasesOK /\ AnswersOK

-----------------------------------------------------------------------------
LEMMA NewIsCalm == Calm(NoWorker, {}) /\ Calm(Spawned, {}) /\ Spawned.phase = "loading"
<1>1. /\ NoWorker.err = <<>> /\ ~NoWorker.stalled
      /\ Spawned.err = <<>> /\ ~Spawned.stalled /\ Spawned.phase = "loading"
  BY DEF NoWorker, Spawned
<1>2. DOMAIN <<>> = {}
  OBVIOUS
<1>. QED BY <1>1, <1>2 DEF Calm, Told

LEMMA InitBlame == Init => Blame
<1>. SUFFICES ASSUME Init PROVE Blame
  OBVIOUS
<1>1. /\ pc[Boot] = "start" /\ \A r \in Request : pc[r] = "none"
  BY BootIsNoRequest DEF Init
<1>2. Kept /\ AnswersOK
  BY <1>1 DEF Init, Kept, AnswersOK, BlameIsFair
<1>3. BootOK
  <2>1. Len(BootOrder) \in Nat /\ Len(BootOrder) /= 0
    BY ProverAssumption
  <2>2. At(Boot) = BootOrder[1]
    BY BootIsNoRequest DEF Init, At
  <2>. QED BY <1>1, <2>1, <2>2 DEF Init, BootOK
<1>4. CasesOK
  <2>1. \A c \in Circuit : Calm(worker[c], errbuf[c])
    BY NewIsCalm DEF Init
  <2>2. \A u \in User : pc[u] \in InsidePc => pc[u] = "start" /\ At(u) \in Circuit
    BY <1>1, InitInv DEF User, InsidePc, Inv, Typed, At
  <2>. QED BY <2>1, <2>2 DEF CasesOK, Calm, Judged
<1>. QED BY <1>2, <1>3, <1>4 DEF Blame

(***************************************************************************)
(* What a step may do to the four parts.                                   *)
(***************************************************************************)
LEMMA CasesStep ==
    ASSUME Inv, Blame, NEW u \in User, pc[u] \in InsidePc, NEW p, Goto(u, p),
           UNCHANGED ask, NEW w, worker' = [worker EXCEPT ![At(u)] = w],
           NEW e, errbuf' = [errbuf EXCEPT ![At(u)] = e],
           LeavesAt(p, ask[u].kind, w, e, Excused(u)')
    PROVE  CasesOK'
<1>1. /\ At(u) \in Circuit /\ worker'[At(u)] = w /\ errbuf'[At(u)] = e /\ pc'[u] = p
      /\ \A c \in Circuit : c /= At(u) => worker'[c] = worker[c] /\ errbuf'[c] = errbuf[c]
      /\ \A v \in User : v /= u => pc'[v] = pc[v]
      /\ \A v \in User : At(v)' = At(v)
  BY DEF Inv, Typed, At, Blame, Kept, Goto
<1>2. \A v \in User : v /= u => pc[v] \notin InsidePc
  BY OneInside DEF Inv
<1>3. \A c \in Circuit : c /= At(u) => Calm(worker'[c], errbuf'[c])
  BY <1>1, <1>2 DEF Blame, CasesOK
<1>4. ASSUME NEW v \in User, pc'[v] \in InsidePc
      PROVE  Judged(pc'[v], ask'[v].kind, worker'[At(v)'], errbuf'[At(v)'], Excused(v)')
  BY <1>1, <1>2, <1>4 DEF LeavesAt
<1>5. ASSUME NEW c \in Circuit, \A v \in User : pc'[v] \in InsidePc => At(v)' /= c
      PROVE  Calm(worker'[c], errbuf'[c])
  BY <1>1, <1>3, <1>5 DEF LeavesAt
<1>. QED BY <1>4, <1>5 DEF CasesOK, Judged, Calm, Told

LEMMA CasesWorker ==
    ASSUME Inv, Blame, NEW c \in Circuit,
           NEW w, worker' = [worker EXCEPT ![c] = w],
           NEW e, errbuf' = [errbuf EXCEPT ![c] = e],
           UNCHANGED <<pc, ask>>, \A r \in Request : hit[r] => hit'[r],
           \A u \in User : pc[u] \in InsidePc /\ At(u) = c =>
              Judged(pc[u], ask[u].kind, w, e, Excused(u)'),
           (\A u \in User : pc[u] \in InsidePc => At(u) /= c) => Calm(w, e)
    PROVE  CasesOK'
<1>1. /\ worker'[c] = w /\ errbuf'[c] = e
      /\ \A d \in Circuit : d /= c => worker'[d] = worker[d] /\ errbuf'[d] = errbuf[d]
      /\ \A v \in User : At(v)' = At(v) /\ At(v) \in Circuit
  BY DEF Inv, Typed, At, Blame, Kept
<1>2. ASSUME NEW v \in User, pc[v] \in InsidePc
      PROVE  Judged(pc[v], ask[v].kind, worker'[At(v)], errbuf'[At(v)], Excused(v)')
  <2>1. CASE At(v) = c
    BY <1>1, <1>2, <2>1
  <2>2. CASE At(v) /= c
    <3>1. Excused(v) => Excused(v)'
      BY DEF Excused
    <3>2. Judged(pc[v], ask[v].kind, worker[At(v)], errbuf[At(v)], Excused(v))
      BY <1>2 DEF Blame, CasesOK
    <3>3. worker'[At(v)] = worker[At(v)] /\ errbuf'[At(v)] = errbuf[At(v)]
      BY <1>1, <2>2
    <3>4. Judged(pc[v], ask[v].kind, worker[At(v)], errbuf[At(v)], Excused(v)')
      BY <3>1, <3>2 DEF Judged
    <3>. QED BY <3>3, <3>4
  <2>. QED BY <2>1, <2>2
<1>3. ASSUME NEW d \in Circuit, \A v \in User : pc[v] \in InsidePc => At(v) /= d
      PROVE  Calm(worker'[d], errbuf'[d])
  BY <1>1, <1>3 DEF Blame, CasesOK
<1>4. \A v \in User : pc'[v] = pc[v] /\ ask'[v] = ask[v] /\ At(v)' = At(v)
  BY <1>1
<1>. QED BY <1>2, <1>3, <1>4 DEF CasesOK, Judged, Calm, Told

LEMMA BootStays ==
    ASSUME BootOK, UNCHANGED <<status, booted, compiled, size>>,
           pc'[Boot] /= "done" => pc[Boot] /= "done" /\ At(Boot)' = At(Boot),
           \A r \in Request : pc'[r] \notin {"none", "done"} =>
              pc[r] \notin {"none", "done"} \/ status = "ready"
    PROVE  BootOK'
BY DEF BootOK

LEMMA AnswersStay ==
    ASSUME AnswersOK, UNCHANGED <<answer, ask>>, \A r \in Request : hit[r] => hit'[r],
           \A r \in Request : pc[r] = "done" => pc'[r] = "done"
    PROVE  AnswersOK'
BY DEF AnswersOK, BlameIsFair

\* A worker's step, a fault of it, or a read of its stderr.
LEMMA WorkerBlame ==
    ASSUME Inv, Blame, NEW c \in Circuit,
           NEW w, worker' = [worker EXCEPT ![c] = w],
           NEW e \in SUBSET Line, errbuf' = [errbuf EXCEPT ![c] = e],
           UNCHANGED <<status, booted, pc, ask, answer, compiled, size>>,
           hit' \in [Request -> BOOLEAN], \A r \in Request : hit[r] => hit'[r],
           \A u \in User : pc[u] \in InsidePc /\ At(u) = c =>
              Judged(pc[u], ask[u].kind, w, e, Excused(u)'),
           (\A u \in User : pc[u] \in InsidePc => At(u) /= c) => Calm(w, e)
    PROVE  Blame'
<1>1. Kept'
  BY DEF Blame, Kept
<1>2. BootOK'
  <2>1. At(Boot)' = At(Boot)
    BY DEF At
  <2>. QED BY <2>1, BootStays DEF Blame
<1>3. CasesOK'
  BY CasesWorker
<1>4. AnswersOK'
  BY AnswersStay DEF Blame
<1>. QED BY <1>1, <1>2, <1>3, <1>4 DEF Blame

\* What is known of a worker by the one who is at it, or because nobody is.
LEMMA AtWorker ==
    ASSUME Inv, Blame, NEW c \in Circuit
    PROVE  /\ worker[c] \in WorkerRecord /\ errbuf[c] \in SUBSET Line
           /\ errbuf = [errbuf EXCEPT ![c] = errbuf[c]]
           /\ \A u \in User : pc[u] \in InsidePc /\ At(u) = c =>
                 /\ Judged(pc[u], ask[u].kind, worker[c], errbuf[c], Excused(u))
                 /\ pc[u] = "hello" => Introducing(c, worker[c])
                 /\ pc[u] = "read" => ServingJob(c, u, worker[c])
                 /\ pc[u] \notin Talking => Quiet(worker[c])
           /\ (\A u \in User : pc[u] \in InsidePc => At(u) /= c) =>
                 Calm(worker[c], errbuf[c]) /\ Quiet(worker[c])
<1>1. worker[c] \in WorkerRecord /\ errbuf \in [Circuit -> SUBSET Line]
  BY DEF Inv, Typed, Blame, Kept
<1>2. ASSUME NEW u \in User, pc[u] \in InsidePc, At(u) = c
      PROVE  /\ Judged(pc[u], ask[u].kind, worker[c], errbuf[c], Excused(u))
             /\ pc[u] = "hello" => Introducing(c, worker[c])
             /\ pc[u] = "read" => ServingJob(c, u, worker[c])
             /\ pc[u] \notin Talking => Quiet(worker[c])
  <2>1. Judged(pc[u], ask[u].kind, worker[c], errbuf[c], Excused(u))
    BY <1>2 DEF Blame, CasesOK
  <2>2. pc[u] \in Talking => Fits(c, u, pc[u], worker[c])
    BY <1>2 DEF Inv, PipesOK
  <2>3. pc[u] \notin Talking => Quiet(worker[c])
    BY <1>2, QuietAt
  <2>. QED BY <2>1, <2>2, <2>3 DEF Fits, Talking
<1>3. ASSUME \A u \in User : pc[u] \in InsidePc => At(u) /= c
      PROVE  Calm(worker[c], errbuf[c]) /\ Quiet(worker[c])
  <2>1. \A u \in User : pc[u] \in Talking => At(u) /= c
    BY <1>3 DEF Talking, InsidePc
  <2>. QED BY <1>3, <2>1 DEF Inv, PipesOK, Blame, CasesOK
<1>. QED BY <1>1, <1>2, <1>3

\* What the parent has printed grows only by an assertion.
LEMMA AppendTells ==
    ASSUME NEW e, NEW w, NEW v, w.err \in Seq(Line), NEW line, v.err = Append(w.err, line)
    PROVE  Told(v, e) <=> line = "assertion" \/ Told(w, e)
<1> DEFINE s == w.err
           t == Append(s, line)
<1>1. /\ Len(s) \in Nat /\ DOMAIN s = 1 .. Len(s) /\ DOMAIN t = 1 .. (Len(s) + 1)
      /\ t[Len(s) + 1] = line /\ \A i \in 1 .. Len(s) : t[i] = s[i]
  OBVIOUS
<1>. HIDE DEF s, t
<1>2. (\E i \in DOMAIN t : t[i] = "assertion")
         <=> line = "assertion" \/ \E i \in DOMAIN s : s[i] = "assertion"
  <2>1. \A i \in DOMAIN t : i \in DOMAIN s \/ i = Len(s) + 1
    BY <1>1
  <2>2. Len(s) + 1 \in DOMAIN t /\ \A i \in DOMAIN s : i \in DOMAIN t
    BY <1>1
  <2>. QED BY <1>1, <2>1, <2>2
<1>3. v.err = t /\ w.err = s
  BY DEF s, t
<1>. QED BY <1>2, <1>3 DEF Told

LEMMA ReadingTells ==
    ASSUME NEW e, NEW w, NEW v, w.err \in Seq(Line), w.err /= <<>>, v.err = Tail(w.err)
    PROVE  Told(v, e \cup {Head(w.err)}) <=> Told(w, e)
<1> DEFINE s == w.err
           t == Tail(s)
<1>1. /\ Len(s) \in Nat \ {0} /\ DOMAIN s = 1 .. Len(s) /\ DOMAIN t = 1 .. (Len(s) - 1)
      /\ Head(s) = s[1] /\ \A i \in 1 .. (Len(s) - 1) : t[i] = s[i + 1]
  OBVIOUS
<1>. HIDE DEF s, t
<1>2. (\E i \in DOMAIN s : s[i] = "assertion")
         <=> s[1] = "assertion" \/ \E i \in DOMAIN t : t[i] = "assertion"
  <2>1. ASSUME NEW i \in DOMAIN s, s[i] = "assertion", i /= 1
        PROVE  i - 1 \in DOMAIN t /\ t[i - 1] = s[i]
    BY <1>1, <2>1
  <2>2. \A i \in DOMAIN t : i + 1 \in DOMAIN s /\ t[i] = s[i + 1]
    BY <1>1
  <2>3. 1 \in DOMAIN s
    BY <1>1
  <2>. QED BY <2>1, <2>2, <2>3
<1>3. v.err = t /\ w.err = s /\ Head(w.err) = s[1]
  BY <1>1 DEF s, t
<1>. QED BY <1>2, <1>3 DEF Told

-----------------------------------------------------------------------------
\* An engine that a request is let to was compiled, so its .so is not broken.
LEMMA RequestsFindFits ==
    ASSUME Inv, Blame, NEW r \in Request, pc[r] \in InsidePc
    PROVE  /\ At(r) \in compiled /\ artifact[At(r)] = "fits" /\ size[At(r)] = "fits"
<1>1. pc[r] \notin {"none", "done"} /\ r \in User
  BY BootIsNoRequest DEF InsidePc
<1>2. At(r) \in compiled
  BY <1>1, UserFacts DEF Blame, BootOK
<1>. QED BY <1>2 DEF Inv, FitOK, Blame, BootOK

LEMMA LoadBlame ==
    ASSUME Inv, Blame, NEW c \in Circuit, Load(c)
    PROVE  Blame'
<1> DEFINE m == [ok |-> TRUE, for |-> Nobody, size |-> artifact[c]]
           dead == [worker[c] EXCEPT !.phase = "dead"]
           idle == [worker[c] EXCEPT !.phase = "idle", !.out = Append(@, m)]
           w == IF artifact[c] = "broken" THEN dead ELSE idle
<1>1. /\ worker[c].phase = "loading" /\ ~worker[c].stalled
      /\ worker' = [worker EXCEPT ![c] = w]
      /\ UNCHANGED <<status, booted, pc, ask, answer, compiled, size, errbuf, hit>>
  BY DEF Load, Works, SetWorker, host
<1>2. /\ w.err = worker[c].err /\ ~w.stalled
      /\ w.phase = IF artifact[c] = "broken" THEN "dead" ELSE "idle"
  BY <1>1, AtWorker DEF WorkerRecord
<1>. HIDE DEF m, dead, idle, w
<1>3. Told(w, errbuf[c]) <=> Told(worker[c], errbuf[c])
  BY <1>2 DEF Told
<1>4. ~(\A u \in User : pc[u] \in InsidePc => At(u) /= c)
  BY <1>1, AtWorker DEF Quiet
<1>5. ASSUME NEW u \in User, pc[u] \in InsidePc, At(u) = c
      PROVE  Judged(pc[u], ask[u].kind, w, errbuf[c], Excused(u))
  <2>1. Judged(pc[u], ask[u].kind, worker[c], errbuf[c], Excused(u)) /\ pc[u] = "hello"
    BY <1>1, <1>5, AtWorker DEF Quiet, ServingJob, Talking
  <2>2. ~Told(w, errbuf[c])
    BY <1>1, <1>3, <2>1 DEF Judged
  <2>3. artifact[c] = "broken" => Excused(u)
    BY <1>5, RequestsFindFits DEF Excused
  <2>. QED BY <1>2, <2>1, <2>2, <2>3 DEF Judged
<1>6. hit' \in [Request -> BOOLEAN] /\ \A u \in User : Excused(u)' <=> Excused(u)
  BY <1>1 DEF Blame, Kept, Excused
<1>7. errbuf' = [errbuf EXCEPT ![c] = errbuf[c]] /\ errbuf[c] \in SUBSET Line
  BY <1>1, AtWorker
<1>8. \A u \in User : pc[u] \in InsidePc /\ At(u) = c =>
          Judged(pc[u], ask[u].kind, w, errbuf[c], Excused(u)')
  BY <1>5, <1>6 DEF Judged
<1>. QED BY <1>1, <1>4, <1>6, <1>7, <1>8, WorkerBlame

\* A step of the worker that prints nothing new and is no fault.
LEMMA PlainBlame ==
    ASSUME Inv, Blame, NEW c \in Circuit,
           NEW w, worker' = [worker EXCEPT ![c] = w],
           UNCHANGED <<status, booted, pc, ask, answer, compiled, size, errbuf, hit>>,
           Told(w, errbuf[c]) <=> Told(worker[c], errbuf[c]),
           w.phase = worker[c].phase \/ w.phase \notin {"none", "dead"},
           Told(worker[c], errbuf[c]) => w.phase = worker[c].phase,
           w.stalled => worker[c].stalled, w.out = worker[c].out
    PROVE  Blame'
<1>1. /\ hit' \in [Request -> BOOLEAN] /\ \A r \in Request : hit[r] => hit'[r]
      /\ \A u \in User : Excused(u)' <=> Excused(u)
  BY DEF Blame, Kept, Excused
<1>2. errbuf' = [errbuf EXCEPT ![c] = errbuf[c]] /\ errbuf[c] \in SUBSET Line
  BY AtWorker
<1>3. ASSUME NEW u \in User, pc[u] \in InsidePc, At(u) = c
      PROVE  Judged(pc[u], ask[u].kind, w, errbuf[c], Excused(u)')
  <2>1. Judged(pc[u], ask[u].kind, worker[c], errbuf[c], Excused(u))
    BY <1>3, AtWorker
  <2>. QED BY <1>1, <2>1 DEF Judged
<1>4. (\A u \in User : pc[u] \in InsidePc => At(u) /= c) => Calm(w, errbuf[c])
  BY AtWorker DEF Calm
<1>. QED BY <1>1, <1>2, <1>3, <1>4, WorkerBlame

LEMMA ReadLineBlame ==
    ASSUME Inv, Blame, NEW c \in Circuit, ReadLine(c)
    PROVE  Blame'
<1> DEFINE w == [worker[c] EXCEPT !.phase = "busy", !.logged = 0,
                     !.job = Head(worker[c].stdin), !.stdin = Tail(@)]
<1>1. /\ worker[c].phase = "idle" /\ worker' = [worker EXCEPT ![c] = w]
      /\ UNCHANGED <<status, booted, pc, ask, answer, compiled, size, errbuf, hit>>
  BY DEF ReadLine, Works, SetWorker, host
<1>2. /\ w.err = worker[c].err /\ w.phase = "busy" /\ w.out = worker[c].out
      /\ w.stalled = worker[c].stalled
  BY AtWorker DEF WorkerRecord
<1>. HIDE DEF w
<1>3. Told(w, errbuf[c]) <=> Told(worker[c], errbuf[c])
  BY <1>2 DEF Told
<1>4. ~Told(worker[c], errbuf[c])
  BY <1>1, AtWorker DEF Calm, Judged
<1>. QED BY <1>1, <1>2, <1>3, <1>4, PlainBlame

LEMMA LogBlame ==
    ASSUME Inv, Blame, NEW c \in Circuit, Log(c)
    PROVE  Blame'
<1> DEFINE w == [worker[c] EXCEPT !.err = Append(@, "log"), !.logged = @ + 1]
<1>1. /\ worker' = [worker EXCEPT ![c] = w]
      /\ UNCHANGED <<status, booted, pc, ask, answer, compiled, size, errbuf, hit>>
  BY DEF Log, SetWorker, host
<1>2. /\ w.err = Append(worker[c].err, "log") /\ w.phase = worker[c].phase
      /\ w.out = worker[c].out /\ w.stalled = worker[c].stalled
      /\ worker[c].err \in Seq(Line)
  BY AtWorker DEF WorkerRecord
<1>. HIDE DEF w
<1>3. Told(w, errbuf[c]) <=> Told(worker[c], errbuf[c])
  BY <1>2, AppendTells
<1>. QED BY <1>1, <1>2, <1>3, PlainBlame

\* Somebody reads what is written, and it is about that user's input.
LEMMA BusyIsRead ==
    ASSUME Inv, Blame, NEW c \in Circuit, worker[c].phase = "busy"
    PROVE  /\ ~(\A u \in User : pc[u] \in InsidePc => At(u) /= c)
           /\ ~Told(worker[c], errbuf[c])
           /\ \A u \in User : pc[u] \in InsidePc /\ At(u) = c =>
                 pc[u] = "read" /\ worker[c].job = u /\ worker[c].out = <<>>
<1>1. ~Quiet(worker[c]) /\ ~Introducing(c, worker[c])
  BY DEF Quiet, Introducing
<1>2. \A u \in User : ServingJob(c, u, worker[c]) =>
          worker[c].job = u /\ worker[c].out = <<>>
  BY DEF ServingJob
<1>3. ~Told(worker[c], errbuf[c])
  BY AtWorker DEF Calm, Judged
<1>. QED BY <1>1, <1>2, <1>3, AtWorker DEF Talking

LEMMA MainBlame ==
    ASSUME Inv, Blame, NEW c \in Circuit, circuit_main(c)
    PROVE  Blame'
<1> DEFINE job == worker[c].job
           kind == ask[job].kind
           m == [ok |-> kind = "good", for |-> job, size |-> artifact[c]]
           broken == [worker[c] EXCEPT !.phase = "dead", !.err = Append(@, "assertion")]
           done == [worker[c] EXCEPT !.phase = "idle", !.job = Nobody, !.out = Append(@, m)]
           w == IF kind = "unsat" THEN broken ELSE done
<1>1. /\ worker[c].phase = "busy" /\ ~worker[c].stalled
      /\ worker' = [worker EXCEPT ![c] = w]
      /\ UNCHANGED <<status, booted, pc, ask, answer, compiled, size, errbuf, hit>>
  BY DEF circuit_main, Works, SetWorker, host
<1>2. /\ ~w.stalled /\ worker[c].err \in Seq(Line)
      /\ kind = "unsat" => /\ w.phase = "dead" /\ w.out = worker[c].out
                           /\ w.err = Append(worker[c].err, "assertion")
      /\ kind /= "unsat" => /\ w.phase = "idle" /\ w.out = Append(worker[c].out, m)
                            /\ w.err = worker[c].err
  <2>. HIDE DEF m, kind
  <2>. QED BY <1>1, AtWorker DEF WorkerRecord
<1>3. \A k : Append(<<>>, k) = <<k>> /\ Head(<<k>>) = k
  OBVIOUS
<1>4. m.ok <=> kind = "good"
  OBVIOUS
<1>. HIDE DEF m, broken, done, w
<1>5. ASSUME NEW u \in User, pc[u] \in InsidePc, At(u) = c
      PROVE  Judged(pc[u], ask[u].kind, w, errbuf[c], Excused(u)')
  <2>1. pc[u] = "read" /\ job = u /\ kind = ask[u].kind /\ worker[c].out = <<>>
    BY <1>1, <1>5, BusyIsRead
  <2>. HIDE DEF kind
  <2>2. CASE kind = "unsat"
    <3>1. Told(w, errbuf[c])
      BY <1>2, <2>2, AppendTells
    <3>. QED BY <1>2, <2>1, <2>2, <3>1 DEF Judged
  <2>3. CASE kind /= "unsat"
    <3>1. ~Told(w, errbuf[c])
      BY <1>1, <1>2, <2>3, BusyIsRead DEF Told
    <3>2. Head(w.out) = m
      BY <1>2, <1>3, <2>1, <2>3
    <3>. QED BY <1>2, <1>4, <2>1, <2>3, <3>1, <3>2 DEF Judged
  <2>. QED BY <2>2, <2>3
<1>6. hit' \in [Request -> BOOLEAN] /\ \A r \in Request : hit[r] => hit'[r]
  BY <1>1 DEF Blame, Kept
<1>7. errbuf' = [errbuf EXCEPT ![c] = errbuf[c]] /\ errbuf[c] \in SUBSET Line
  BY <1>1, AtWorker
<1>8. ~(\A u \in User : pc[u] \in InsidePc => At(u) /= c)
  BY <1>1, BusyIsRead
<1>. QED BY <1>1, <1>5, <1>6, <1>7, <1>8, WorkerBlame

\* Whoever is at an engine that is hit is excused.
LEMMA FaultExcuses ==
    ASSUME Blame, NEW c \in Circuit, Fault(c)
    PROVE  /\ hit' \in [Request -> BOOLEAN] /\ \A r \in Request : hit[r] => hit'[r]
           /\ \A u \in User : pc[u] \in InsidePc /\ At(u) = c => Excused(u)'
<1>1. /\ hit \in [Request -> BOOLEAN]
      /\ hit' = [r \in Request |-> hit[r] \/ (r \in Inside /\ At(r) = c)]
  BY DEF Fault, Blame, Kept
<1>2. \A u \in User : pc[u] \in InsidePc => u \in Inside
  BY DEF Inside, InsidePc
<1>. QED BY <1>1, <1>2 DEF Excused

LEMMA DieBlame ==
    ASSUME Inv, Blame, NEW c \in Circuit, Die(c)
    PROVE  Blame'
<1> DEFINE w == [worker[c] EXCEPT !.phase = "dead"]
<1>1. /\ Fault(c) /\ worker[c].phase \notin {"none", "dead"}
      /\ worker' = [worker EXCEPT ![c] = w]
      /\ UNCHANGED <<status, booted, pc, ask, answer, compiled, size, errbuf>>
  BY DEF Die, Alive, host
<1>2. /\ w.err = worker[c].err /\ w.phase = "dead" /\ w.out = worker[c].out
      /\ w.stalled = worker[c].stalled
  BY AtWorker DEF WorkerRecord
<1>. HIDE DEF w
<1>3. ~Told(w, errbuf[c]) /\ ~Told(worker[c], errbuf[c])
  <2>1. ~Told(worker[c], errbuf[c])
    BY <1>1, AtWorker DEF Calm, Judged
  <2>. QED BY <1>2, <2>1 DEF Told
<1>4. ASSUME NEW u \in User, pc[u] \in InsidePc, At(u) = c
      PROVE  Judged(pc[u], ask[u].kind, w, errbuf[c], Excused(u)')
  <2>1. Judged(pc[u], ask[u].kind, worker[c], errbuf[c], Excused(u)) /\ Excused(u)'
    BY <1>1, <1>4, AtWorker, FaultExcuses
  <2>. QED BY <1>2, <1>3, <2>1 DEF Judged
<1>5. errbuf' = [errbuf EXCEPT ![c] = errbuf[c]] /\ errbuf[c] \in SUBSET Line
  BY <1>1, AtWorker
<1>6. (\A u \in User : pc[u] \in InsidePc => At(u) /= c) => Calm(w, errbuf[c])
  BY <1>2, <1>3, AtWorker DEF Calm
<1>. QED BY <1>1, <1>4, <1>5, <1>6, FaultExcuses, WorkerBlame

LEMMA StallBlame ==
    ASSUME Inv, Blame, NEW c \in Circuit, Stall(c)
    PROVE  Blame'
<1> DEFINE w == [worker[c] EXCEPT !.stalled = TRUE]
<1>1. /\ Fault(c) /\ worker[c].phase \in {"loading", "busy"}
      /\ worker' = [worker EXCEPT ![c] = w]
      /\ UNCHANGED <<status, booted, pc, ask, answer, compiled, size, errbuf>>
  BY DEF Stall, host
<1>2. w.err = worker[c].err /\ w.phase = worker[c].phase /\ w.out = worker[c].out
  BY AtWorker DEF WorkerRecord
<1>. HIDE DEF w
<1>3. Told(w, errbuf[c]) <=> Told(worker[c], errbuf[c])
  BY <1>2 DEF Told
<1>4. ~Quiet(worker[c])
  BY <1>1 DEF Quiet
<1>5. ASSUME NEW u \in User, pc[u] \in InsidePc, At(u) = c
      PROVE  Judged(pc[u], ask[u].kind, w, errbuf[c], Excused(u)')
  <2>1. /\ Judged(pc[u], ask[u].kind, worker[c], errbuf[c], Excused(u))
        /\ pc[u] \in Talking /\ Excused(u)'
    BY <1>1, <1>4, <1>5, AtWorker, FaultExcuses
  <2>2. worker[c].out = <<>>
    BY <1>1, <1>5, <2>1, AtWorker DEF Introducing, ServingJob, Talking
  <2>. QED BY <1>1, <1>2, <1>3, <2>1, <2>2 DEF Judged
<1>6. errbuf' = [errbuf EXCEPT ![c] = errbuf[c]] /\ errbuf[c] \in SUBSET Line
  BY <1>1, AtWorker
<1>7. ~(\A u \in User : pc[u] \in InsidePc => At(u) /= c)
  BY <1>4, AtWorker
<1>. QED BY <1>1, <1>5, <1>6, <1>7, FaultExcuses, WorkerBlame

LEMMA ResumeBlame ==
    ASSUME Inv, Blame, NEW c \in Circuit, Resume(c)
    PROVE  Blame'
<1> DEFINE w == [worker[c] EXCEPT !.stalled = FALSE]
<1>1. /\ worker' = [worker EXCEPT ![c] = w]
      /\ UNCHANGED <<status, booted, pc, ask, answer, compiled, size, errbuf, hit>>
  BY DEF Resume, SetWorker, host
<1>2. /\ w.err = worker[c].err /\ w.phase = worker[c].phase /\ w.out = worker[c].out
      /\ ~w.stalled
  BY AtWorker DEF WorkerRecord
<1>. HIDE DEF w
<1>3. Told(w, errbuf[c]) <=> Told(worker[c], errbuf[c])
  BY <1>2 DEF Told
<1>. QED BY <1>1, <1>2, <1>3, PlainBlame

LEMMA DrainBlame ==
    ASSUME Inv, Blame, NEW u \in User, _drain_stderr_once(u)
    PROVE  Blame'
<1> DEFINE c == At(u)
           w == [worker[c] EXCEPT !.err = Tail(@)]
           e == errbuf[c] \cup {Head(worker[c].err)}
<1>1. /\ worker[c].err /= <<>> /\ c \in Circuit
      /\ worker' = [worker EXCEPT ![c] = w] /\ errbuf' = [errbuf EXCEPT ![c] = e]
      /\ UNCHANGED <<status, booted, pc, ask, answer, compiled, size, hit>>
  BY UserFacts DEF _drain_stderr_once
<1>2. /\ w.err = Tail(worker[c].err) /\ w.phase = worker[c].phase
      /\ w.out = worker[c].out /\ w.stalled = worker[c].stalled
      /\ worker[c].err \in Seq(Line)
  BY <1>1, AtWorker DEF WorkerRecord
<1>3. e \in SUBSET Line
  <2>1. Head(worker[c].err) \in Line
    BY <1>1, <1>2
  <2>. QED BY <1>1, <2>1, AtWorker
<1>. HIDE DEF w
<1>4. Told(w, e) <=> Told(worker[c], errbuf[c])
  BY <1>1, <1>2, ReadingTells
<1>. HIDE DEF e, c
<1>5. /\ hit' \in [Request -> BOOLEAN] /\ \A r \in Request : hit[r] => hit'[r]
      /\ \A v \in User : Excused(v)' <=> Excused(v)
  BY <1>1 DEF Blame, Kept, Excused
<1>6. ASSUME NEW v \in User, pc[v] \in InsidePc, At(v) = c
      PROVE  Judged(pc[v], ask[v].kind, w, e, Excused(v)')
  <2>1. Judged(pc[v], ask[v].kind, worker[c], errbuf[c], Excused(v))
    BY <1>1, <1>6, AtWorker
  <2>. QED BY <1>2, <1>4, <1>5, <2>1 DEF Judged
<1>7. (\A v \in User : pc[v] \in InsidePc => At(v) /= c) => Calm(w, e)
  BY <1>1, <1>2, <1>4, AtWorker DEF Calm
<1>. QED BY <1>1, <1>3, <1>5, <1>6, <1>7, WorkerBlame

-----------------------------------------------------------------------------
\* Who is inside goes on inside, at the worker it is at.
LEMMA GoBlame ==
    ASSUME Inv, Blame, NEW u \in User, pc[u] \in InsidePc, NEW p \in InsidePc, Goto(u, p),
           UNCHANGED <<status, booted, ask, answer, hit>>, BootOK',
           NEW w, worker' = [worker EXCEPT ![At(u)] = w],
           NEW e \in SUBSET Line, errbuf' = [errbuf EXCEPT ![At(u)] = e],
           Judged(p, ask[u].kind, w, e, Excused(u))
    PROVE  Blame'
<1>1. Excused(u)' <=> Excused(u)
  BY DEF Excused
<1>2. CasesOK'
  <2>1. LeavesAt(p, ask[u].kind, w, e, Excused(u)')
    BY <1>1 DEF Judged, LeavesAt
  <2>. QED BY <2>1, CasesStep
<1>3. Kept'
  BY DEF Blame, Kept
<1>4. AnswersOK'
  <2>1. pc[u] /= "done" /\ \A v \in User : v /= u => pc'[v] = pc[v]
    BY DEF InsidePc, Goto, Inv, Typed
  <2>. QED BY <2>1, BootIsNoRequest, AnswersStay DEF Blame
<1>. QED BY <1>2, <1>3, <1>4 DEF Blame

\* ... which leaves the boot where it is.
LEMMA BootGoes ==
    ASSUME Inv, Blame, NEW u \in User, pc[u] \in InsidePc, NEW p, Goto(u, p),
           u = Boot => p \in InsidePc \/ p = "done",
           UNCHANGED <<status, booted, ask, compiled, size>>
    PROVE  BootOK'
<1>1. pc'[u] = p /\ \A v \in User : v /= u => pc'[v] = pc[v]
  BY DEF Goto, Inv, Typed
<1>2. pc[u] \notin {"none", "done"} /\ At(Boot)' = At(Boot)
  BY DEF InsidePc, At
<1>. QED BY <1>1, <1>2, BootIsNoRequest, BootStays DEF Blame

\* A request is answered, with what is fair to it.
Deserves(u, code) == u \in Request => /\ code = 200 => ask[u].kind = "good"
                                      /\ code = 400 => ask[u].kind /= "good"
                                      /\ code = 500 => hit'[u]

Answers(u, code) == /\ code \in {200, 400, 500} /\ Deserves(u, code)
                    /\ answer' = IF u = Boot THEN answer ELSE [answer EXCEPT ![u] = code]

\* Who is inside leaves with an answer it deserves, and a worker that is none or calm.
LEMMA LeaveBlame ==
    ASSUME Inv, Blame, NEW u \in User, pc[u] \in InsidePc, Goto(u, "done"),
           UNCHANGED <<ask, compiled, size>>, BootOK',
           hit' \in [Request -> BOOLEAN], \A r \in Request : hit[r] => hit'[r],
           NEW code, Answers(u, code),
           NEW w, worker' = [worker EXCEPT ![At(u)] = w],
           NEW e \in SUBSET Line, errbuf' = [errbuf EXCEPT ![At(u)] = e], Calm(w, e)
    PROVE  Blame'
<1>1. /\ answer \in [Request -> Nat] /\ AnswersOK
      /\ \A v \in User : v /= u => pc'[v] = pc[v]
      /\ pc'[u] = "done"
  BY DEF Blame, Kept, Goto, Inv, Typed
<1>2. u = Boot \/ u \in Request
  BY DEF User
<1>3. Kept'
  <2>1. code \in Nat /\ errbuf \in [Circuit -> SUBSET Line]
    BY DEF Blame, Kept, Answers
  <2>2. answer' \in [Request -> Nat]
    <3>1. CASE u = Boot
      BY <1>1, <3>1 DEF Answers
    <3>2. CASE u /= Boot
      <4>1. answer' = [answer EXCEPT ![u] = code]
        BY <3>2 DEF Answers
      <4>2. answer \in [Request -> Nat] /\ code \in Nat
        BY <1>1, <2>1
      <4>. QED BY ONLY <4>1, <4>2
    <3>. QED BY <3>1, <3>2
  <2>3. errbuf' \in [Circuit -> SUBSET Line]
    BY <2>1
  <2>. QED BY <2>2, <2>3 DEF Kept
<1>4. AnswersOK'
  <2>1. ASSUME NEW r \in Request, r /= u \/ u = Boot
        PROVE  answer'[r] = answer[r] /\ pc'[r] = pc[r]
    BY <1>1, <1>2, <2>1, BootIsNoRequest DEF Answers
  <2>2. u \in Request => answer'[u] = code
    BY <1>1, BootIsNoRequest DEF Answers
  <2>. QED BY <1>1, <1>2, <2>1, <2>2 DEF AnswersOK, BlameIsFair, Answers, Deserves
<1>5. CasesOK'
  <2>1. "done" \notin InsidePc
    BY DEF InsidePc
  <2>2. ASSUME NEW p, p = "done"
        PROVE  CasesOK'
    <3>1. Goto(u, p) /\ LeavesAt(p, ask[u].kind, w, e, Excused(u)')
      BY <2>1, <2>2 DEF Goto, LeavesAt
    <3>2. UNCHANGED ask
      OBVIOUS
    <3>. QED BY <3>1, <3>2, CasesStep
  <2>. QED BY <2>2
<1>. QED BY <1>3, <1>4, <1>5 DEF Blame

FailsFairly(u, code) == code \in {400, 500} /\ Fail(u, code) /\ Deserves(u, code)

LEMMA FailBlame ==
    ASSUME Inv, Blame, NEW u \in User, pc[u] \in InsidePc, NEW code, FailsFairly(u, code),
           UNCHANGED <<booted, ask, compiled, size>>,
           hit' \in [Request -> BOOLEAN], \A r \in Request : hit[r] => hit'[r],
           NEW w, worker' = [worker EXCEPT ![At(u)] = w],
           NEW e \in SUBSET Line, errbuf' = [errbuf EXCEPT ![At(u)] = e], Calm(w, e)
    PROVE  Blame'
<1>1. /\ Goto(u, "done")
      /\ u = Boot => status' = "failed"
      /\ u /= Boot => status' = status
      /\ Answers(u, code)
  BY DEF FailsFairly, Fail, Answers
<1>2. BootOK'
  <2>1. CASE u = Boot
    <3>1. /\ pc'[Boot] = "done" /\ \A r \in Request : pc'[r] = pc[r]
      BY <1>1, <2>1, BootIsNoRequest DEF Goto, Inv, Typed
    <3>2. \A r \in Request : pc[r] \in {"none", "done"}
      BY <2>1 DEF Inv, TurnOK, InsidePc
    <3>. QED BY <1>1, <2>1, <3>1, <3>2 DEF Blame, BootOK
  <2>2. CASE u /= Boot
    BY <1>1, <2>2, BootGoes
  <2>. QED BY <2>1, <2>2
<1>3. UNCHANGED <<ask, compiled, size>>
  OBVIOUS
<1>. QED BY <1>1, <1>2, <1>3, LeaveBlame

-----------------------------------------------------------------------------
\* What a user finds, wherever it is inside.
LEMMA Finds ==
    ASSUME Inv, Blame, NEW u \in User, pc[u] \in InsidePc
    PROVE  /\ At(u) \in Circuit /\ errbuf[At(u)] \in SUBSET Line /\ {} \in SUBSET Line
           /\ worker = [worker EXCEPT ![At(u)] = worker[At(u)]]
           /\ errbuf = [errbuf EXCEPT ![At(u)] = errbuf[At(u)]]
           /\ Judged(pc[u], ask[u].kind, worker[At(u)], errbuf[At(u)], Excused(u))
           /\ pc[u] \notin Talking => Calm(worker[At(u)], errbuf[At(u)])
           /\ hit \in [Request -> BOOLEAN]
<1>1. Judged(pc[u], ask[u].kind, worker[At(u)], errbuf[At(u)], Excused(u))
  BY UserFacts, AtWorker
<1>2. pc[u] \notin Talking => Calm(worker[At(u)], errbuf[At(u)])
  BY <1>1 DEF Judged, Calm, Talking
<1>. QED BY <1>1, <1>2, UserFacts, AtWorker DEF Blame, Kept

\* A request that fails with no fault of the worker's, or with the worker gone.
LEMMA FailHurtsNoOne ==
    ASSUME Inv, Blame, NEW u \in User, pc[u] \in InsidePc, NEW code, FailsFairly(u, code),
           UNCHANGED <<booted, ask, compiled, size, hit>>,
           NEW w, worker' = [worker EXCEPT ![At(u)] = w],
           NEW e \in SUBSET Line, errbuf' = [errbuf EXCEPT ![At(u)] = e], Calm(w, e)
    PROVE  Blame'
<1>1. hit' \in [Request -> BOOLEAN] /\ \A r \in Request : hit[r] => hit'[r]
  BY Finds
<1>2. UNCHANGED <<booted, ask, compiled, size>>
  OBVIOUS
<1>. QED BY <1>1, <1>2, FailBlame

LEMMA DeathBlame ==
    ASSUME Inv, Blame, NEW u \in User, pc[u] \in {"hello", "send", "read"},
           worker[At(u)].phase \in {"none", "dead"}, _death(u),
           UNCHANGED <<booted, ask, compiled, size, hit>>
    PROVE  Blame'
<1> DEFINE w == worker[At(u)]
           e == errbuf[At(u)]
           code == IF Told(w, e) THEN 400 ELSE 500
<1>1. /\ Fail(u, code) /\ worker' = [worker EXCEPT ![At(u)] = NoWorker]
      /\ errbuf' = [errbuf EXCEPT ![At(u)] = {}]
  BY DEF _death, _kill, Told
<1>2. pc[u] \in InsidePc
  BY DEF InsidePc
<1>3. Judged(pc[u], ask[u].kind, w, e, Excused(u))
  BY <1>2, Finds
<1>4. Told(w, e) => ask[u].kind = "unsat"
  BY <1>3 DEF Judged
<1>5. ~Told(w, e) => Excused(u)
  BY <1>3 DEF Judged
<1>6. FailsFairly(u, code)
  BY <1>1, <1>4, <1>5 DEF FailsFairly, Deserves, Excused
<1>. HIDE DEF code
<1>. QED BY <1>1, <1>2, <1>6, NewIsCalm, Finds, FailHurtsNoOne

LEMMA ComputeBlame ==
    ASSUME Inv, Blame, NEW u \in User, compute(u)
    PROVE  Blame'
<1>1. /\ pc[u] = "compute" /\ pc[u] \in InsidePc
      /\ UNCHANGED <<booted, ask, compiled, size, hit>>
      /\ Calm(worker[At(u)], errbuf[At(u)])
  <2>1. pc[u] = "compute" /\ pc[u] \in InsidePc \ Talking
    BY DEF compute, InsidePc, Talking
  <2>. QED BY <2>1, Finds DEF compute
<1>2. CASE At(u) \notin compiled \/ ask[u].kind = "misfit"
  <2> DEFINE code == IF At(u) \notin compiled THEN 500 ELSE 400
  <2>1. Fail(u, code) /\ UNCHANGED <<worker, errbuf>>
    BY <1>2 DEF compute
  <2>2. FailsFairly(u, code)
    BY <1>1, <1>2, <2>1, RequestsFindFits DEF FailsFairly, Deserves
  <2>. HIDE DEF code
  <2>. QED BY <1>1, <2>1, <2>2, Finds, FailHurtsNoOne
<1>3. CASE At(u) \in compiled /\ ask[u].kind /= "misfit"
  <2>1. ASSUME NEW p \in {"send", "hello"}, Goto(u, p),
               UNCHANGED <<status, answer, booted, ask, compiled, size, hit>>,
               NEW w, worker' = [worker EXCEPT ![At(u)] = w], w.phase \notin {"none", "dead"},
               NEW e \in SUBSET Line, errbuf' = [errbuf EXCEPT ![At(u)] = e], Calm(w, e),
               p = "send" => w = worker[At(u)]
        PROVE  Blame'
    <3>1. p \in InsidePc
      BY DEF InsidePc
    <3>2. BootOK'
      BY <1>1, <2>1, <3>1, BootGoes
    <3>3. Judged(p, ask[u].kind, w, e, Excused(u))
      BY <2>1 DEF Judged, Calm
    <3>. QED BY <1>1, <2>1, <3>1, <3>2, <3>3, GoBlame
  <2>2. UNCHANGED <<status, answer, booted, ask, compiled, size, hit>>
    BY <1>3 DEF compute
  <2>3. CASE Alive(At(u))
    <3>1. Goto(u, "send") /\ UNCHANGED <<worker, errbuf>>
      BY <1>3, <2>3 DEF compute
    <3>2. worker[At(u)].phase \notin {"none", "dead"}
      BY <2>3 DEF Alive
    <3>. QED BY <1>1, <2>1, <2>2, <3>1, <3>2, Finds
  <2>4. CASE ~Alive(At(u))
    <3>1. /\ Goto(u, "hello") /\ worker' = [worker EXCEPT ![At(u)] = Spawned]
          /\ errbuf' = [errbuf EXCEPT ![At(u)] = {}]
      BY <1>3, <2>4 DEF compute, _kill
    <3>. QED BY <1>1, <2>1, <2>2, <3>1, NewIsCalm, Finds
  <2>. QED BY <2>3, <2>4
<1>. QED BY <1>2, <1>3

LEMMA SendBlame ==
    ASSUME Inv, Blame, NEW u \in User, send(u)
    PROVE  Blame'
<1>1. /\ pc[u] = "send" /\ pc[u] \in InsidePc \ Talking
      /\ UNCHANGED <<booted, ask, compiled, size, hit>>
  BY DEF send, InsidePc, Talking
<1>2. CASE ~Alive(At(u))
  BY <1>1, <1>2, DeathBlame DEF send, Alive
<1>3. CASE Alive(At(u))
  <2> DEFINE w == [worker[At(u)] EXCEPT !.stdin = Append(@, u)]
  <2>1. /\ worker' = [worker EXCEPT ![At(u)] = w] /\ Goto(u, "read")
        /\ UNCHANGED <<status, answer, errbuf>>
    BY <1>3 DEF send
  <2>2. /\ w.err = worker[At(u)].err /\ w.phase = worker[At(u)].phase
        /\ w.out = worker[At(u)].out /\ w.stalled = worker[At(u)].stalled
        /\ w.phase \notin {"none", "dead"}
    BY <1>3, UserFacts DEF WorkerRecord, Alive
  <2>. HIDE DEF w
  <2>3. Calm(w, errbuf[At(u)]) /\ w.out = <<>> /\ "read" \in InsidePc
    <3>1. Calm(worker[At(u)], errbuf[At(u)]) /\ Quiet(worker[At(u)])
      BY <1>1, Finds, QuietAt
    <3>. QED BY <2>2, <3>1 DEF Calm, Told, Quiet, InsidePc
  <2>4. Judged("read", ask[u].kind, w, errbuf[At(u)], Excused(u))
    BY <2>2, <2>3 DEF Judged, Calm
  <2>5. BootOK'
    BY <1>1, <2>1, <2>3, BootGoes
  <2>. QED BY <1>1, <2>1, <2>3, <2>4, <2>5, Finds, GoBlame
<1>. QED BY <1>2, <1>3

LEMMA GivenUpBlame ==
    ASSUME Inv, Blame, NEW u \in User, Eof(u) \/ Deadline(u)
    PROVE  Blame'
<1>1. /\ pc[u] \in {"hello", "read"} /\ pc[u] \in InsidePc
      /\ UNCHANGED <<booted, ask, compiled, size, hit>>
  BY DEF Eof, Deadline, AwaitsWorker, InsidePc
<1>2. CASE Eof(u)
  BY <1>1, <1>2, DeathBlame DEF Eof
<1>3. CASE Deadline(u)
  <2>1. /\ Fail(u, 500) /\ worker' = [worker EXCEPT ![At(u)] = NoWorker]
        /\ errbuf' = [errbuf EXCEPT ![At(u)] = {}]
    BY <1>3 DEF Deadline, _timeout, _kill
  <2>2. worker[At(u)].stalled
    BY <1>3 DEF Deadline, TimedOut, Watched
  <2>3. Excused(u)
    BY <1>1, <2>2, Finds DEF Judged
  <2>4. FailsFairly(u, 500)
    BY <1>1, <2>1, <2>3 DEF FailsFairly, Deserves, Excused
  <2>. QED BY <1>1, <2>1, <2>4, NewIsCalm, Finds, FailHurtsNoOne
<1>. QED BY <1>2, <1>3

LEMMA HandshakeBlame ==
    ASSUME Inv, Blame, NEW u \in User, start(u)
    PROVE  Blame'
<1> DEFINE p == IF At(u) \in compiled THEN "send" ELSE "gate"
           m == [ok |-> TRUE, for |-> Nobody, size |-> artifact[At(u)]]
           w == [worker[At(u)] EXCEPT !.out = Tail(@)]
<1>1. /\ pc[u] = "hello" /\ pc[u] \in InsidePc /\ worker[At(u)].out /= <<>> /\ Goto(u, p)
      /\ size' = [size EXCEPT ![At(u)] = Head(worker[At(u)].out).size]
      /\ worker' = [worker EXCEPT ![At(u)] = w]
      /\ UNCHANGED <<status, booted, ask, answer, compiled, errbuf, artifact, hit>>
  BY DEF start, InsidePc
<1>2. worker[At(u)].out = <<m>>
  <2>1. Introducing(At(u), worker[At(u)])
    BY <1>1 DEF Inv, PipesOK, Fits, Talking
  <2>. QED BY <1>1, <2>1 DEF Introducing
<1>3. size' = [size EXCEPT ![At(u)] = artifact[At(u)]]
  <2>1. \A k : Head(<<k>>) = k
    OBVIOUS
  <2>2. Head(worker[At(u)].out) = m /\ m.size = artifact[At(u)]
    BY <1>2, <2>1
  <2>. HIDE DEF m, w, p
  <2>. QED BY <1>1, <2>2
<1>4. /\ w.err = worker[At(u)].err /\ w.phase = worker[At(u)].phase
      /\ w.stalled = worker[At(u)].stalled
  BY UserFacts DEF WorkerRecord
<1>5. p \in {"send", "gate"} /\ p \in InsidePc
  BY DEF InsidePc
<1>. HIDE DEF w, m, p
<1>6. Judged(p, ask[u].kind, w, errbuf[At(u)], Excused(u))
  <2>1. Judged("hello", ask[u].kind, worker[At(u)], errbuf[At(u)], Excused(u))
    BY <1>1, Finds
  <2>2. Calm(worker[At(u)], errbuf[At(u)])
    BY <1>1, <2>1 DEF Judged, Calm
  <2>3. Calm(w, errbuf[At(u)])
    BY <1>4, <2>2 DEF Calm, Told
  <2>4. worker[At(u)].phase \notin {"none", "dead"} \/ Excused(u)
    BY <2>1, <2>2 DEF Judged, Calm
  <2>. QED BY <1>4, <1>5, <2>3, <2>4 DEF Judged, Calm
<1>7. BootOK'
  <2>1. pc'[u] = p /\ \A v \in User : v /= u => pc'[v] = pc[v]
    BY <1>1 DEF Goto, Inv, Typed
  <2>2. \A c \in compiled : size'[c] = "fits"
    BY <1>3, UserFacts DEF Inv, FitOK, Blame, BootOK
  <2>3. At(Boot)' = At(Boot) /\ pc[u] \notin {"none", "done"}
    BY <1>1 DEF At
  <2>4. (pc'[Boot] /= "done" => pc[Boot] /= "done")
        /\ \A r \in Request : pc'[r] \notin {"none", "done"} => pc[r] \notin {"none", "done"}
    BY <2>1, <2>3, BootIsNoRequest
  <2>. QED BY <1>1, <2>2, <2>3, <2>4 DEF Blame, BootOK
<1>. QED BY <1>1, <1>5, <1>6, <1>7, Finds, GoBlame

LEMMA AnsweredBlame ==
    ASSUME Inv, Blame, NEW u \in User, Answered(u)
    PROVE  Blame'
<1> DEFINE m == Head(worker[At(u)].out)
           w == [worker[At(u)] EXCEPT !.out = Tail(@)]
<1>1. /\ pc[u] = "read" /\ pc[u] \in InsidePc /\ worker[At(u)].out /= <<>>
      /\ worker' = [worker EXCEPT ![At(u)] = w]
      /\ UNCHANGED <<booted, ask, compiled, size, errbuf, hit>>
  BY DEF Answered, InsidePc, host
<1>2. /\ w.err = worker[At(u)].err /\ w.phase = worker[At(u)].phase
      /\ w.stalled = worker[At(u)].stalled
  BY UserFacts DEF WorkerRecord
<1>3. m.size = artifact[At(u)]
  <2>1. PICK ok \in BOOLEAN :
            worker[At(u)].out = <<[ok |-> ok, for |-> u, size |-> artifact[At(u)]]>>
    <3>1. ServingJob(At(u), u, worker[At(u)])
      BY <1>1 DEF Inv, PipesOK, Fits, Talking
    <3>. QED BY <1>1, <3>1 DEF ServingJob
  <2>2. \A k : Head(<<k>>) = k
    OBVIOUS
  <2>3. Head(worker[At(u)].out) = [ok |-> ok, for |-> u, size |-> artifact[At(u)]]
    BY <2>1, <2>2
  <2>. QED BY <2>3
<1>4. /\ m.ok <=> ask[u].kind = "good"
      /\ Calm(worker[At(u)], errbuf[At(u)])
  <2>1. Judged("read", ask[u].kind, worker[At(u)], errbuf[At(u)], Excused(u))
    BY <1>1, Finds
  <2>. QED BY <1>1, <2>1 DEF Judged, Calm
<1>. HIDE DEF w
<1>5. Calm(w, errbuf[At(u)])
  BY <1>2, <1>4 DEF Calm, Told
<1>6. CASE m.ok /\ m.size = size[At(u)]
  <2>1. Goto(u, "gpu") /\ UNCHANGED <<status, answer>> /\ "gpu" \in InsidePc
    BY <1>6 DEF Answered, InsidePc
  <2>2. Judged("gpu", ask[u].kind, w, errbuf[At(u)], Excused(u))
    BY <1>4, <1>5, <1>6 DEF Judged, Calm
  <2>3. BootOK'
    BY <1>1, <2>1, BootGoes
  <2>. QED BY <1>1, <2>1, <2>2, <2>3, Finds, GoBlame
<1>7. CASE ~(m.ok /\ m.size = size[At(u)])
  <2> DEFINE code == IF m.ok THEN 500 ELSE 400
  <2>1. Fail(u, code)
    BY <1>7 DEF Answered
  <2>2. u \in Request => ~m.ok
    BY <1>1, <1>3, <1>7, RequestsFindFits
  <2>. HIDE DEF m
  <2>3. FailsFairly(u, code)
    BY <1>4, <2>1, <2>2 DEF FailsFairly, Deserves
  <2>. HIDE DEF code
  <2>. QED BY <1>1, <1>5, <2>3, Finds, FailHurtsNoOne
<1>. QED BY <1>6, <1>7

LEMMA ProveWitnessBlame ==
    ASSUME Inv, Blame, NEW r \in Request, _prove_witness(r)
    PROVE  Blame'
<1>1. /\ r \in User /\ r /= Boot /\ pc[r] = "gpu" /\ pc[r] \in InsidePc /\ Goto(r, "done")
      /\ answer' = [answer EXCEPT ![r] = 200]
      /\ UNCHANGED <<status, booted, ask, compiled, size, worker, errbuf, hit>>
  BY BootIsNoRequest DEF _prove_witness, host, InsidePc
<1>2. ask[r].kind = "good" /\ Calm(worker[At(r)], errbuf[At(r)])
  BY <1>1, Finds DEF Judged, Talking
<1>3. Answers(r, 200)
  BY <1>1, <1>2 DEF Answers, Deserves
<1>4. BootOK'
  BY <1>1, BootGoes
<1>5. hit' \in [Request -> BOOLEAN] /\ \A q \in Request : hit[q] => hit'[q]
  BY <1>1, Finds
<1>. QED BY <1>1, <1>2, <1>3, <1>4, <1>5, Finds, LeaveBlame

LEMMA GpuThrowsBlame ==
    ASSUME Inv, Blame, NEW u \in User, GpuThrows(u)
    PROVE  Blame'
<1>1. /\ pc[u] \in InsidePc \ Talking /\ Fail(u, 500) /\ Fault(At(u)) /\ At(u) \in Circuit
      /\ UNCHANGED <<booted, ask, compiled, size, worker, errbuf>>
  BY UserFacts DEF GpuThrows, host, InsidePc, Talking
<1>2. /\ hit' \in [Request -> BOOLEAN] /\ \A r \in Request : hit[r] => hit'[r]
      /\ Excused(u)'
  BY <1>1, FaultExcuses
<1>3. FailsFairly(u, 500)
  BY <1>1, <1>2 DEF FailsFairly, Deserves, Excused
<1>. QED BY <1>1, <1>2, <1>3, Finds, FailBlame

-----------------------------------------------------------------------------
LEMMA StartWorkerBlame ==
    ASSUME Inv, Blame, StartWorker
    PROVE  Blame'
<1>1. /\ pc[Boot] \in InsidePc \ Talking /\ Boot \in User /\ Boot \notin Request
      /\ UNCHANGED <<booted, ask, compiled, size, hit>>
  BY BootIsNoRequest DEF StartWorker, InsidePc, Talking
<1>2. CASE artifact[At(Boot)] = "missing"
  <2>1. Fail(Boot, 500) /\ UNCHANGED <<worker, errbuf>>
    BY <1>2 DEF StartWorker
  <2>2. FailsFairly(Boot, 500)
    BY <1>1, <2>1 DEF FailsFairly, Deserves
  <2>. QED BY <1>1, <2>1, <2>2, Finds, FailHurtsNoOne
<1>3. CASE artifact[At(Boot)] /= "missing"
  <2>1. /\ Goto(Boot, "hello") /\ UNCHANGED <<status, answer>> /\ "hello" \in InsidePc
        /\ worker' = [worker EXCEPT ![At(Boot)] = Spawned]
        /\ errbuf' = [errbuf EXCEPT ![At(Boot)] = {}]
    BY <1>3 DEF StartWorker, _kill, InsidePc
  <2>2. Judged("hello", ask[Boot].kind, Spawned, {}, Excused(Boot))
    BY NewIsCalm DEF Judged, Calm
  <2>3. BootOK'
    BY <1>1, <2>1, BootGoes
  <2>. QED BY <1>1, <2>1, <2>2, <2>3, Finds, GoBlame
<1>. QED BY <1>2, <1>3

LEMMA GateBlame ==
    ASSUME Inv, Blame, Gate
    PROVE  Blame'
<1>1. /\ pc[Boot] \in InsidePc \ Talking /\ Boot \in User /\ Boot \notin Request
      /\ UNCHANGED <<booted, ask, compiled, size, worker, errbuf, hit>>
  BY BootIsNoRequest DEF Gate, host, InsidePc, Talking
<1>2. Calm(worker[At(Boot)], errbuf[At(Boot)])
  BY <1>1, Finds
<1>3. CASE check_witness_size(At(Boot))
  <2>1. Goto(Boot, "compile") /\ UNCHANGED <<status, answer>> /\ "compile" \in InsidePc
    BY <1>3 DEF Gate, InsidePc
  <2>2. Judged("compile", ask[Boot].kind, worker[At(Boot)], errbuf[At(Boot)], Excused(Boot))
    BY <1>2 DEF Judged, Calm
  <2>3. BootOK'
    BY <1>1, <2>1, BootGoes
  <2>. QED BY <1>1, <2>1, <2>2, <2>3, Finds, GoBlame
<1>4. CASE ~check_witness_size(At(Boot))
  <2>1. FailsFairly(Boot, 500)
    BY <1>1, <1>4 DEF Gate, FailsFairly, Deserves
  <2>. QED BY <1>1, <1>2, <2>1, Finds, FailHurtsNoOne
<1>. QED BY <1>3, <1>4

LEMMA CompileBlame ==
    ASSUME Inv, Blame, Compile
    PROVE  Blame'
<1>1. /\ pc[Boot] \in InsidePc \ Talking /\ pc[Boot] = "compile" /\ Boot \in User
      /\ Boot \notin Request /\ "compute" \in InsidePc
      /\ compiled' = compiled \cup {At(Boot)} /\ Goto(Boot, "compute")
      /\ UNCHANGED <<status, booted, ask, answer, size, worker, errbuf, hit>>
  BY BootIsNoRequest DEF Compile, InsidePc, Talking
<1>2. Judged("compute", ask[Boot].kind, worker[At(Boot)], errbuf[At(Boot)], Excused(Boot))
  BY <1>1, Finds DEF Judged, Calm
<1>3. BootOK'
  <2>1. pc'[Boot] = "compute" /\ \A r \in Request : pc'[r] = pc[r]
    BY <1>1, BootIsNoRequest DEF Goto, Inv, Typed
  <2>2. At(Boot)' = At(Boot) /\ At(Boot) \in Circuit /\ size[At(Boot)] = "fits"
    BY <1>1, UserFacts DEF At, Inv, FitOK
  <2>3. status = "initializing"
    BY <1>1 DEF Inv, TurnOK
  <2>. QED BY <1>1, <2>1, <2>2, <2>3 DEF Blame, BootOK
<1>. QED BY <1>1, <1>2, <1>3, Finds, GoBlame

LEMMA WarmedUpBlame ==
    ASSUME Inv, Blame, WarmedUp
    PROVE  Blame'
<1>1. /\ pc[Boot] \in InsidePc \ Talking /\ pc[Boot] = "gpu" /\ Boot \in User
      /\ Boot \notin Request /\ booted' = booted + 1
      /\ UNCHANGED <<answer, compiled, size, worker, errbuf, hit>>
  BY BootIsNoRequest DEF WarmedUp, host, InsidePc, Talking
<1>2. /\ booted \in Nat /\ booted < Len(BootOrder) /\ Len(BootOrder) \in Nat
      /\ DOMAIN BootOrder = 1 .. Len(BootOrder)
      /\ At(Boot) = BootOrder[booted + 1] /\ At(Boot) \in compiled
      /\ \A i \in 1 .. booted : BootOrder[i] \in compiled
  BY <1>1, ProverAssumption DEF Inv, Typed, FitOK, Blame, BootOK
<1>3. \A i \in 1 .. booted' : BootOrder[i] \in compiled
  <2>1. \A i \in 1 .. (booted + 1) : i \in 1 .. booted \/ i = booted + 1
    BY <1>2
  <2>. QED BY <1>1, <1>2, <2>1
<1>4. Calm(worker[At(Boot)], errbuf[At(Boot)])
  BY <1>1, Finds
<1>5. CASE ~(booted' < Len(BootOrder))
  <2>1. Goto(Boot, "done") /\ status' = "ready" /\ ask' = ask
    BY <1>5 DEF WarmedUp
  <2>2. compiled = Circuit
    <3>1. booted' = Len(BootOrder)
      <4>1. \A n, k \in Nat : n < k /\ ~(n + 1 < k) => n + 1 = k
        OBVIOUS
      <4>2. ~(booted + 1 < Len(BootOrder))
        BY <1>1, <1>5
      <4>. QED BY <1>1, <1>2, <4>1, <4>2
    <3>2. compiled \subseteq Circuit
      BY DEF Inv, Typed
    <3>. QED BY <1>2, <1>3, <3>1, <3>2 DEF Circuit
  <2>3. pc'[Boot] = "done"
    BY <1>1, <2>1 DEF Goto, Inv, Typed
  <2>4. BootOK'
    BY <1>1, <1>3, <2>1, <2>2, <2>3 DEF Blame, BootOK
  <2>5. Answers(Boot, 200)
    BY <1>1 DEF Answers, Deserves
  <2>6. hit' \in [Request -> BOOLEAN] /\ \A q \in Request : hit[q] => hit'[q]
    BY <1>1, Finds
  <2>. QED BY <1>1, <1>4, <2>1, <2>4, <2>5, <2>6, Finds, LeaveBlame
<1>6. CASE booted' < Len(BootOrder)
  <2>1. /\ ask' = [ask EXCEPT ![Boot].circuit = BootOrder[booted' + 1]]
        /\ pc' = [pc EXCEPT ![Boot] = "start"] /\ status' = status
    BY <1>6 DEF WarmedUp, Goto
  <2>2. /\ pc'[Boot] = "start" /\ \A v \in User : v /= Boot => pc'[v] = pc[v]
        /\ \A v \in User : v /= Boot => ask'[v] = ask[v]
        /\ At(Boot)' = BootOrder[booted' + 1]
    BY <1>1, <2>1 DEF Inv, Typed, At
  <2>3. At(Boot)' \in Circuit
    <3>1. booted' + 1 \in 1 .. Len(BootOrder)
      BY <1>1, <1>2, <1>6
    <3>. QED BY <1>2, <2>2, <3>1 DEF Circuit
  <2>4. BootOK'
    BY <1>1, <1>3, <1>6, <2>1, <2>2, BootIsNoRequest DEF Blame, BootOK
  <2>5. \A v \in User : v /= Boot => pc[v] \notin InsidePc
    BY <1>1, OneInside DEF Inv
  <2>6. \A c \in Circuit : Calm(worker[c], errbuf[c])
    <3>1. ASSUME NEW c \in Circuit, c /= At(Boot)
          PROVE  Calm(worker[c], errbuf[c])
      BY <2>5, <3>1 DEF Blame, CasesOK
    <3>. QED BY <1>4, <3>1
  <2>7. CasesOK'
    <3>1. ASSUME NEW v \in User, pc'[v] \in InsidePc
          PROVE  pc'[v] = "start" /\ At(v)' \in Circuit
      BY <2>2, <2>3, <2>5, <3>1
    <3>. QED BY <1>1, <2>6, <3>1 DEF CasesOK, Judged, Calm, Told
  <2>8. Kept'
    BY <1>1 DEF Blame, Kept
  <2>9. AnswersOK'
    <3>1. \A r \in Request : ask'[r] = ask[r] /\ pc'[r] = pc[r]
      BY <2>2, BootIsNoRequest
    <3>. QED BY <1>1, <3>1 DEF Blame, AnswersOK, BlameIsFair
  <2>. QED BY <2>4, <2>7, <2>8, <2>9 DEF Blame
<1>. QED BY <1>5, <1>6

-----------------------------------------------------------------------------
\* Who waits for the lock finds the service ready, and calm when it gets it.
LEMMA ProveBlame ==
    ASSUME Inv, Blame, NEW r \in Request, prove(r)
    PROVE  Blame'
<1>1. /\ pc[r] = "none" /\ r \in User /\ r /= Boot
      /\ UNCHANGED <<booted, compiled, size, worker, errbuf, hit>>
  BY BootIsNoRequest DEF prove, host
<1>2. PICK c \in Circuit, k \in Kind :
          IF Ready(c)
          THEN /\ ask' = [ask EXCEPT ![r] = [circuit |-> c, kind |-> k]]
               /\ Goto(r, "locking")
               /\ UNCHANGED <<status, answer, proveLock>>
          ELSE Fail(r, 503) /\ UNCHANGED ask
  BY DEF prove
<1>3. ASSUME NEW p \in {"locking", "done"}, Goto(r, p), p = "locking" => status = "ready",
             status' = status, \A v \in User : v /= r => ask'[v] = ask[v],
             answer' = IF p = "done" THEN [answer EXCEPT ![r] = 503] ELSE answer
      PROVE  Blame'
  <2>1. /\ pc'[r] = p /\ \A v \in User : v /= r => pc'[v] = pc[v]
        /\ p \notin InsidePc /\ pc[r] \notin InsidePc
    BY <1>1, <1>3 DEF Goto, Inv, Typed, InsidePc
  <2>2. \A v \in User : v /= r => At(v)' = At(v)
    BY <1>3 DEF At
  <2>3. Kept'
    <3>1. answer \in [Request -> Nat] /\ 503 \in Nat
      BY DEF Blame, Kept
    <3>2. answer' \in [Request -> Nat]
      BY <1>3, <3>1
    <3>. QED BY <1>1, <3>2 DEF Blame, Kept
  <2>4. BootOK'
    <3>1. pc'[Boot] = pc[Boot] /\ At(Boot)' = At(Boot)
      BY <1>1, <2>1, <2>2, BootIsNoRequest
    <3>2. ASSUME NEW q \in Request, pc'[q] \notin {"none", "done"}
          PROVE  pc[q] \notin {"none", "done"} \/ status = "ready"
      BY <1>3, <2>1, <3>2, BootIsNoRequest
    <3>. QED BY <1>1, <1>3, <3>1, <3>2, BootStays DEF Blame
  <2>5. CasesOK'
    <3>1. ASSUME NEW v \in User, pc'[v] \in InsidePc
          PROVE  /\ pc'[v] = pc[v] /\ ask'[v] = ask[v] /\ At(v)' = At(v)
                 /\ Excused(v)' = Excused(v)
      BY <1>1, <1>3, <2>1, <2>2, <3>1 DEF Excused
    <3>2. ASSUME NEW v \in User, pc[v] \in InsidePc
          PROVE  pc'[v] = pc[v] /\ At(v)' = At(v)
      BY <2>1, <2>2, <3>2
    <3>3. ASSUME NEW v \in User, pc'[v] \in InsidePc
          PROVE  Judged(pc'[v], ask'[v].kind, worker'[At(v)'], errbuf'[At(v)'], Excused(v)')
      <4>1. Judged(pc[v], ask[v].kind, worker[At(v)], errbuf[At(v)], Excused(v))
        BY <3>1, <3>3 DEF Blame, CasesOK
      <4>. QED BY <1>1, <3>1, <3>3, <4>1
    <3>4. ASSUME NEW c_1 \in Circuit, \A v \in User : pc'[v] \in InsidePc => At(v)' /= c_1
          PROVE  Calm(worker'[c_1], errbuf'[c_1])
      <4>1. \A v \in User : pc[v] \in InsidePc => At(v) /= c_1
        BY <3>2, <3>4
      <4>. QED BY <1>1, <4>1 DEF Blame, CasesOK
    <3>. QED BY <3>3, <3>4 DEF CasesOK, Judged, Calm, Told
  <2>6. AnswersOK'
    <3>1. ASSUME NEW q \in Request, q /= r
          PROVE  answer'[q] = answer[q] /\ ask'[q] = ask[q] /\ pc'[q] = pc[q]
      BY <1>3, <2>1, <3>1, BootIsNoRequest
    <3>2. IF p = "done" THEN answer'[r] = 503 ELSE answer'[r] = 0
      BY <1>1, <1>3 DEF Blame, Kept, AnswersOK
    <3>. QED BY <1>1, <2>1, <3>1, <3>2 DEF Blame, AnswersOK, BlameIsFair
  <2>. QED BY <2>3, <2>4, <2>5, <2>6 DEF Blame
<1>4. CASE Ready(c)
  <2>1. /\ Goto(r, "locking") /\ status' = status /\ status = "ready" /\ answer' = answer
        /\ \A v \in User : v /= r => ask'[v] = ask[v]
    BY <1>2, <1>4 DEF Ready, Inv, Typed
  <2>2. ASSUME NEW p \in {"locking", "done"}, p = "locking"
        PROVE  Blame'
    <3>1. Goto(r, p)
      BY <2>1, <2>2 DEF Goto
    <3>. QED BY <1>3, <2>1, <2>2, <3>1
  <2>. QED BY <2>2
<1>5. CASE ~Ready(c)
  <2>1. /\ Goto(r, "done") /\ status' = status /\ answer' = [answer EXCEPT ![r] = 503]
        /\ \A v \in User : v /= r => ask'[v] = ask[v]
    BY <1>1, <1>2, <1>5 DEF Fail
  <2>2. ASSUME NEW p \in {"locking", "done"}, p = "done"
        PROVE  Blame'
    <3>1. Goto(r, p)
      BY <2>1, <2>2 DEF Goto
    <3>. QED BY <1>3, <2>1, <2>2, <3>1
  <2>. QED BY <2>2
<1>. QED BY <1>4, <1>5

LEMMA AcquireBlame ==
    ASSUME Inv, Blame, NEW r \in Request, Acquire(r)
    PROVE  Blame'
<1>1. /\ pc[r] = "locking" /\ r \in User /\ r /= Boot /\ proveLock = Nobody
      /\ Goto(r, "compute")
      /\ UNCHANGED <<status, booted, ask, answer, compiled, size, worker, errbuf, hit>>
  BY BootIsNoRequest DEF Acquire, host
<1>2. pc'[r] = "compute" /\ \A v \in User : v /= r => pc'[v] = pc[v]
  BY <1>1 DEF Goto, Inv, Typed
<1>3. \A v \in User : At(v)' = At(v) /\ Excused(v)' = Excused(v)
  BY <1>1 DEF At, Excused
<1>4. \A v \in User : pc[v] \notin InsidePc
  <2>1. \A q \in Request : pc[q] \notin InsidePc
    BY <1>1, ProverAssumption DEF Inv, TurnOK, User
  <2>2. pc[Boot] \notin InsidePc
    BY <1>1 DEF Inv, TurnOK, InsidePc
  <2>. QED BY <2>1, <2>2 DEF User
<1>5. \A c \in Circuit : Calm(worker[c], errbuf[c])
  BY <1>4 DEF Blame, CasesOK
<1>6. CasesOK'
  <2>1. ASSUME NEW v \in User, pc'[v] \in InsidePc
        PROVE  pc'[v] = "compute" /\ At(v)' \in Circuit
    BY <1>2, <1>3, <1>4, <2>1, UserFacts
  <2>. QED BY <1>1, <1>5, <2>1 DEF CasesOK, Judged, Calm, Told, Talking
<1>7. Kept'
  BY <1>1 DEF Blame, Kept
<1>8. BootOK'
  BY <1>1, <1>2, <1>3, BootIsNoRequest, BootStays DEF Blame
<1>9. AnswersOK'
  BY <1>1, <1>2, BootIsNoRequest, AnswersStay DEF Blame
<1>. QED BY <1>6, <1>7, <1>8, <1>9 DEF Blame

-----------------------------------------------------------------------------
LEMMA NextBlame == Inv /\ Blame /\ [Next]_vars => Blame'
<1>. SUFFICES ASSUME Inv, Blame, [Next]_vars PROVE Blame'
  OBVIOUS
<1>1. CASE _initialize
  BY <1>1, StartWorkerBlame, GateBlame, CompileBlame, WarmedUpBlame DEF _initialize
<1>2. ASSUME NEW r \in Request, prove(r) \/ Acquire(r)
      PROVE  Blame'
  BY <1>2, ProveBlame, AcquireBlame
<1>3. ASSUME NEW u \in User, Thread(u)
      PROVE  Blame'
  <2>1. CASE compute(u)
    BY <2>1, ComputeBlame
  <2>2. CASE send(u)
    BY <2>2, SendBlame
  <2>3. CASE _drain_stderr_once(u)
    BY <2>3, DrainBlame
  <2>4. CASE Eof(u) \/ Deadline(u)
    BY <2>4, GivenUpBlame
  <2>5. CASE start(u)
    BY <2>5, HandshakeBlame
  <2>6. CASE Answered(u)
    BY <2>6, AnsweredBlame
  <2>7. CASE _prove_witness(u)
    <3>1. u \in Request
      BY <2>7 DEF _prove_witness
    <3>. QED BY <2>7, <3>1, ProveWitnessBlame
  <2>. QED BY <1>3, <2>1, <2>2, <2>3, <2>4, <2>5, <2>6, <2>7 DEF Thread, Wait
<1>4. ASSUME NEW u \in User, GpuThrows(u)
      PROVE  Blame'
  BY <1>4, GpuThrowsBlame
<1>5. ASSUME NEW c \in Circuit, Work(c)
      PROVE  Blame'
  BY <1>5, LoadBlame, ReadLineBlame, LogBlame, MainBlame DEF Work
<1>6. ASSUME NEW c \in Circuit, Die(c) \/ Stall(c) \/ Resume(c)
      PROVE  Blame'
  BY <1>6, DieBlame, StallBlame, ResumeBlame
<1>7. CASE UNCHANGED vars
  <2>1. UNCHANGED <<status, booted, pc, ask, answer, compiled, size, worker, errbuf, hit>>
    BY <1>7 DEF vars, host
  <2>2. Kept' /\ BootOK' /\ AnswersOK'
    BY <2>1 DEF Blame, Kept, BootOK, AnswersOK, BlameIsFair, At
  <2>3. CasesOK'
    BY <2>1 DEF Blame, CasesOK, Judged, Calm, Told, Excused, At
  <2>. QED BY <2>2, <2>3 DEF Blame
<1>. QED BY <1>1, <1>2, <1>3, <1>4, <1>5, <1>6, <1>7 DEF Next

(***************************************************************************)
(* BlameIsFair, for any list of circuits, any number of requests and       *)
(* faults and any size of pipe: a request is refused as bad only if its    *)
(* input is, and as broken only if something broke in its own turn         *)
(* (classify_worker_death, _death, _timeout), however much was logged and  *)
(* whichever workers died before.                                          *)
(***************************************************************************)
THEOREM ProverBlameIsFair == Spec => []BlameIsFair
<1>1. Blame => BlameIsFair
  BY DEF Blame, AnswersOK
<1>2. Inv /\ Blame /\ [Next]_vars => Blame'
  BY NextBlame
<1>. QED BY InitBlame, ProverInvariant, <1>1, <1>2, PTL DEF Spec

-----------------------------------------------------------------------------
(***************************************************************************)
(* The key cache.                                                          *)
(***************************************************************************)
KeyRecord == [identity : Owner, account : Owner, session : Owner, stealth : Owner,
              age : Nat, under : Owner]

OpRecord == [pc : {"none", "unlock", "derive", "stealth", "reread", "served"},
             session : Owner, address : Owner, stealth : BOOLEAN, account : Owner,
             same : BOOLEAN, key : Owner, stealthKey : Owner]

SessionTyped ==
    /\ signer \in {"asked", "selected"}
    /\ {selected, last, session, address, login} \subseteq Owner
    /\ held \in KeyRecord
    /\ op \in OpRecord

(***************************************************************************)
(* The invariant.  A wallet that answers for the account it is asked for   *)
(* opens a session of that account; one that answers for the selected      *)
(* account makes keys of the account they are made under, which is the one *)
(* the watcher saw last.                                                   *)
(***************************************************************************)
\* The watcher has seen the account that is selected.
SeenLast == selected /= NoAccount => last = selected

\* A key of the watcher's account, and of the session it is held for.
HeldOK == held /= NoKey =>
              /\ held.under = last /\ last /= NoAccount
              /\ signer = "selected" => held.under = held.session

HeldIsOwn == /\ held.identity = held.session
             /\ held.stealth \in {NoAccount, held.session}

\* Whoever is asked for is whose session it is.
AskedIsSigner == signer = "asked" => session = address /\ op.session = op.address

\* An action that took the hold and did not see it replaced looks at its session's.
SameHold == op.same => held /= NoKey /\ held.session = op.session

KeyInHand == op.pc \in {"stealth", "reread", "served"} => op.key = op.session

StealthInHand ==
    /\ op.pc = "reread" /\ op.same => op.stealthKey = op.session
    /\ op.pc = "served" /\ op.stealth => op.stealthKey = op.session

SessionInv ==
    /\ SessionTyped /\ SeenLast /\ HeldOK /\ HeldIsOwn
    /\ AskedIsSigner /\ SameHold /\ KeyInHand /\ StealthInHand

LEMMA SessionInitInv == SessionInit => SessionInv
BY SessionAssumption DEF SessionInit, SessionInv, SessionTyped, SeenLast, HeldOK, HeldIsOwn, AskedIsSigner,
       SameHold, KeyInHand, StealthInHand, NoKey, NoOp, KeyRecord, OpRecord, Owner

-----------------------------------------------------------------------------
(***************************************************************************)
(* Records and helpers.                                                    *)
(***************************************************************************)
LEMMA Empty == NoKey \in KeyRecord /\ NoOp \in OpRecord
BY DEF NoKey, NoOp, KeyRecord, OpRecord, Owner

LEMMA SignedIsOwner ==
    ASSUME SessionTyped, NEW asked \in Owner
    PROVE  Signed(asked) \in Owner
BY DEF SessionTyped, Signed

LEMMA KeyFacts ==
    ASSUME SessionTyped, NEW identity \in Owner, NEW account \in Owner, NEW owner \in Owner
    PROVE  /\ Key(identity, account, owner) \in KeyRecord
           /\ Key(identity, account, owner).identity = identity
           /\ Key(identity, account, owner).session = owner
           /\ Key(identity, account, owner).stealth = NoAccount
           /\ Key(identity, account, owner).under = selected
BY DEF SessionTyped, Key, KeyRecord, Owner

\* What every step that drops the key leaves of the invariant.
LEMMA LockKeeps ==
    ASSUME SessionInv, lock(op), signer' = signer,
           {selected', last', session', address', login'} \subseteq Owner,
           SeenLast', signer = "asked" => session' = address'
    PROVE  SessionInv'
<1>1. held' = NoKey /\ op' = [op EXCEPT !.same = FALSE]
  BY DEF lock, Hold
<1>2. op \in OpRecord
  BY DEF SessionInv, SessionTyped
<1>3. /\ op' \in OpRecord /\ ~op'.same
      /\ op'.pc = op.pc /\ op'.session = op.session /\ op'.address = op.address
      /\ op'.stealth = op.stealth /\ op'.key = op.key /\ op'.stealthKey = op.stealthKey
  BY <1>1, <1>2 DEF OpRecord
<1>4. SessionTyped'
  BY <1>1, <1>3, Empty DEF SessionInv, SessionTyped
<1>5. HeldOK' /\ HeldIsOwn'
  BY <1>1 DEF HeldOK, HeldIsOwn, NoKey
<1>6. AskedIsSigner' /\ SameHold' /\ KeyInHand' /\ StealthInHand'
  BY <1>3 DEF SessionInv, AskedIsSigner, SameHold, KeyInHand, StealthInHand
<1>. QED BY <1>4, <1>5, <1>6 DEF SessionInv

\* What an action that ends leaves of it: the key is kept, or dropped.
LEMMA EndKeeps ==
    ASSUME SessionInv, op' = NoOp, held' = held \/ held' = NoKey,
           UNCHANGED <<wallet, signIn>>
    PROVE  SessionInv'
<1>1. /\ op'.pc = "none" /\ op'.session = op'.address /\ ~op'.same
  BY DEF NoOp
<1>2. SessionTyped' /\ SeenLast'
  BY Empty DEF SessionInv, SessionTyped, SeenLast, wallet, signIn
<1>3. HeldOK' /\ HeldIsOwn'
  BY DEF SessionInv, HeldOK, HeldIsOwn, NoKey, wallet
<1>4. AskedIsSigner' /\ SameHold' /\ KeyInHand' /\ StealthInHand'
  BY <1>1 DEF SessionInv, AskedIsSigner, SameHold, KeyInHand, StealthInHand, wallet, signIn
<1>. QED BY <1>2, <1>3, <1>4 DEF SessionInv

\* A step that only ages or refreshes the key, or leaves key and action alone.
LEMMA AgeKeeps ==
    ASSUME SessionInv, UNCHANGED <<wallet, session, address, op>>, login' \in Owner,
           NEW age \in Nat, held' = [held EXCEPT !.age = age], held /= NoKey
    PROVE  SessionInv'
<1>1. held \in KeyRecord
  BY DEF SessionInv, SessionTyped
<1>2. /\ held' \in KeyRecord
      /\ held'.identity = held.identity /\ held'.session = held.session
      /\ held'.stealth = held.stealth /\ held'.under = held.under
  BY <1>1 DEF KeyRecord
<1>3. held' /= NoKey
  BY <1>2 DEF SessionInv, HeldOK, NoKey
<1>. QED BY <1>2, <1>3 DEF SessionInv, SessionTyped, SeenLast, HeldOK, HeldIsOwn, AskedIsSigner,
                           SameHold, KeyInHand, StealthInHand, wallet

LEMMA IdleKeeps ==
    ASSUME SessionInv, UNCHANGED <<wallet, session, address, op, held>>, login' \in Owner
    PROVE  SessionInv'
BY DEF SessionInv, SessionTyped, SeenLast, HeldOK, HeldIsOwn, AskedIsSigner,
       SameHold, KeyInHand, StealthInHand, wallet

-----------------------------------------------------------------------------
(***************************************************************************)
(* The wallet, the clock and the scans.                                    *)
(***************************************************************************)
LEMMA WatchInv ==
    ASSUME SessionInv, NEW to \in Account, accountWatchHandler(to)
    PROVE  SessionInv'
<1>1. /\ selected' = to /\ last' = to /\ to \in Owner /\ to /= NoAccount
      /\ UNCHANGED <<signer, signIn>>
  BY SessionAssumption DEF accountWatchHandler, Owner
<1>2. SeenLast'
  BY <1>1 DEF SeenLast
<1>3. CASE Switched(to)
  <2>1. lock(op)
    BY <1>3 DEF accountWatchHandler
  <2>. QED BY <1>1, <1>2, <2>1, LockKeeps DEF SessionInv, SessionTyped, AskedIsSigner, signIn
<1>4. CASE ~Switched(to)
  <2>1. UNCHANGED <<held, op>>
    BY <1>4 DEF accountWatchHandler
  <2>2. last \in {NoAccount, to}
    BY <1>4 DEF Switched
  <2>. QED BY <1>1, <1>2, <2>1, <2>2
           DEF SessionInv, SessionTyped, HeldOK, HeldIsOwn, AskedIsSigner, SameHold, KeyInHand,
               StealthInHand, signIn
<1>. QED BY <1>3, <1>4

LEMMA GapInv ==
    ASSUME SessionInv, WalletGap
    PROVE  SessionInv'
BY DEF WalletGap, SessionInv, SessionTyped, SeenLast, HeldOK, HeldIsOwn, AskedIsSigner, SameHold,
       KeyInHand, StealthInHand, signIn, Owner

LEMMA TickInv ==
    ASSUME SessionInv, Tick
    PROVE  SessionInv'
<1>1. held.age + 1 \in Nat
  BY DEF SessionInv, SessionTyped, KeyRecord
<1>2. held' = [held EXCEPT !.age = held.age + 1]
  BY DEF Tick
<1>. QED BY <1>1, <1>2, AgeKeeps DEF Tick, signIn, SessionInv, SessionTyped

LEMMA IdleWipeInv ==
    ASSUME SessionInv, IdleWipe
    PROVE  SessionInv'
BY LockKeeps DEF IdleWipe, wallet, signIn, SessionInv, SessionTyped, SeenLast, AskedIsSigner

LEMMA ScansInv ==
    ASSUME SessionInv, Scan \/ \E owner \in scanning : ScanEnds(owner) \/ ScanFails(owner)
    PROVE  SessionInv'
<1>1. UNCHANGED <<wallet, signIn, op, held>>
  BY DEF Scan, ScanEnds, ScanFails, peek
<1>. QED BY <1>1, IdleKeeps DEF signIn, SessionInv, SessionTyped

-----------------------------------------------------------------------------
(***************************************************************************)
(* An action of the user's.                                                *)
(***************************************************************************)
LEMMA StartInv ==
    ASSUME SessionInv, NEW stealth \in BOOLEAN, Start(stealth)
    PROVE  SessionInv'
<1>1. /\ op' \in OpRecord /\ op'.pc = "unlock" /\ ~op'.same
      /\ op'.session = session /\ op'.address = address
  BY Empty DEF Start, NoOp, OpRecord, SessionInv, SessionTyped
<1>2. UNCHANGED <<wallet, signIn, held>>
  BY DEF Start
<1>. QED BY <1>1, <1>2 DEF SessionInv, SessionTyped, SeenLast, HeldOK, HeldIsOwn, AskedIsSigner,
                           SameHold, KeyInHand, StealthInHand, wallet, signIn

\* An action that is handed its session's key goes on, with what stealth keys are there.
LEMMA ServedFacts ==
    ASSUME SessionInv, NEW key \in Owner, NEW stealthKey \in Owner, op' = Served(key, stealthKey),
           key = op.session, stealthKey \in {NoAccount, op.session}
    PROVE  /\ op' \in OpRecord /\ op'.session = op.session /\ op'.address = op.address
           /\ KeyInHand' /\ StealthInHand'
<1>1. op \in OpRecord
  BY DEF SessionInv, SessionTyped
<1>2. CASE op.stealth /\ stealthKey = NoAccount
  <2>1. op' = [op EXCEPT !.pc = "stealth", !.same = TRUE, !.key = key,
                         !.stealthKey = stealthKey]
    BY <1>2 DEF Served
  <2>2. op' \in OpRecord /\ op'.session = op.session /\ op'.address = op.address
        /\ op'.pc = "stealth" /\ op'.key = key
    BY <1>1, <2>1 DEF OpRecord
  <2>. QED BY <2>2 DEF KeyInHand, StealthInHand
<1>3. CASE ~(op.stealth /\ stealthKey = NoAccount)
  <2>1. op' = [op EXCEPT !.pc = "served", !.same = TRUE, !.key = key,
                         !.stealthKey = stealthKey]
    BY <1>3 DEF Served
  <2>2. op' \in OpRecord /\ op'.session = op.session /\ op'.address = op.address
        /\ op'.stealth = op.stealth
        /\ op'.pc = "served" /\ op'.key = key /\ op'.stealthKey = stealthKey
    BY <1>1, <2>1 DEF OpRecord
  <2>. QED BY <1>3, <2>2 DEF KeyInHand, StealthInHand
<1>. QED BY <1>2, <1>3

LEMMA UnlockInv ==
    ASSUME SessionInv, unlock
    PROVE  SessionInv'
<1>1. UNCHANGED <<wallet, signIn>>
  BY DEF unlock
<1>2. ASSUME held /= NoKey, held.session = op.session, Reused(held)
      PROVE  SessionInv'
  <2>1. held \in KeyRecord /\ held.identity = op.session
        /\ held.stealth \in {NoAccount, op.session}
    BY <1>2 DEF SessionInv, SessionTyped, HeldIsOwn
  <2>2. held.identity \in Owner /\ held.stealth \in Owner
    BY <2>1 DEF KeyRecord
  <2>3. /\ op' \in OpRecord /\ op'.session = op.session /\ op'.address = op.address
        /\ KeyInHand' /\ StealthInHand'
    BY <1>2, <2>1, <2>2, ServedFacts DEF Reused
  <2>4. /\ held' \in KeyRecord
        /\ held'.identity = held.identity /\ held'.session = held.session
        /\ held'.stealth = held.stealth /\ held'.under = held.under
    BY <1>2, <2>1 DEF Reused, KeyRecord
  <2>5. held' /= NoKey
    BY <1>2, <2>4 DEF SessionInv, HeldOK, NoKey
  <2>. QED BY <1>1, <1>2, <2>3, <2>4, <2>5
           DEF SessionInv, SessionTyped, SeenLast, HeldOK, HeldIsOwn, AskedIsSigner, SameHold,
               wallet, signIn
<1>3. ASSUME held' = NoKey, op' = NoOp
      PROVE  SessionInv'
  BY <1>1, <1>3, EndKeeps
<1>4. ASSUME NEW account \in {selected, NoAccount},
             lock([op EXCEPT !.pc = "derive", !.account = account])
      PROVE  SessionInv'
  <2>1. op \in OpRecord /\ account \in Owner
    BY DEF SessionInv, SessionTyped, Owner
  <2>2. /\ held' = NoKey
        /\ op' = [[op EXCEPT !.pc = "derive", !.account = account] EXCEPT !.same = FALSE]
    BY <1>4 DEF lock, Hold
  <2>3. op' \in OpRecord /\ op'.pc = "derive" /\ ~op'.same
        /\ op'.session = op.session /\ op'.address = op.address
    BY <2>1, <2>2 DEF OpRecord
  <2>. QED BY <1>1, <2>2, <2>3, Empty
           DEF SessionInv, SessionTyped, SeenLast, HeldOK, HeldIsOwn, AskedIsSigner, SameHold,
               KeyInHand, StealthInHand, NoKey, wallet, signIn
<1>. QED BY <1>2, <1>3, <1>4 DEF unlock, Usable

\* A popup is answered by the account that is selected, or by the one that was asked.
LEMMA DeriveInv ==
    ASSUME SessionInv, derive
    PROVE  SessionInv'
<1>1. UNCHANGED <<wallet, signIn>> /\ selected /= NoAccount /\ selected = last
  BY DEF derive, Popup, SessionInv, SeenLast
<1>2. op \in OpRecord /\ op.address \in Owner /\ op.session \in Owner
  BY DEF SessionInv, SessionTyped, OpRecord
<1> DEFINE identity == Signed(op.address)
<1>3. identity \in Owner /\ FiledUnder \in Owner
  BY <1>2, SignedIsOwner DEF SessionInv, FiledUnder, OpRecord
<1>4. CASE identity /= op.session
  BY <1>1, <1>4, EndKeeps DEF derive
<1>5. CASE identity = op.session
  <2>1. held' = Key(identity, FiledUnder, op.session) /\ op' = Served(identity, NoAccount)
    BY <1>5 DEF derive
  <2>2. /\ held' \in KeyRecord /\ held'.identity = op.session
        /\ held'.session = op.session /\ held'.stealth = NoAccount
        /\ held'.under = selected
    BY <1>2, <1>3, <1>5, <2>1, KeyFacts DEF SessionInv
  <2>3. /\ op' \in OpRecord /\ op'.session = op.session /\ op'.address = op.address
        /\ KeyInHand' /\ StealthInHand'
    BY <1>3, <1>5, <2>1, ServedFacts DEF Owner
  <2>4. held' /= NoKey
    BY <1>1, <2>2 DEF NoKey
  <2>5. signer = "selected" => held'.under = held'.session
    BY <1>5, <2>2 DEF Signed
  <2>. QED BY <1>1, <2>2, <2>3, <2>4, <2>5
           DEF SessionInv, SessionTyped, SeenLast, HeldOK, HeldIsOwn, AskedIsSigner, SameHold,
               wallet, signIn
<1>. QED BY <1>4, <1>5

LEMMA DeriveStealthInv ==
    ASSUME SessionInv, deriveStealth
    PROVE  SessionInv'
<1>1. UNCHANGED <<wallet, signIn, held>> /\ selected /= NoAccount /\ selected = last
      /\ op.pc = "stealth"
  BY DEF deriveStealth, Popup, SessionInv, SeenLast
<1>2. op \in OpRecord /\ op.address \in Owner
  BY DEF SessionInv, SessionTyped, OpRecord
<1>3. Signed(op.address) \in Owner
  BY <1>2, SignedIsOwner DEF SessionInv
<1>4. op' = [op EXCEPT !.pc = "reread", !.stealthKey = Signed(op.address)]
  BY DEF deriveStealth
<1>5. /\ op' \in OpRecord /\ op'.pc = "reread" /\ op'.same = op.same
      /\ op'.session = op.session /\ op'.address = op.address /\ op'.key = op.key
      /\ op'.stealthKey = Signed(op.address)
  BY <1>2, <1>3, <1>4 DEF OpRecord
<1>6. op.same => Signed(op.address) = op.session
  <2>1. CASE signer = "asked"
    BY <2>1 DEF Signed, SessionInv, AskedIsSigner
  <2>2. CASE signer = "selected"
    BY <1>1, <2>2 DEF Signed, SessionInv, SameHold, HeldOK
  <2>. QED BY <2>1, <2>2 DEF SessionInv, SessionTyped
<1>. QED BY <1>1, <1>5, <1>6
         DEF SessionInv, SessionTyped, SeenLast, HeldOK, HeldIsOwn, AskedIsSigner, SameHold,
             KeyInHand, StealthInHand, wallet, signIn

LEMMA UnlockStealthInv ==
    ASSUME SessionInv, unlockStealth
    PROVE  SessionInv'
<1>1. UNCHANGED <<wallet, signIn>> /\ op.pc = "reread"
  BY DEF unlockStealth
<1>2. CASE held' = NoKey /\ op' = NoOp
  BY <1>1, <1>2, EndKeeps
<1>3. ASSUME op.same, op' = [op EXCEPT !.pc = "served"],
             held' = IF held = NoKey THEN held
                     ELSE [held EXCEPT !.stealth = op.stealthKey, !.age = 0]
      PROVE  SessionInv'
  <2>1. op \in OpRecord /\ held \in KeyRecord /\ op.stealthKey \in Owner
    BY DEF SessionInv, SessionTyped, OpRecord
  <2>2. /\ held /= NoKey /\ held.session = op.session
        /\ op.stealthKey = op.session /\ op.key = op.session
    BY <1>1, <1>3 DEF SessionInv, SameHold, StealthInHand, KeyInHand
  <2>3. /\ held' \in KeyRecord
        /\ held'.identity = held.identity /\ held'.session = held.session
        /\ held'.stealth = held.session /\ held'.under = held.under
    BY <1>3, <2>1, <2>2 DEF KeyRecord
  <2>4. /\ op' \in OpRecord /\ op'.pc = "served"
        /\ op'.session = op.session /\ op'.address = op.address
        /\ op'.key = op.session /\ op'.stealthKey = op.session
    BY <1>3, <2>1, <2>2 DEF OpRecord
  <2>5. held' /= NoKey
    BY <2>2, <2>3 DEF SessionInv, HeldOK, NoKey
  <2>. QED BY <1>1, <2>2, <2>3, <2>4, <2>5
           DEF SessionInv, SessionTyped, SeenLast, HeldOK, HeldIsOwn, AskedIsSigner, SameHold,
               KeyInHand, StealthInHand, wallet, signIn
<1>. QED BY <1>2, <1>3 DEF unlockStealth, StillHeld

LEMMA OpEndsInv ==
    ASSUME SessionInv, OpEnds
    PROVE  SessionInv'
BY EndKeeps DEF OpEnds

-----------------------------------------------------------------------------
(***************************************************************************)
(* Signing in and out.                                                     *)
(***************************************************************************)
LEMMA ConnectInv ==
    ASSUME SessionInv, connectWallet \/ LoginFails
    PROVE  SessionInv'
<1>1. login' \in Owner
  BY DEF connectWallet, LoginFails, SessionInv, SessionTyped, Owner
<1>. QED BY <1>1, IdleKeeps DEF connectWallet, LoginFails

LEMMA LoginInv ==
    ASSUME SessionInv, runLogin
    PROVE  SessionInv'
<1>1. /\ login' = NoAccount /\ UNCHANGED <<signer, selected>>
      /\ login \in Owner /\ selected \in Owner /\ selected /= NoAccount
  BY DEF runLogin, SessionInv, SessionTyped
<1> DEFINE identity == Signed(login)
<1>2. identity \in Owner
  BY <1>1, SignedIsOwner DEF SessionInv
<1>3. CASE known[login] \notin {NoAccount, identity}
  <2>1. UNCHANGED <<session, address, last, held, op>>
    BY <1>3 DEF runLogin
  <2>. QED BY <1>1, <2>1, IdleKeeps DEF wallet, Owner
<1>4. CASE known[login] \in {NoAccount, identity}
  <2>1. /\ session' = identity /\ address' = login /\ last' = selected
        /\ held' = Key(identity, login, identity)
        /\ op' = [op EXCEPT !.same = FALSE]
    BY <1>4 DEF runLogin, Hold
  <2>2. /\ held' \in KeyRecord /\ held'.identity = identity /\ held'.session = identity
        /\ held'.stealth = NoAccount /\ held'.under = selected
    BY <1>1, <1>2, <2>1, KeyFacts DEF SessionInv
  <2>3. /\ op' \in OpRecord /\ ~op'.same
        /\ op'.pc = op.pc /\ op'.session = op.session /\ op'.address = op.address
        /\ op'.stealth = op.stealth /\ op'.key = op.key /\ op'.stealthKey = op.stealthKey
    BY <2>1 DEF SessionInv, SessionTyped, OpRecord
  <2>4. /\ signer = "asked" => identity = login
        /\ signer = "selected" => identity = selected
    BY DEF Signed
  <2>5. SessionTyped' /\ SeenLast'
    BY <1>1, <1>2, <2>1, <2>2, <2>3 DEF SessionInv, SessionTyped, SeenLast, Owner
  <2>6. HeldOK' /\ HeldIsOwn'
    BY <1>1, <2>1, <2>2, <2>4 DEF HeldOK, HeldIsOwn
  <2>7. AskedIsSigner' /\ SameHold' /\ KeyInHand' /\ StealthInHand'
    BY <1>1, <2>1, <2>3, <2>4
       DEF SessionInv, AskedIsSigner, SameHold, KeyInHand, StealthInHand
  <2>. QED BY <2>5, <2>6, <2>7 DEF SessionInv
<1>. QED BY <1>3, <1>4

LEMMA EndSessionInv ==
    ASSUME SessionInv, NEW forget \in BOOLEAN, endSession(forget)
    PROVE  SessionInv'
<1>1. /\ lock(op) /\ UNCHANGED <<signer, selected, login>>
      /\ session' = NoAccount /\ address' = NoAccount /\ last' = selected
  BY DEF endSession
<1>. QED BY <1>1, LockKeeps DEF SessionInv, SessionTyped, SeenLast, Owner

LEMMA ReloadInv ==
    ASSUME SessionInv, Reload
    PROVE  SessionInv'
<1>1. /\ UNCHANGED <<signer, selected>> /\ last' = selected /\ login' = NoAccount
      /\ held' = NoKey /\ op' = NoOp
      /\ <<session', address'>> \in {<<session, address>>, <<NoAccount, NoAccount>>}
  BY DEF Reload
<1>2. op'.pc = "none" /\ op'.session = op'.address /\ ~op'.same
  BY <1>1 DEF NoOp
<1>3. SessionTyped' /\ SeenLast'
  BY <1>1, Empty DEF SessionInv, SessionTyped, SeenLast, Owner
<1>4. HeldOK' /\ HeldIsOwn'
  BY <1>1 DEF HeldOK, HeldIsOwn, NoKey
<1>5. AskedIsSigner' /\ SameHold' /\ KeyInHand' /\ StealthInHand'
  BY <1>1, <1>2 DEF SessionInv, AskedIsSigner, SameHold, KeyInHand, StealthInHand
<1>. QED BY <1>3, <1>4, <1>5 DEF SessionInv

LEMMA SessionNextInv == SessionInv /\ [SessionNext]_sessionVars => SessionInv'
<1>. SUFFICES ASSUME SessionInv, [SessionNext]_sessionVars PROVE SessionInv'
  OBVIOUS
<1>1. ASSUME NEW to \in Account, accountWatchHandler(to) PROVE SessionInv'
  BY <1>1, WatchInv
<1>2. CASE WalletGap \/ Tick \/ IdleWipe
  BY <1>2, GapInv, TickInv, IdleWipeInv
<1>3. ASSUME NEW stealth \in BOOLEAN, Start(stealth) PROVE SessionInv'
  BY <1>3, StartInv
<1>4. CASE unlock \/ derive \/ deriveStealth \/ unlockStealth \/ OpEnds
  BY <1>4, UnlockInv, DeriveInv, DeriveStealthInv, UnlockStealthInv, OpEndsInv
<1>5. CASE connectWallet \/ runLogin \/ LoginFails
  BY <1>5, ConnectInv, LoginInv
<1>6. ASSUME NEW forget \in BOOLEAN, endSession(forget) PROVE SessionInv'
  BY <1>6, EndSessionInv
<1>7. CASE Reload
  BY <1>7, ReloadInv
<1>8. CASE Scan \/ \E owner \in scanning : ScanEnds(owner) \/ ScanFails(owner)
  BY <1>8, ScansInv
<1>9. CASE UNCHANGED sessionVars
  BY <1>9, IdleKeeps DEF sessionVars, signIn, SessionInv, SessionTyped
<1>. QED BY <1>1, <1>2, <1>3, <1>4, <1>5, <1>6, <1>7, <1>8, <1>9 DEF SessionNext

-----------------------------------------------------------------------------
(***************************************************************************)
(* The invariant holds in every reachable state of every page.             *)
(***************************************************************************)
THEOREM SessionInvariant == SessionSpec => []SessionInv
<1>. QED BY SessionInitInv, SessionNextInv, PTL DEF SessionSpec

(***************************************************************************)
(* No interleaving of popups, switches of account, logins, sign-outs and   *)
(* reloads hands an action a key of another session than its own.          *)
(***************************************************************************)
THEOREM SessionServedItsKeys == SessionSpec => []ServedTheSessionsKeys
<1>1. SessionInv => ServedTheSessionsKeys
  BY DEF SessionInv, KeyInHand, StealthInHand, HeldIsOwn, ServedTheSessionsKeys
<1>. QED BY SessionInvariant, <1>1, PTL

(***************************************************************************)
(* A key in memory was made under the account the wallet shows, however    *)
(* long a gap hid the change: the watcher drops the hold when the account  *)
(* comes back as another one (HoldsEndWithTheSwitch).                      *)
(***************************************************************************)
THEOREM SessionHoldsEnd == SessionSpec => []HoldsEndWithTheSwitch
<1>1. SessionInv => HoldsEndWithTheSwitch
  BY DEF SessionInv, SeenLast, HeldOK, HoldsEndWithTheSwitch
<1>. QED BY SessionInvariant, <1>1, PTL
=============================================================================
