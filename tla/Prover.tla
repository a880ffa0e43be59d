-------------------------------- MODULE Prover --------------------------------
(***************************************************************************)
(* The prover service (prover/prover_service): a boot thread that brings   *)
(* up one engine per circuit, request threads that prove under one lock,   *)
(* and per engine a worker process that computes witnesses over pipes and  *)
(* that aborts on an input the circuit does not accept.                    *)
(*                                                                         *)
(* The boot thread and the requests are "users" of the engines: the        *)
(* warm-up proof takes the way a request takes.  The bytes in the worker's *)
(* stdout and those the parent read ahead (_rbuf) are one sequence.        *)
(***************************************************************************)
EXTENDS Naturals, Sequences, FiniteSets

CONSTANTS BootOrder,  \* the circuits of BONGTU_CIRCUITS, in order
          Request,    \* requests to /prove
          Boot,       \* the thread that initialises the engines
          Nobody,
          MaxLogs,    \* bound on the lines a worker logs in one computation
          PipeLines,  \* the lines a worker's stderr pipe takes
          MaxFaults   \* bound on what goes wrong

Circuit == {BootOrder[i] : i \in DOMAIN BootOrder}
User    == Request \cup {Boot}

ASSUME ProverAssumption ==
    /\ BootOrder \in Seq(Circuit) /\ BootOrder /= <<>>
    /\ Boot \notin Request /\ Nobody \notin User
    /\ PipeLines \in Nat \ {0} /\ MaxLogs \in Nat /\ MaxFaults \in Nat

VARIABLES status,    \* state["status"]
          booted,    \* how many engines the boot thread has finished
          proveLock, \* who holds _prove_lock
          pc,        \* where each user is
          ask,       \* the circuit a user is at, and what its input is like
          got,       \* the witness a user was handed
          answer,    \* the HTTP status a request was answered with
          compiled,  \* the engines with a CompiledProver
          size,      \* witness_size of the handshake, per engine
          errbuf,    \* what was read of the worker's stderr
          worker,    \* the worker processes and their pipes
          artifact,  \* the state of each circuit's .so on disk
          faults,    \* what went wrong so far
          hit        \* whose turn it was when something did

host == <<compiled, size, errbuf>>
vars == <<status, booted, proveLock, pc, ask, got, answer, host, worker, artifact, faults, hit>>

\* "good" satisfies the circuit and "unsat" does not; "misfit" lacks keys or has a
\* value that is no integer, "short" has another count than the circuit's.
Kind == {"good", "unsat", "misfit", "short"}

NoWorker == [phase |-> "none", job |-> Nobody, stalled |-> FALSE, logged |-> 0,
             stdin |-> <<>>, out |-> <<>>, err |-> <<>>]
Spawned  == [NoWorker EXCEPT !.phase = "loading"]

NoWitness == [for |-> Nobody, size |-> "none"]

\* Inside an engine, its worker or the GPU.
Inside == {u \in User : pc[u] \in {"start", "hello", "gate", "compile",
                                   "compute", "send", "read", "gpu"}}

At(u) == ask[u].circuit
Alive(c) == worker[c].phase \notin {"none", "dead"}

Init ==
    /\ status = "initializing" /\ booted = 0 /\ proveLock = Nobody
    /\ pc = [u \in User |-> IF u = Boot THEN "start" ELSE "none"]
    /\ ask = [u \in User |-> [circuit |-> BootOrder[1], kind |-> "good"]]
    /\ got = [u \in User |-> NoWitness]
    /\ answer = [r \in Request |-> 0]
    /\ compiled = {}
    /\ size = [c \in Circuit |-> "none"]
    /\ errbuf = [c \in Circuit |-> {}]
    /\ worker = [c \in Circuit |-> NoWorker]
    /\ artifact \in [Circuit -> {"fits", "stale", "broken", "missing"}]
    /\ faults = 0
    /\ hit = [r \in Request |-> FALSE]

-----------------------------------------------------------------------------
(* What every step of a user is made of.                                   *)

Goto(u, to) == pc' = [pc EXCEPT ![u] = to]

\* An exception leaves the lock's block, and the handler answers; it ends the boot.
Fail(u, code) ==
    /\ Goto(u, "done")
    /\ IF u = Boot
       THEN status' = "failed" /\ UNCHANGED <<answer, proveLock>>
       ELSE /\ answer' = [answer EXCEPT ![u] = code]
            /\ proveLock' = IF proveLock = u THEN Nobody ELSE proveLock
            /\ UNCHANGED status

\* The worker is killed and its pipes with it; next is what stands in its place.
_kill(c, next) ==
    /\ worker' = [worker EXCEPT ![c] = next]
    /\ errbuf' = [errbuf EXCEPT ![c] = {}]

\* The worker has died: what is left of its stderr is read, and decides the blame.
_death(u) ==
    LET c == At(u)
        printed == errbuf[c] \cup {worker[c].err[i] : i \in DOMAIN worker[c].err}
    IN  /\ _kill(c, NoWorker)
        /\ Fail(u, IF "assertion" \in printed THEN 400 ELSE 500)

\* Mutant of _timeout: the worker is left to itself.
_timeoutAlone(u) == Fail(u, 500) /\ UNCHANGED <<worker, errbuf>>

_timeout(u) == _kill(At(u), NoWorker) /\ Fail(u, 500)

-----------------------------------------------------------------------------
(* The way of a request to an engine.                                      *)

Ready(c) == status = "ready"

\* A request for one of the circuits waits for the lock or is turned away.
prove(r) ==
    /\ pc[r] = "none"
    /\ \E c \in Circuit, k \in Kind :
          IF Ready(c)
          THEN /\ ask' = [ask EXCEPT ![r] = [circuit |-> c, kind |-> k]]
               /\ Goto(r, "locking")
               /\ UNCHANGED <<status, answer, proveLock>>
          ELSE Fail(r, 503) /\ UNCHANGED ask
    /\ UNCHANGED <<booted, got, host, worker, artifact, faults, hit>>

Acquire(r) ==
    /\ pc[r] = "locking" /\ proveLock = Nobody
    /\ proveLock' = r
    /\ Goto(r, "compute")
    /\ UNCHANGED <<status, booted, ask, got, answer, host, worker, artifact, faults, hit>>

\* The input is flattened; a worker that is gone is replaced before it is used.
compute(u) ==
    LET c == At(u) IN
    /\ pc[u] = "compute"
    /\ \/ /\ c \notin compiled \/ ask[u].kind = "misfit"
          /\ Fail(u, IF c \notin compiled THEN 500 ELSE 400)
          /\ UNCHANGED <<worker, errbuf>>
       \/ /\ c \in compiled /\ ask[u].kind /= "misfit"
          /\ IF Alive(c) THEN Goto(u, "send") /\ UNCHANGED <<worker, errbuf>>
                         ELSE Goto(u, "hello") /\ _kill(c, Spawned)
          /\ UNCHANGED <<status, answer, proveLock>>
    /\ UNCHANGED <<booted, ask, got, compiled, size, artifact, faults, hit>>

\* The request goes down the pipe, which may turn out to be broken.
send(u) ==
    LET c == At(u) IN
    /\ pc[u] = "send"
    /\ IF Alive(c)
       THEN /\ worker' = [worker EXCEPT ![c].stdin = Append(@, u)]
            /\ Goto(u, "read")
            /\ UNCHANGED <<status, answer, proveLock, errbuf>>
       ELSE _death(u)
    /\ UNCHANGED <<booted, ask, got, compiled, size, artifact, faults, hit>>

-----------------------------------------------------------------------------
(* Waiting for the worker: _fill.                                          *)

\* Mutant of Watched: stderr is read only after a death.
WatchedStdout == {"stdout"}

Watched == {"stdout", "stderr"}

AwaitsWorker(u) == pc[u] \in {"hello", "read"} /\ worker[At(u)].out = <<>>

_drain_stderr_once(u) ==
    LET c == At(u) IN
    /\ AwaitsWorker(u) /\ "stderr" \in Watched
    /\ worker[c].err /= <<>>
    /\ errbuf' = [errbuf EXCEPT ![c] = @ \cup {Head(worker[c].err)}]
    /\ worker' = [worker EXCEPT ![c].err = Tail(@)]
    /\ UNCHANGED <<status, booted, proveLock, pc, ask, got, answer, compiled, size, artifact,
                   faults, hit>>

\* The end of stdout: all that a dead worker wrote before has been read.
Eof(u) ==
    /\ AwaitsWorker(u) /\ worker[At(u)].phase = "dead"
    /\ _death(u)
    /\ UNCHANGED <<booted, ask, got, compiled, size, artifact, faults, hit>>

\* Mutant of TimedOut: select without a deadline.
TimedOutNever(c) == FALSE

\* A deadline is far longer than a healthy computation: it passes only if the worker
\* stalls, or waits for room in a pipe that nobody empties.
TimedOut(c) ==
    \/ worker[c].stalled
    \/ Alive(c) /\ Len(worker[c].err) = PipeLines /\ "stderr" \notin Watched

Deadline(u) ==
    /\ AwaitsWorker(u) /\ TimedOut(At(u))
    /\ _timeout(u)
    /\ UNCHANGED <<booted, ask, got, compiled, size, artifact, faults, hit>>

\* The handshake; the size is what every later answer is measured against.
start(u) ==
    LET c == At(u) IN
    /\ pc[u] = "hello" /\ worker[c].out /= <<>>
    /\ size' = [size EXCEPT ![c] = Head(worker[c].out).size]
    /\ worker' = [worker EXCEPT ![c].out = Tail(@)]
    /\ Goto(u, IF c \in compiled THEN "send" ELSE "gate")
    /\ UNCHANGED <<status, booted, proveLock, ask, got, answer, compiled, errbuf, artifact,
                   faults, hit>>

\* An answer: ok with a witness, or a fault of the input that the worker survives.
Answered(u) ==
    LET c == At(u)
        m == Head(worker[c].out)
    IN  /\ pc[u] = "read" /\ worker[c].out /= <<>>
        /\ worker' = [worker EXCEPT ![c].out = Tail(@)]
        /\ IF m.ok /\ m.size = size[c]
           THEN /\ got' = [got EXCEPT ![u] = [for |-> m.for, size |-> m.size]]
                /\ Goto(u, "gpu")
                /\ UNCHANGED <<status, answer, proveLock>>
           ELSE Fail(u, IF m.ok THEN 500 ELSE 400) /\ UNCHANGED got
        /\ UNCHANGED <<booted, ask, host, artifact, faults, hit>>

\* The proof of a request: the answer, and the lock is free.
_prove_witness(r) ==
    /\ r \in Request /\ pc[r] = "gpu"
    /\ Goto(r, "done")
    /\ answer' = [answer EXCEPT ![r] = 200]
    /\ proveLock' = IF proveLock = r THEN Nobody ELSE proveLock
    /\ got' = [got EXCEPT ![r] = NoWitness]
    /\ UNCHANGED <<status, booted, ask, host, worker, artifact, faults, hit>>

-----------------------------------------------------------------------------
(* The boot thread: CircuitProver.initialize, engine after engine.         *)

StartWorker ==
    LET c == At(Boot) IN
    /\ pc[Boot] = "start"
    /\ IF artifact[c] = "missing"
       THEN Fail(Boot, 500) /\ UNCHANGED <<worker, errbuf>>
       ELSE Goto(Boot, "hello") /\ _kill(c, Spawned) /\ UNCHANGED <<status, answer, proveLock>>
    /\ UNCHANGED <<booted, ask, got, compiled, size, artifact, faults, hit>>

\* The zkey has as many variables as the witness of a .so that fits has elements.
check_witness_size(c) == size[c] = "fits"

Gate ==
    /\ pc[Boot] = "gate"
    /\ IF check_witness_size(At(Boot))
       THEN Goto(Boot, "compile") /\ UNCHANGED <<status, answer, proveLock>>
       ELSE Fail(Boot, 500)
    /\ UNCHANGED <<booted, ask, got, host, worker, artifact, faults, hit>>

\* compile_circom; then the warm-up input goes the way of a request.
Compile ==
    /\ pc[Boot] = "compile"
    /\ compiled' = compiled \cup {At(Boot)}
    /\ Goto(Boot, "compute")
    /\ UNCHANGED <<status, booted, proveLock, ask, got, answer, size, errbuf, worker, artifact,
                   faults, hit>>

WarmedUp ==
    /\ pc[Boot] = "gpu"
    /\ booted' = booted + 1
    /\ got' = [got EXCEPT ![Boot] = NoWitness]
    /\ IF booted' < Len(BootOrder)
       THEN /\ ask' = [ask EXCEPT ![Boot].circuit = BootOrder[booted' + 1]]
            /\ Goto(Boot, "start")
            /\ UNCHANGED status
       ELSE Goto(Boot, "done") /\ status' = "ready" /\ UNCHANGED ask
    /\ UNCHANGED <<proveLock, answer, host, worker, artifact, faults, hit>>

_initialize == StartWorker \/ Gate \/ Compile \/ WarmedUp

-----------------------------------------------------------------------------
(* The worker process.                                                     *)

Works(c, phase) == worker[c].phase = phase /\ ~worker[c].stalled

SetWorker(c, w) ==
    /\ worker' = [worker EXCEPT ![c] = w]
    /\ UNCHANGED <<status, booted, proveLock, pc, ask, got, answer, host, artifact, faults, hit>>

\* The .so and its map are loaded and introduced, or found not to go together.
Load(c) ==
    /\ Works(c, "loading")
    /\ SetWorker(c, IF artifact[c] = "broken"
                    THEN [worker[c] EXCEPT !.phase = "dead"]
                    ELSE [worker[c] EXCEPT !.phase = "idle",
                              !.out = Append(@, [ok |-> TRUE, for |-> Nobody,
                                                 size |-> artifact[c]])])

ReadLine(c) ==
    /\ Works(c, "idle") /\ worker[c].stdin /= <<>>
    /\ SetWorker(c, [worker[c] EXCEPT !.phase = "busy", !.logged = 0,
                         !.job = Head(worker[c].stdin), !.stdin = Tail(@)])

Room(c) == Len(worker[c].err) < PipeLines

Log(c) ==
    /\ Works(c, "busy") /\ worker[c].logged < MaxLogs /\ Room(c)
    /\ SetWorker(c, [worker[c] EXCEPT !.err = Append(@, "log"), !.logged = @ + 1])

\* An input of the wrong length is refused; one that breaks a constraint is printed
\* on stderr as an assertion and kills the process.
circuit_main(c) ==
    LET job == worker[c].job
        kind == ask[job].kind
    IN  /\ Works(c, "busy")
        /\ IF kind = "unsat"
           THEN /\ Room(c)
                /\ SetWorker(c, [worker[c] EXCEPT !.phase = "dead",
                                     !.err = Append(@, "assertion")])
           ELSE SetWorker(c, [worker[c] EXCEPT !.phase = "idle", !.job = Nobody,
                                  !.out = Append(@, [ok |-> kind = "good", for |-> job,
                                                     size |-> artifact[c]])])

Work(c) == Load(c) \/ ReadLine(c) \/ Log(c) \/ circuit_main(c)

-----------------------------------------------------------------------------
(* What goes wrong.                                                        *)

Fault(c) ==
    /\ faults < MaxFaults
    /\ faults' = faults + 1
    /\ hit' = [r \in Request |-> hit[r] \/ (r \in Inside /\ At(r) = c)]

\* Killed for its memory, a bus error, a traceback.
Die(c) ==
    /\ Fault(c) /\ Alive(c)
    /\ worker' = [worker EXCEPT ![c].phase = "dead"]
    /\ UNCHANGED <<status, booted, proveLock, pc, ask, got, answer, host, artifact>>

Stall(c) ==
    /\ Fault(c) /\ worker[c].phase \in {"loading", "busy"} /\ ~worker[c].stalled
    /\ worker' = [worker EXCEPT ![c].stalled = TRUE]
    /\ UNCHANGED <<status, booted, proveLock, pc, ask, got, answer, host, artifact>>

\* A stalled worker was only slow.
Resume(c) ==
    /\ worker[c].stalled
    /\ SetWorker(c, [worker[c] EXCEPT !.stalled = FALSE])

\* The proof itself throws.
GpuThrows(u) ==
    /\ pc[u] = "gpu"
    /\ Fault(At(u))
    /\ Fail(u, 500)
    /\ got' = [got EXCEPT ![u] = NoWitness]
    /\ UNCHANGED <<booted, ask, host, worker, artifact>>

-----------------------------------------------------------------------------
Wait(u) == _drain_stderr_once(u) \/ Eof(u) \/ Deadline(u) \/ start(u) \/ Answered(u)

Thread(u) == compute(u) \/ send(u) \/ Wait(u) \/ _prove_witness(u)

Next ==
    \/ _initialize
    \/ \E r \in Request : prove(r) \/ Acquire(r)
    \/ \E u \in User : Thread(u) \/ GpuThrows(u)
    \/ \E c \in Circuit : Work(c) \/ Die(c) \/ Stall(c) \/ Resume(c)

Spec == Init /\ [][Next]_vars

\* Threads and workers that can go on do; a lock that is free is taken.
Fairness ==
    /\ WF_vars(_initialize)
    /\ \A r \in Request : WF_vars(Acquire(r))
    /\ \A u \in User : WF_vars(Thread(u))
    /\ \A c \in Circuit : WF_vars(Work(c))

FairSpec == Spec /\ Fairness

-----------------------------------------------------------------------------
(***************************************************************************)
(* One thread at a time is in an engine, its worker's pipes or the GPU: of *)
(* the requests by _prove_lock, and the boot thread, which takes no lock,  *)
(* because nobody passes the check of state["status"] before it is done.   *)
(***************************************************************************)
OneAtATime == Cardinality(Inside) <= 1

(***************************************************************************)
(* A proof is made of the witness of the request it answers, and of a      *)
(* witness as long as the zkey wants it, however many workers were killed, *)
(* slow or replaced before (_timeout, check_witness_size): no two threads  *)
(* ever read the same pipes.                                               *)
(***************************************************************************)
ProofsAreTheirOwn ==
    /\ OneAtATime
    /\ \A u \in User : pc[u] = "gpu" => got[u] = [for |-> u, size |-> "fits"]

(***************************************************************************)
(* The blame goes where it belongs (classify_worker_death): a client is    *)
(* told its input is at fault only if it is, however workers died before;  *)
(* and it is told so, or proved, unless something broke in its own turn,   *)
(* however much the worker logged.                                         *)
(***************************************************************************)
BlameIsFair ==
    \A r \in Request :
        /\ answer[r] = 200 => ask[r].kind = "good"
        /\ answer[r] = 400 => ask[r].kind /= "good"
        /\ answer[r] = 500 => hit[r]

(***************************************************************************)
(* The boot ends, and every request is answered, though workers hang, or   *)
(* die and are restarted under the lock (_fill, _death, start).            *)
(***************************************************************************)
EveryRequestAnswered ==
    /\ <>(status /= "initializing")
    /\ \A r \in Request : pc[r] = "locking" ~> answer[r] /= 0
=============================================================================
