----------------------------- MODULE RenderPool -----------------------------
(***************************************************************************)
(* ts_render, ts_render_async and ts_render_join (lib/trace/frontend/       *)
(* render.c): a controller hands the indices of a trace set to worker       *)
(* threads.  done counts the workers that may be idle, every worker has a   *)
(* semaphore to be woken by, and args[w] is shared without a lock.          *)
(***************************************************************************)
EXTENDS Integers, FiniteSets

CONSTANTS NThreads, NTraces,
          Faults    \* the failures that may happen

ASSUME SizesAssumption == NThreads \in Nat \ {0} /\ NTraces \in Nat
ASSUME FaultsAssumption == Faults \subseteq {"setup", "create", "get"}

VARIABLES
    ctl,       \* where the controller is
    next,      \* curr_index, the next index to hand out
    i,         \* the worker its loop is at
    done,      \* done_signal
    ret,       \* the code the controller returns: 0 or Error
    caller,    \* the thread that waits for the controller
    wpc,       \* where each worker is
    signal,    \* per worker: thread_signal
    index,     \* per worker: trace_index
    code,      \* per worker: ret, one of Idle, Busy and Error
    ts,        \* per worker: the trace set is there; FALSE says exit
    calls      \* history: how often trace_get was called for each index

controllerVars == <<ctl, next, i, ret>>
argVars == <<index, code, ts>>
vars == <<controllerVars, done, caller, wpc, signal, argVars, calls>>

Workers == 0 .. NThreads - 1
Indices == 0 .. NTraces - 1

Idle == 1
Busy == 0
Error == -1

Init ==
    /\ ctl = "setup"
    /\ next = 0
    /\ i = 0
    /\ done = 0
    /\ ret = 0
    /\ caller = "waiting"
    /\ wpc = [w \in Workers |-> "absent"]
    /\ signal = [w \in Workers |-> 0]
    /\ index = [w \in Workers |-> 0]
    /\ code = [w \in Workers |-> Busy]
    /\ ts = [w \in Workers |-> FALSE]
    /\ calls = [k \in Indices |-> 0]

-----------------------------------------------------------------------------
(* The controller *)

\* MUTANT: one token too few, or one too many, to start with.
MutTooFewTokens == NThreads - 1

\* done_signal starts with a token per worker.
InitialTokens == NThreads

\* The semaphores and the workers' arguments; nothing else runs yet.
Setup ==
    /\ ctl = "setup"
    /\ done' = InitialTokens
    /\ code' = [w \in Workers |-> Idle]
    /\ ts' = [w \in Workers |-> TRUE]
    /\ ctl' = "create"
    /\ UNCHANGED <<next, i, ret, caller, wpc, signal, index, calls>>

\* A semaphore or an allocation fails: everything is torn down again.
SetupFails ==
    /\ "setup" \in Faults
    /\ ctl = "setup"
    /\ ret' = Error
    /\ ctl' = "finished"
    /\ UNCHANGED <<next, i, done, caller, wpc, signal, argVars, calls>>

AfterCreate ==
    IF i + 1 = NThreads THEN ctl' = "wait" /\ i' = 0
                        ELSE ctl' = "create" /\ i' = i + 1

Create ==
    /\ ctl = "create"
    /\ wpc' = [wpc EXCEPT ![i] = "wait"]
    /\ AfterCreate
    /\ UNCHANGED <<next, done, ret, caller, signal, argVars, calls>>

\* pthread_create answers with a positive error number, which `ret < 0` does not
\* see: the controller goes on as if the worker were there.
CreateFails ==
    /\ "create" \in Faults
    /\ ctl = "create"
    /\ AfterCreate
    /\ UNCHANGED <<next, done, ret, caller, wpc, signal, argVars, calls>>

MoreToDo == next < NTraces

WaitDone ==
    /\ ctl = "wait"
    /\ MoreToDo
    /\ done > 0
    /\ done' = done - 1
    /\ ctl' = "scan"
    /\ i' = 0
    /\ UNCHANGED <<next, ret, caller, wpc, signal, argVars, calls>>

\* The first idle worker gets the index and is woken.
Dispatch ==
    /\ ctl = "scan"
    /\ code[i] = Idle
    /\ index' = [index EXCEPT ![i] = next]
    /\ next' = next + 1
    /\ code' = [code EXCEPT ![i] = Busy]
    /\ signal' = [signal EXCEPT ![i] = @ + 1]
    /\ ctl' = "wait"
    /\ UNCHANGED <<i, done, ret, caller, wpc, ts, calls>>

ScanBusy ==
    /\ ctl = "scan"
    /\ code[i] = Busy
    /\ IF i + 1 = NThreads THEN ctl' = "wait" /\ UNCHANGED i
                           ELSE i' = i + 1 /\ UNCHANGED ctl
    /\ UNCHANGED <<next, done, ret, caller, wpc, signal, argVars, calls>>

ScanError ==
    /\ ctl = "scan"
    /\ code[i] = Error
    /\ ret' = code[i]
    /\ ctl' = "kill"
    /\ i' = 0
    /\ UNCHANGED <<next, done, caller, wpc, signal, argVars, calls>>

\* MUTANT: one worker is not waited for.
MutDrainGoal == NThreads - 1

DrainGoal == NThreads

\* All indices are handed out: wait for as many tokens as there are workers.
Drain ==
    /\ \/ ctl = "wait" /\ ~MoreToDo /\ i' = 1
       \/ ctl = "drain" /\ i < DrainGoal /\ i' = i + 1
    /\ done > 0
    /\ done' = done - 1
    /\ ctl' = "drain"
    /\ UNCHANGED <<next, ret, caller, wpc, signal, argVars, calls>>

\* What the workers' codes say is not looked at any more.
Drained ==
    /\ ctl = "drain"
    /\ i = DrainGoal
    /\ ret' = 0
    /\ ctl' = "kill"
    /\ i' = 0
    /\ UNCHANGED <<next, done, caller, wpc, signal, argVars, calls>>

\* MUTANT: the worker is told to exit but not woken.
MutKill ==
    /\ ctl = "kill"
    /\ ts' = [ts EXCEPT ![i] = FALSE]
    /\ ctl' = "join"
    /\ UNCHANGED <<next, i, done, ret, caller, wpc, signal, index, code, calls>>

Kill ==
    /\ ctl = "kill"
    /\ ts' = [ts EXCEPT ![i] = FALSE]
    /\ signal' = [signal EXCEPT ![i] = @ + 1]
    /\ ctl' = "join"
    /\ UNCHANGED <<next, i, done, ret, caller, wpc, index, code, calls>>

\* MUTANT: the worker is not joined.
MutEnded(w) == TRUE

\* A thread that was never created has a handle nothing is known of.
Ended(w) == wpc[w] \in {"exited", "absent"}

\* After the last join the semaphores are destroyed and args is freed.
Join ==
    /\ ctl = "join"
    /\ Ended(i)
    /\ IF i + 1 = NThreads THEN ctl' = "finished" /\ UNCHANGED i
                           ELSE ctl' = "kill" /\ i' = i + 1
    /\ UNCHANGED <<next, done, ret, caller, wpc, signal, argVars, calls>>

\* ts_render and ts_render_join wait for the controller and return its code.
Return ==
    /\ caller = "waiting"
    /\ ctl = "finished"
    /\ caller' = "returned"
    /\ UNCHANGED <<controllerVars, done, wpc, signal, argVars, calls>>

-----------------------------------------------------------------------------
(* A worker *)

WGoto(w, label) == wpc' = [wpc EXCEPT ![w] = label]

Wake(w) ==
    /\ wpc[w] = "wait"
    /\ signal[w] > 0
    /\ signal' = [signal EXCEPT ![w] = @ - 1]
    /\ WGoto(w, "woken")
    /\ UNCHANGED <<controllerVars, done, caller, argVars, calls>>

Exit(w) ==
    /\ wpc[w] = "woken"
    /\ ~ts[w]
    /\ code' = [code EXCEPT ![w] = 0]
    /\ WGoto(w, "exited")
    /\ UNCHANGED <<controllerVars, done, caller, signal, index, ts, calls>>

Proceed(w) ==
    /\ wpc[w] = "woken"
    /\ ts[w]
    /\ WGoto(w, "get")
    /\ UNCHANGED <<controllerVars, done, caller, signal, argVars, calls>>

Call(w) == calls' = [calls EXCEPT ![index[w]] = @ + 1]

GetTrace(w) ==
    /\ wpc[w] = "get"
    /\ ts[w]
    /\ Call(w)
    /\ WGoto(w, "got")
    /\ UNCHANGED <<controllerVars, done, caller, signal, argVars>>

\* The worker's code is set, the token follows, then the thread is gone.
Die(w) ==
    /\ code' = [code EXCEPT ![w] = Error]
    /\ WGoto(w, "dying")

GetFails(w) ==
    /\ "get" \in Faults
    /\ wpc[w] = "get"
    /\ ts[w]
    /\ Call(w)
    /\ Die(w)
    /\ UNCHANGED <<controllerVars, done, caller, signal, index, ts>>

\* arg->ts is read a second time: the controller has cleared it in between.
GetNothing(w) ==
    /\ wpc[w] = "get"
    /\ ~ts[w]
    /\ Die(w)
    /\ UNCHANGED <<controllerVars, done, caller, signal, index, ts, calls>>

\* The code says idle before the token does.
Finish(w) ==
    /\ wpc[w] = "got"
    /\ code' = [code EXCEPT ![w] = Idle]
    /\ WGoto(w, "post")
    /\ UNCHANGED <<controllerVars, done, caller, signal, index, ts, calls>>

Post(w) ==
    /\ wpc[w] \in {"post", "dying"}
    /\ done' = done + 1
    /\ WGoto(w, IF wpc[w] = "post" THEN "wait" ELSE "exited")
    /\ UNCHANGED <<controllerVars, caller, signal, argVars, calls>>

-----------------------------------------------------------------------------

Controller ==
    \/ Setup \/ SetupFails \/ Create \/ CreateFails
    \/ WaitDone \/ Dispatch \/ ScanBusy \/ ScanError
    \/ Drain \/ Drained \/ Kill \/ Join

Worker(w) ==
    \/ Wake(w) \/ Exit(w) \/ Proceed(w)
    \/ GetTrace(w) \/ GetFails(w) \/ GetNothing(w)
    \/ Finish(w) \/ Post(w)

Terminated == caller = "returned" /\ UNCHANGED vars

Next ==
    \/ Controller
    \/ \E w \in Workers : Worker(w)
    \/ Return
    \/ Terminated

Spec == Init /\ [][Next]_vars

\* Every thread runs when it is not blocked, and every trace_get returns.
Fairness ==
    /\ WF_vars(Controller)
    /\ \A w \in Workers : WF_vars(Worker(w))
    /\ WF_vars(Return)

FairSpec == Spec /\ Fairness

-----------------------------------------------------------------------------
(* Properties *)

TypeOK ==
    /\ ctl \in {"setup", "create", "wait", "scan", "drain", "kill", "join", "finished"}
    /\ next \in 0 .. NTraces
    /\ i \in 0 .. NThreads
    /\ ctl \in {"setup", "create", "scan", "kill", "join"} => i \in Workers
    /\ ctl = "scan" => next < NTraces
    /\ done \in Nat
    /\ ret \in {0, Error}
    /\ caller \in {"waiting", "returned"}
    /\ wpc \in [Workers -> {"absent", "wait", "woken", "get", "got",
                            "post", "dying", "exited"}]
    /\ signal \in [Workers -> Nat]
    /\ index \in [Workers -> Indices \union {0}]
    /\ code \in [Workers -> {Idle, Busy, Error}]
    /\ ts \in [Workers -> BOOLEAN]
    /\ calls \in [Indices -> Nat]

\* The workers that are about to post a token, and those the controller does not
\* take for busy.
Posting == {w \in Workers : wpc[w] \in {"post", "dying"}}
NotBusy == {w \in Workers : code[w] # Busy}

Running == ctl \in {"wait", "scan", "drain"}

InHand == IF ctl = "scan" THEN 1 ELSE IF ctl = "drain" THEN i ELSE 0

\* The tokens of done_signal, those the controller has in hand and those the
\* workers are about to post are exactly the workers that are not busy, although
\* a worker is handed the next index before it has posted its last token.
TokenAccounting ==
    Running => done + InHand + Cardinality(Posting) = Cardinality(NotBusy)

\* A token is never lost: the scan it pays for meets a worker that is idle or dead
\* at or after the position it has reached.
ScanFindsWorker ==
    ctl = "scan" => \E w \in i .. NThreads - 1 : w \in NotBusy

\* No index is rendered twice, and a render that returns 0 has tried all of them.
RendersEachOnce ==
    /\ \A k \in Indices : calls[k] <= 1
    /\ ctl = "finished" /\ ret = 0 => \A k \in Indices : calls[k] = 1

\* Nobody uses the semaphores and the arguments after they are destroyed: all
\* workers have ended, whichever way the controller came to its end.
WorkersGone ==
    ctl = "finished" => \A w \in Workers : wpc[w] \in {"exited", "absent"}

\* Before the first index is handed out nobody was woken.
Quiet ==
    /\ ctl = "setup" => wpc = [w \in Workers |-> "absent"]
    /\ ctl \in {"setup", "create"} =>
          next = 0 /\ \A w \in Workers : signal[w] = 0 /\ wpc[w] \in {"absent", "wait"}
    /\ ctl = "create" =>
          /\ done = InitialTokens
          /\ \A w \in Workers : code[w] = Idle /\ ts[w]

\* Until it is told to exit, a worker that was woken, or is about to be, has an
\* index, and was woken for it once.
Handed ==
    /\ Running => \A w \in Workers : ts[w]
    /\ \A w \in Workers : ts[w] =>
          /\ wpc[w] \in {"woken", "get", "got"} => code[w] = Busy /\ signal[w] = 0
          /\ code[w] # Busy => signal[w] = 0
          /\ signal[w] <= 1

\* An index was handed to the worker, which has not called trace_get for it yet.
HasIndex(w) == ts[w] /\ (signal[w] > 0 \/ wpc[w] \in {"woken", "get"})

\* Each index that was handed out and not yet asked for is with one worker, until
\* a render that has succeeded has asked for all of them.
IndicesExact ==
    /\ \A k \in Indices : calls[k] <= 1 /\ (k >= next => calls[k] = 0)
    /\ \A w \in Workers : HasIndex(w) =>
          index[w] \in Indices /\ index[w] < next /\ calls[index[w]] = 0
    /\ \A v, w \in Workers : HasIndex(v) /\ HasIndex(w) /\ index[v] = index[w] => v = w
    /\ Running => \A k \in Indices : k < next /\ calls[k] = 0 =>
          \E w \in Workers : HasIndex(w) /\ index[w] = k
    /\ ctl = "drain" => next = NTraces
    /\ ctl \in {"kill", "join", "finished"} /\ ret = 0 => \A k \in Indices : calls[k] = 1

\* The workers before the one that is being stopped have ended.
Stopped ==
    /\ ctl \in {"kill", "join"} => \A w \in Workers : w < i => Ended(w)
    /\ ctl = "finished" => \A w \in Workers : Ended(w)

\* The inductive invariant of the proofs.
IndInv ==
    /\ TypeOK
    /\ Quiet
    /\ Handed
    /\ Stopped
    /\ IndicesExact
    /\ TokenAccounting
    /\ ScanFindsWorker

\* A worker whose thread was not created: the indices handed to it are lost.
MissingThread == ctl \in {"wait", "drain"} /\ \E w \in Workers : wpc[w] = "absent"

\* The render ends, also when workers die on the way, unless a thread is missing.
RenderReturns == <>(caller = "returned" \/ MissingThread)

=============================================================================
