------------------------------ MODULE ThreadQueue ------------------------------
(***************************************************************************)
(* ADM_threadQueue: a worker thread that fills a queue for the thread that *)
(* owns the object (the "main" thread of the object: the one that pulls    *)
(* frames or packets, and later runs the destructor).  This module holds   *)
(* what the base class holds: the life of the thread, the stop protocol,   *)
(* the condition variable.  VideoFilterQueue and AudioAccessThread extend  *)
(* it with the two classes that derive from ADM_threadQueue.               *)
(*                                                                         *)
(* main and worker are the program counters of the two threads.  Every     *)
(* critical section but one is a single action.  The exception is the      *)
(* test-then-set of threadState in stopThread(): run() writes threadState  *)
(* without the mutex, so that write can fall between the two, and "stopSet"*)
(* is the place where main holds the mutex across actions.                 *)
(***************************************************************************)
EXTENDS Integers, Sequences

CONSTANTS
    NumBuffers,  \* buffers allocated by the derived constructor
    NumItems,    \* frames or packets the source can deliver (bound)
    ClockDown    \* polls stopThread() makes before it gives up (10 in the code)

ASSUME NumBuffersAssumption == NumBuffers \in Nat \ {0}
ASSUME NumItemsAssumption   == NumItems \in Nat
ASSUME ClockDownAssumption  == ClockDown \in Nat

VARIABLES
    main,         \* where the owner of the object is
    worker,       \* where the worker thread is
    threadState,  \* RunState
    started,      \* set by startThread()
    clock         \* clockDown of stopThread()

queueVars  == <<main, worker, threadState, started, clock>>
ownerVars  == <<main, threadState, started, clock>>    \* all but worker
workerVars == <<worker, threadState, started, clock>>  \* all but main

Buffers  == 1 .. NumBuffers
NoBuffer == 0

MainPlaces   == {"idle", "starting", "get", "stop", "stopSet", "poll",
                 "baseDtor", "join", "gone"}
WorkerPlaces == {"none", "begin", "check", "take", "blocked", "woken",
                 "finish", "exited"}
RunStates    == {"Idle", "Running", "StopOrder", "Stopped"}

(* Only stopThread() keeps the mutex from one action to the next.          *)
MutexFree == main # "stopSet"

(* admCond::iswaiting(): set before pthread_cond_wait, cleared only when   *)
(* the waiter has the mutex again, so still true of a signalled waiter.    *)
IsWaiting == worker \in {"blocked", "woken"}

(* Mutant: the waiter is never signalled.                                  *)
NotSignalled == worker

(* if(cond->iswaiting()) cond->wakeup(), the only way the code signals; a  *)
(* signal nobody is blocked on has no effect.                              *)
Signalled == IF IsWaiting /\ worker = "blocked" THEN "woken" ELSE worker

QueueInit ==
    /\ main = "idle"
    /\ worker = "none"
    /\ threadState = "Idle"
    /\ started = FALSE
    /\ clock = 0

-----------------------------------------------------------------------------
(* The owner asks for an item.  The first call creates the thread and      *)
(* spins until run() has left RunStateIdle.                                *)
CallGet ==
    /\ main = "idle"
    /\ main' = IF started THEN "get" ELSE "starting"
    /\ worker' = IF started THEN worker ELSE "begin"
    /\ UNCHANGED <<threadState, started, clock>>

StartDone ==
    /\ main = "starting"
    /\ threadState # "Idle"
    /\ started' = TRUE
    /\ main' = "get"
    /\ UNCHANGED <<worker, threadState, clock>>

(* run(): Running, then runAction(), then Stopped; no mutex is taken.      *)
RunEnter ==
    /\ worker = "begin"
    /\ threadState' = "Running"
    /\ worker' = "check"
    /\ UNCHANGED <<main, started, clock>>

RunExit ==
    /\ worker = "finish"
    /\ threadState' = "Stopped"
    /\ worker' = "exited"
    /\ UNCHANGED <<main, started, clock>>

(* The head of the loop of runAction(): the stop order is looked at        *)
(* without the mutex.                                                      *)
CheckStop ==
    /\ worker = "check"
    /\ worker' = IF threadState = "StopOrder" THEN "finish" ELSE "take"
    /\ UNCHANGED ownerVars

(* The waiter gets the mutex back, clears `waiting', releases the mutex    *)
(* and goes back to the head of the loop.                                  *)
WaitReturns ==
    /\ worker = "woken"
    /\ MutexFree
    /\ worker' = "check"
    /\ UNCHANGED ownerVars

(* pthread_cond_wait may return with no signal sent.                       *)
SpuriousWakeup ==
    /\ worker = "blocked"
    /\ worker' = "woken"
    /\ UNCHANGED ownerVars

-----------------------------------------------------------------------------
(* stopThread(), called first thing by the derived destructor.             *)
BeginDestroy ==
    /\ main = "idle"
    /\ main' = "stop"
    /\ UNCHANGED workerVars

StopTest(after) ==
    /\ main = "stop"
    /\ main' = IF threadState = "Running" THEN "stopSet" ELSE after
    /\ UNCHANGED workerVars

StopSet ==
    /\ main = "stopSet"
    /\ threadState' = "StopOrder"
    /\ worker' = Signalled
    /\ clock' = ClockDown
    /\ main' = "poll"
    /\ UNCHANGED started

StopPoll ==
    /\ main = "poll"
    /\ threadState # "Stopped"
    /\ clock > 0
    /\ clock' = clock - 1
    /\ UNCHANGED <<main, worker, threadState, started>>

(* Mutant: stopThread() does not wait for the thread.                      *)
StopReturnsAtOnce(after) ==
    /\ main = "poll"
    /\ main' = after
    /\ UNCHANGED workerVars

(* The loop ends because the thread has stopped or because the clock has   *)
(* run down; the code does not tell the two apart.                         *)
StopReturns(after) ==
    /\ main = "poll"
    /\ threadState = "Stopped" \/ clock = 0
    /\ main' = after
    /\ UNCHANGED workerVars

(* Mutant: ~ADM_threadQueue() does not join the thread.                    *)
BaseDtorNoJoin ==
    /\ main = "baseDtor"
    /\ main' = "gone"
    /\ UNCHANGED workerVars

(* ~ADM_threadQueue(), run after the derived destructor.  It polls for     *)
(* Stopped only in the branch that found Running, and then joins; both     *)
(* waits end when the thread has exited, so they are one place, "join".    *)
BaseDtor ==
    /\ main = "baseDtor"
    /\ main' = IF started THEN "join" ELSE "gone"
    /\ threadState' = IF started /\ threadState = "Running"
                      THEN "StopOrder" ELSE threadState
    /\ worker' = IF started /\ threadState = "Running" THEN Signalled ELSE worker
    /\ UNCHANGED <<started, clock>>

Join ==
    /\ main = "join"
    /\ worker = "exited"
    /\ main' = "gone"
    /\ UNCHANGED workerVars

-----------------------------------------------------------------------------
(* Steps of the base class taken by the worker, and by the owner once it   *)
(* is inside a call.  `after' is where the derived destructor goes on.     *)
WorkerBaseStep == RunEnter \/ RunExit \/ CheckStop \/ WaitReturns

MainBaseStep(after) ==
    \/ StartDone
    \/ StopTest(after)
    \/ StopSet
    \/ StopPoll
    \/ StopReturns(after)
    \/ BaseDtor
    \/ Join

=============================================================================
