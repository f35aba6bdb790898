------------------------------- MODULE JobRunner -------------------------------
(***************************************************************************)
(* The window that runs the queued jobs (ADM_jobControl.cpp,               *)
(* ADM_runOneJob.cpp), the table of jobs (ADM_coreJobs.cpp), and the       *)
(* slaves: a new avidemux for each job, which connects to the window's     *)
(* socket, loads the script, saves, and reports the result (ADM_slave.cpp, *)
(* ADM_coreSocket.cpp, ADM_coreCommandSocket.cpp).                         *)
(*                                                                         *)
(* The editor queues jobs into the same table at any time, and a second    *)
(* job window may delete some.  A slave says hello but not whose it is, so *)
(* the first that connects is taken for the one just started; one that     *)
(* needs more than the six seconds stays in the socket's backlog.          *)
(*                                                                         *)
(* The window's own buttons are not pressed while jobs are run: a dialog   *)
(* shows the progress.  Times, names and progress messages are left out.   *)
(***************************************************************************)
EXTENDS Integers, Sequences, FiniteSets

CONSTANTS
    FirstJobs,  \* how many jobs may be queued when the window is opened
    MaxQueued,  \* bound on the jobs ever queued
    MaxRuns,    \* bound on the runs
    MaxDeleted, \* bound on the jobs another window deletes
    Backlog     \* listen()

ASSUME FirstJobsAssumption == FirstJobs \subseteq Nat

VARIABLES
    rows,      \* the table: id and status of each job
    made,      \* the last id: they are not used again
    list,      \* listOfJob: the table when it was last read
    room,      \* the capacity of that vector
    run,       \* at: what runOneJob() does next; i: the index of its job; all: the
               \* size of the list if all are run, else 0; sock: the slave; ok: r;
               \* job: auxiliary, the job it has been called for
    slaves,    \* per run: job, state, late: has the window stopped waiting?
    backlog,   \* the slaves that have connected and are not accepted
    wild,      \* a job has been used that is no longer in the vector
    queued, deleted, \* how many jobs were queued, and deleted by another window
    record,    \* auxiliary: the last result
    due        \* auxiliary: the jobs that were ready when all had to be run

vars == <<rows, made, list, room, run, slaves, backlog, wild, queued, deleted, record, due>>

-----------------------------------------------------------------------------
(* The table of jobs.                                                      *)
Known(id) == \E k \in DOMAIN rows : rows[k].id = id

(* jobUpdate(): a job that is not in the table is inserted, as a new one.  *)
Updated(id, status) ==
    IF Known(id)
    THEN /\ rows' = [k \in DOMAIN rows |-> IF rows[k].id = id THEN [rows[k] EXCEPT !.status = status]
                                           ELSE rows[k]]
         /\ made' = made
    ELSE /\ rows' = Append(rows, [id |-> made + 1, status |-> status])
         /\ made' = made + 1

(* jobDelete(): the other rows stay, in their order.                       *)
Removed(ids) ==
    LET stay  == {k \in DOMAIN rows : rows[k].id \notin ids}
        place == 1 .. Cardinality(stay)
    IN  \E from \in [place -> stay] :
            /\ \A j, k \in place : j < k => from[j] < from[k]
            /\ rows' = [k \in place |-> rows[from[k]]]

(* refreshList(): the vector is cleared and filled again; when it has to   *)
(* grow, all that was in it moves.                                         *)
Grown(n) == CHOOSE c \in {0} \cup {2 ^ k : k \in 0 .. n} :
                c >= n /\ \A d \in {0} \cup {2 ^ k : k \in 0 .. n} : d >= n => c <= d

Refreshed ==
    /\ list' = rows'
    /\ room' = IF Len(rows') > room THEN Grown(Len(rows')) ELSE room

-----------------------------------------------------------------------------
(* The buttons and menus of the window.                                    *)
NotRunning == [at |-> "idle", i |-> 0, all |-> 0, sock |-> 0, ok |-> FALSE, job |-> 0]

Idle == run.at = "idle" /\ ~wild

Del(i) ==
    /\ Idle
    /\ Removed({list[i].id})
    /\ Refreshed
    /\ UNCHANGED <<made, run, slaves, backlog, wild, queued, deleted, record, due>>

(* setReady() and setOk().                                                 *)
SetStatus(i, status) ==
    /\ Idle
    /\ Updated(list[i].id, status)
    /\ Refreshed
    /\ due' = due \ {list[i].id}
    /\ UNCHANGED <<run, slaves, backlog, wild, queued, deleted, record>>

(* cleanup().                                                              *)
Cleanup ==
    LET done == {list[k].id : k \in {j \in DOMAIN list : list[j].status = "ok"}}
    IN  /\ Idle
        /\ done # {}
        /\ Removed(done)
        /\ Refreshed
        /\ UNCHANGED <<made, run, slaves, backlog, wild, queued, deleted, record, due>>

MayRun(n) == Len(slaves) + n <= MaxRuns

RunNow(i) ==
    /\ Idle
    /\ MayRun(1)
    /\ run' = [NotRunning EXCEPT !.at = "begin", !.i = i, !.job = list[i].id]
    /\ due' = {}
    /\ UNCHANGED <<rows, made, list, room, slaves, backlog, wild, queued, deleted, record>>

(* Mutant: the first failure ends it.                                      *)
NextReadyWhileOk(l, i, n) ==
    {j \in (i + 1) .. n :
        /\ i > 0 => run.ok
        /\ j > Len(l) \/ l[j].status = "ready"
        /\ \A k \in (i + 1) .. (j - 1) : ~(k > Len(l) \/ l[k].status = "ready")}

(* The loop of runAllJob(): up to the size that the list had.              *)
NextReady(l, i, n) ==
    {j \in (i + 1) .. n :
        /\ j > Len(l) \/ l[j].status = "ready"
        /\ \A k \in (i + 1) .. (j - 1) : ~(k > Len(l) \/ l[k].status = "ready")}

RunAllJob ==
    /\ Idle
    /\ MayRun(Len(list))
    /\ \E j \in NextReady(list, 0, Len(list)) :
          run' = [NotRunning EXCEPT !.at = "begin", !.i = j, !.all = Len(list), !.job = list[j].id]
    /\ due' = {list[k].id : k \in {j \in DOMAIN list : list[j].status = "ready"}}
    /\ UNCHANGED <<rows, made, list, room, slaves, backlog, wild, queued, deleted, record>>

-----------------------------------------------------------------------------
(* runOneJob().                                                            *)
Begin ==
    /\ run.at = "begin"
    /\ ~wild
    /\ list' = [list EXCEPT ![run.i].status = "running"]
    /\ Updated(list[run.i].id, "running")
    /\ run' = [run EXCEPT !.at = "spawn"]
    /\ UNCHANGED <<room, slaves, backlog, wild, queued, deleted, record, due>>

(* The list is read again, and what is now at the place of the job is      *)
(* given to the slave.                                                     *)
Spawn ==
    /\ run.at = "spawn"
    /\ ~wild
    /\ UNCHANGED <<rows, made>>
    /\ Refreshed
    /\ IF Len(rows) > room \/ run.i > Len(rows)
       THEN wild' = TRUE /\ UNCHANGED <<run, slaves>>
       ELSE /\ slaves' = Append(slaves, [job |-> list'[run.i].id, state |-> "starting", late |-> FALSE])
            /\ run' = [run EXCEPT !.at = "wait"]
            /\ UNCHANGED wild
    /\ UNCHANGED <<backlog, queued, deleted, record, due>>

(* waitForConnect() and handshake(): the first in the backlog.             *)
Accept ==
    /\ run.at = "wait"
    /\ backlog # <<>>
    /\ run' = [run EXCEPT !.at = "poll", !.sock = Head(backlog)]
    /\ backlog' = Tail(backlog)
    /\ slaves' = [slaves EXCEPT ![Head(backlog)].state = IF @ = "connected" THEN "working" ELSE @]
    /\ UNCHANGED <<rows, made, list, room, wild, queued, deleted, record, due>>

NoConnect ==
    /\ run.at = "wait"
    /\ backlog = <<>>
    /\ run' = [run EXCEPT !.at = "done"]
    /\ slaves' = [slaves EXCEPT ![Len(slaves)].late = TRUE]
    /\ UNCHANGED <<rows, made, list, room, backlog, wild, queued, deleted, record, due>>

(* Mutant: the loop ends when nothing has come for a second.               *)
EndsEarly(state) == TRUE

(* Mutant: only a result ends the loop.                                    *)
EndsWithResult(state) == state \in {"saved", "failed"}

(* The loop ends with the result, or when the connection is found closed.  *)
Ends(state) == state \in {"saved", "failed", "dead"}

(* Mutant: r is true until a result has come.                              *)
ResultUnlessFailed(state) == state # "failed"

Result(state) == state = "saved"

Poll ==
    /\ run.at = "poll"
    /\ Ends(slaves[run.sock].state)
    /\ run' = [run EXCEPT !.at = "done", !.ok = Result(slaves[run.sock].state)]
    /\ UNCHANGED <<rows, made, list, room, slaves, backlog, wild, queued, deleted, record, due>>

(* Mutant: only a success is noted.                                        *)
StatusIfOk(ok) == IF ok THEN "ok" ELSE list[run.i].status

StatusOf(ok) == IF ok THEN "ok" ELSE "ko"

(* The result becomes the status of what is at the job's place.            *)
Finish ==
    LET status == StatusOf(run.ok)
    IN  /\ run.at = "done"
        /\ list' = [list EXCEPT ![run.i].status = status]
        /\ Updated(list[run.i].id, status)
        /\ run' = [run EXCEPT !.at = "next"]
        /\ record' = [job |-> run.job, written |-> list[run.i].id, run |-> Len(slaves), ok |-> run.ok]
        /\ UNCHANGED <<room, slaves, backlog, wild, queued, deleted, due>>

(* ... and the next job, when all are run.                                 *)
NextJob ==
    /\ run.at = "next"
    /\ ~wild
    /\ UNCHANGED <<rows, made>>
    /\ Refreshed
    /\ LET next == NextReady(list', run.i, run.all)
       IN  \/ /\ next = {}
              /\ run' = NotRunning
              /\ UNCHANGED wild
           \/ \E j \in next :
                 IF j > Len(list') THEN wild' = TRUE /\ UNCHANGED run
                 ELSE /\ run' = [NotRunning EXCEPT !.at = "begin", !.i = j, !.all = run.all, !.job = list'[j].id]
                      /\ UNCHANGED wild
    /\ UNCHANGED <<slaves, backlog, queued, deleted, record, due>>

RunOneJob == Begin \/ Spawn \/ Accept \/ NoConnect \/ Poll \/ Finish \/ NextJob

-----------------------------------------------------------------------------
(* A slave: ADM_slaveConnect(), A_Save(), ADM_slaveSendResult().           *)
Becomes(s, from, to) ==
    /\ slaves[s].state = from
    /\ slaves' = [slaves EXCEPT ![s].state = to]
    /\ UNCHANGED <<rows, made, list, room, run, wild, queued, deleted, record, due>>

Connect(s) ==
    /\ Becomes(s, "starting", "connected")
    /\ Len(backlog) <= Backlog
    /\ backlog' = Append(backlog, s)

Report(s, state) == Becomes(s, "working", state) /\ UNCHANGED backlog

(* It crashes, or is killed; before it has connected nobody notices.       *)
Die(s) ==
    /\ \/ Becomes(s, "starting", "gone")
       \/ Becomes(s, "connected", "dead")
       \/ Becomes(s, "working", "dead")
    /\ UNCHANGED backlog

-----------------------------------------------------------------------------
(* Other processes: A_queueJob() in the editor, another job window.        *)
QueueJob ==
    /\ queued < MaxQueued
    /\ queued' = queued + 1
    /\ rows' = Append(rows, [id |-> made + 1, status |-> "ready"])
    /\ made' = made + 1
    /\ UNCHANGED <<list, room, run, slaves, backlog, wild, deleted, record, due>>

DeletedElsewhere(k) ==
    /\ deleted < MaxDeleted
    /\ deleted' = deleted + 1
    /\ Removed({rows[k].id})
    /\ UNCHANGED <<made, list, room, run, slaves, backlog, wild, queued, record, due>>

-----------------------------------------------------------------------------
Init ==
    /\ queued \in FirstJobs
    /\ rows = [k \in 1 .. queued |-> [id |-> k, status |-> "ready"]]
    /\ made = queued
    /\ list = rows
    /\ room = Grown(queued)
    /\ run = NotRunning
    /\ slaves = <<>>
    /\ backlog = <<>>
    /\ wild = FALSE
    /\ deleted = 0
    /\ record = [job |-> 0, written |-> 0, run |-> 0, ok |-> FALSE]
    /\ due = {}

Next ==
    \/ \E i \in DOMAIN list : Del(i) \/ SetStatus(i, "ready") \/ SetStatus(i, "ok") \/ RunNow(i)
    \/ Cleanup \/ RunAllJob \/ RunOneJob
    \/ \E s \in DOMAIN slaves : Connect(s) \/ Report(s, "saved") \/ Report(s, "failed") \/ Die(s)
    \/ QueueJob
    \/ \E k \in DOMAIN rows : DeletedElsewhere(k)

(* The window goes on, and a slave that works ends, or dies.               *)
Fairness ==
    /\ WF_vars(RunOneJob)
    /\ \A s \in 1 .. MaxRuns :
          WF_vars(s \in DOMAIN slaves /\ (Report(s, "saved") \/ Report(s, "failed") \/ Die(s)))

Spec == Init /\ [][Next]_vars /\ Fairness

-----------------------------------------------------------------------------
Statuses    == {"ready", "running", "ok", "ko"}
Job         == [id : Nat, status : Statuses]
SlaveStates == {"starting", "connected", "working", "saved", "failed", "dead", "gone"}
Slave       == [job : Nat, state : SlaveStates, late : BOOLEAN]
Steps       == {"idle", "begin", "spawn", "wait", "poll", "done", "next"}
Run         == [at : Steps, i : Nat, all : Nat, sock : Nat, ok : BOOLEAN, job : Nat]

(* All but room, which is only compared.                                   *)
TypeOK ==
    /\ rows \in Seq(Job)
    /\ made \in Nat
    /\ list \in Seq(Job)
    /\ run \in Run
    /\ slaves \in Seq(Slave)
    /\ backlog \in Seq(Nat)
    /\ wild \in BOOLEAN
    /\ queued \in Nat
    /\ deleted \in Nat
    /\ record \in [job : Nat, written : Nat, run : Nat, ok : BOOLEAN]
    /\ due \in SUBSET Nat

(* No slave the window has stopped waiting for may still connect, or has.  *)
Undisturbed == deleted = 0 /\ \A s \in DOMAIN slaves : slaves[s].late => slaves[s].state = "gone"

(* The status a run leaves is that of the job it was called for, and says  *)
(* what this job's own slave has done - unless a slave has come too late,  *)
(* or a job was deleted elsewhere.                                         *)
ResultGoesHome ==
    record.run > 0 /\ Undisturbed =>
        /\ record.written = record.job /\ slaves[record.run].job = record.job
        /\ record.ok = (slaves[record.run].state = "saved")

(* Even the slaves that come too late work one after the other: the one    *)
(* that is accepted in place of another keeps that one waiting.            *)
OneAtATime == \A s, t \in DOMAIN slaves : slaves[s].state = "working" /\ slaves[t].state = "working" => s = t

(* The table says "running" of the job that is being run, and of no other: *)
(* none is left behind by a run that failed.                               *)
RunningIsRun ==
    deleted = 0 =>
        \A k \in DOMAIN rows :
            rows[k].status = "running" <=>
                rows[k].id = run.job /\ run.at \in {"spawn", "wait", "poll", "done"}

(* When all jobs have been run, each that was ready has a result - unless  *)
(* the list has got shorter in the meantime.                               *)
AllWereRun ==
    run.at = "idle" /\ deleted = 0 =>
        \A k \in DOMAIN rows : rows[k].id \in due => rows[k].status \in {"ok", "ko"}

(* Every run ends.                                                         *)
RunEnds == run.at # "idle" ~> run.at = "idle" \/ wild
=============================================================================
