--------------------------- MODULE JobRunner_proofs ---------------------------
(***************************************************************************)
(* Proofs about JobRunner, for every number of jobs, runs and deletions    *)
(* and every length of the backlog.                                        *)
(***************************************************************************)
EXTENDS JobRunner, BasicFacts, FiniteSetTheorems

Last == Len(slaves)

-----------------------------------------------------------------------------
(* What the variables are made of.                                         *)
LEMMA Parts ==
    ASSUME TypeOK
    PROVE  /\ Len(rows) \in Nat /\ DOMAIN rows = 1 .. Len(rows)
           /\ \A k \in DOMAIN rows : rows[k] \in Job /\ rows[k].id \in Nat /\ rows[k].status \in Statuses
           /\ Len(list) \in Nat /\ DOMAIN list = 1 .. Len(list)
           /\ \A k \in DOMAIN list : list[k] \in Job /\ list[k].id \in Nat /\ list[k].status \in Statuses
           /\ Last \in Nat /\ DOMAIN slaves = 1 .. Last
           /\ \A s \in DOMAIN slaves :
                 /\ slaves[s] \in Slave /\ slaves[s].state \in SlaveStates
                 /\ slaves[s].late \in BOOLEAN /\ slaves[s].job \in Nat
<1>1. rows \in Seq(Job) /\ list \in Seq(Job) /\ slaves \in Seq(Slave)
  BY DEF TypeOK
<1>2. \A j \in Job : j.id \in Nat /\ j.status \in Statuses
  BY DEF Job
<1>3. \A s \in Slave : s.state \in SlaveStates /\ s.late \in BOOLEAN /\ s.job \in Nat
  BY DEF Slave
<1>4. /\ \A k \in 1 .. Len(rows) : rows[k] \in Job
      /\ \A k \in 1 .. Len(list) : list[k] \in Job
      /\ \A s \in 1 .. Len(slaves) : slaves[s] \in Slave
  BY <1>1, ElementOfSeq
<1>5. /\ DOMAIN rows = 1 .. Len(rows) /\ DOMAIN list = 1 .. Len(list)
      /\ DOMAIN slaves = 1 .. Len(slaves)
      /\ Len(rows) \in Nat /\ Len(list) \in Nat /\ Len(slaves) \in Nat
  BY <1>1, LenProperties
<1> QED
  BY <1>2, <1>3, <1>4, <1>5 DEF Last

LEMMA RunParts ==
    ASSUME TypeOK
    PROVE  /\ run.at \in Steps /\ run.i \in Nat /\ run.all \in Nat /\ run.sock \in Nat
           /\ run.ok \in BOOLEAN /\ run.job \in Nat
           /\ record.job \in Nat /\ record.written \in Nat /\ record.run \in Nat
           /\ record.ok \in BOOLEAN
BY DEF TypeOK, Run

(* jobDelete(): what is left was in the table before, each row once.       *)
LEMMA RowsStay ==
    ASSUME TypeOK, NEW ids, Removed(ids)
    PROVE  /\ rows' \in Seq(Job) /\ DOMAIN rows' = 1 .. Len(rows')
           /\ \E from \in [DOMAIN rows' -> DOMAIN rows] :
                 /\ \A k \in DOMAIN rows' : rows'[k] = rows[from[k]]
                 /\ \A j, k \in DOMAIN rows' : from[j] = from[k] => j = k
<1> DEFINE stay  == {k \in DOMAIN rows : rows[k].id \notin ids}
           place == 1 .. Cardinality(stay)
<1>1. PICK from \in [place -> stay] :
         /\ \A j, k \in place : j < k => from[j] < from[k]
         /\ rows' = [k \in place |-> rows[from[k]]]
  BY DEF Removed
<1>2. IsFiniteSet(DOMAIN rows)
  BY Parts, FS_Interval
<1>3. Cardinality(stay) \in Nat
  BY <1>2, FS_Subset, FS_CardinalityType
<1>4. DOMAIN rows' = place /\ \A k \in place : rows'[k] = rows[from[k]]
  BY <1>1
<1>5. \A k \in place : from[k] \in DOMAIN rows
  BY <1>1
<1>6. \A k \in place : rows'[k] \in Job
  BY <1>4, <1>5, Parts
<1>7. from \in [place -> DOMAIN rows]
  BY <1>1, <1>5
<1>8. \A j, k \in place : from[j] = from[k] => j = k
  <2> SUFFICES ASSUME NEW j \in place, NEW k \in place, from[j] = from[k]
               PROVE  j = k
    OBVIOUS
  <2>1. j \in Nat /\ k \in Nat /\ from[j] \in Nat /\ from[k] \in Nat
    BY <1>3, <1>5, Parts
  <2>2. ~(j < k) /\ ~(k < j)
    BY <1>1, <2>1
  <2> QED
    BY <2>1, <2>2
<1>9. rows' = [k \in 1 .. Cardinality(stay) |-> rows'[k]]
  BY <1>1, <1>4
<1> HIDE DEF stay
<1>10. rows' \in Seq(Job)
  BY <1>3, <1>6, <1>9, IsASeq
<1>11. DOMAIN rows' = 1 .. Len(rows')
  BY <1>10, LenProperties
<1> QED
  BY <1>4, <1>7, <1>8, <1>10, <1>11

(* jobUpdate() of a job in the table.                                      *)
LEMMA RowUpdated ==
    ASSUME TypeOK, NEW id \in Nat, NEW status \in Statuses, Updated(id, status)
    PROVE  /\ rows' \in Seq(Job) /\ made' \in Nat
           /\ Known(id) =>
                 /\ made' = made /\ Len(rows') = Len(rows) /\ DOMAIN rows' = DOMAIN rows
                 /\ \A k \in DOMAIN rows :
                       /\ rows'[k].id = rows[k].id
                       /\ rows[k].id = id => rows'[k].status = status
                       /\ rows[k].id # id => rows'[k] = rows[k]
<1> DEFINE new(k) == IF rows[k].id = id THEN [rows[k] EXCEPT !.status = status] ELSE rows[k]
<1>1. \A k \in DOMAIN rows : /\ new(k) \in Job /\ new(k).id = rows[k].id
                             /\ rows[k].id = id => new(k).status = status
                             /\ rows[k].id # id => new(k) = rows[k]
  BY Parts DEF Job
<1>2. CASE Known(id)
  <2>1. rows' = [k \in DOMAIN rows |-> new(k)] /\ made' = made
    BY <1>2 DEF Updated
  <2> HIDE DEF new
  <2>2. DOMAIN rows' = DOMAIN rows /\ \A k \in DOMAIN rows : rows'[k] = new(k)
    BY <2>1
  <2>3. rows' \in Seq(Job)
    BY <1>1, <2>1, Parts, IsASeq
  <2>4. Len(rows') = Len(rows)
    BY <2>2, <2>3, LenProperties, Parts
  <2> QED
    BY <1>1, <2>1, <2>2, <2>3, <2>4 DEF TypeOK
<1>3. CASE ~Known(id)
  <2>1. rows' = Append(rows, [id |-> made + 1, status |-> status]) /\ made' = made + 1
    BY <1>3 DEF Updated
  <2>2. [id |-> made + 1, status |-> status] \in Job /\ made' \in Nat
    BY <2>1 DEF Job, TypeOK
  <2> QED
    BY <1>3, <2>1, <2>2, OneAppended DEF TypeOK
<1> QED
  BY <1>2, <1>3

(* One slave's state is another.                                           *)
LEMMA SlaveChanged ==
    ASSUME TypeOK, NEW s \in DOMAIN slaves, NEW to \in SlaveStates,
           slaves' = [slaves EXCEPT ![s].state = to]
    PROVE  /\ slaves' \in Seq(Slave) /\ Last' = Last /\ DOMAIN slaves' = DOMAIN slaves
           /\ slaves'[s].state = to /\ slaves'[s].late = slaves[s].late
           /\ slaves'[s].job = slaves[s].job
           /\ \A t \in DOMAIN slaves : t # s => slaves'[t] = slaves[t]
<1> DEFINE new == [slaves[s] EXCEPT !.state = to]
<1>1. new \in Slave /\ new.state = to /\ new.late = slaves[s].late /\ new.job = slaves[s].job
  BY Parts DEF Slave
<1>2. slaves' = [slaves EXCEPT ![s] = new]
  OBVIOUS
<1> HIDE DEF new
<1>3. /\ slaves' \in Seq(Slave) /\ Len(slaves') = Len(slaves) /\ DOMAIN slaves' = DOMAIN slaves
      /\ slaves'[s] = new /\ \A t \in DOMAIN slaves : t # s => slaves'[t] = slaves[t]
  <2>1. slaves \in Seq(Slave)
    BY DEF TypeOK
  <2>2. /\ [slaves EXCEPT ![s] = new] \in Seq(Slave)
        /\ Len([slaves EXCEPT ![s] = new]) = Len(slaves)
        /\ DOMAIN [slaves EXCEPT ![s] = new] = DOMAIN slaves
        /\ [slaves EXCEPT ![s] = new][s] = new
        /\ \A t \in DOMAIN slaves : t # s => [slaves EXCEPT ![s] = new][t] = slaves[t]
    BY <1>1, <2>1, Replaced
  <2> QED
    BY <1>2, <2>2
<1> QED
  BY <1>1, <1>3 DEF Last

(* The status of one job in listOfJob is another.                          *)
LEMMA ListChanged ==
    ASSUME TypeOK, NEW i \in DOMAIN list, NEW status \in Statuses,
           list' = [list EXCEPT ![i].status = status]
    PROVE  /\ list' \in Seq(Job) /\ Len(list') = Len(list) /\ DOMAIN list' = DOMAIN list
           /\ list'[i].id = list[i].id /\ list'[i].status = status
           /\ \A k \in DOMAIN list : k # i => list'[k] = list[k]
<1> DEFINE new == [list[i] EXCEPT !.status = status]
<1>1. new \in Job /\ new.id = list[i].id /\ new.status = status
  BY Parts DEF Job
<1>2. list' = [list EXCEPT ![i] = new]
  OBVIOUS
<1> HIDE DEF new
<1>3. list \in Seq(Job)
  BY DEF TypeOK
<1>4. /\ [list EXCEPT ![i] = new] \in Seq(Job)
      /\ Len([list EXCEPT ![i] = new]) = Len(list)
      /\ DOMAIN [list EXCEPT ![i] = new] = DOMAIN list
      /\ [list EXCEPT ![i] = new][i] = new
      /\ \A k \in DOMAIN list : k # i => [list EXCEPT ![i] = new][k] = list[k]
  BY <1>1, <1>3, Replaced
<1> QED
  BY <1>1, <1>2, <1>4

(* The window goes from one step to another.                               *)
LEMMA RunChanged ==
    ASSUME TypeOK
    PROVE  \A a \in Steps :
              LET r == [run EXCEPT !.at = a]
              IN  r \in Run /\ r.at = a /\ r.i = run.i /\ r.all = run.all /\ r.sock = run.sock
                  /\ r.ok = run.ok /\ r.job = run.job
BY DEF TypeOK, Run

LEMMA NotRunningParts == NotRunning \in Run /\ NotRunning.at = "idle"
BY DEF NotRunning, Run, Steps

-----------------------------------------------------------------------------
(* The window uses a job only when there is one at its place, unless it    *)
(* has already gone past the end; the backlog holds slaves.                *)
AtWork ==
    /\ wild => run.at \in {"spawn", "next"}
    /\ run.at # "idle" /\ ~wild => run.i \in DOMAIN list
    /\ \A b \in DOMAIN backlog : backlog[b] \in DOMAIN slaves

Typed == TypeOK /\ AtWork

LEMMA BacklogParts ==
    ASSUME Typed
    PROVE  /\ backlog \in Seq(Nat) /\ DOMAIN backlog = 1 .. Len(backlog) /\ Len(backlog) \in Nat
           /\ backlog # <<>> =>
                 /\ Head(backlog) \in DOMAIN slaves /\ Head(backlog) = backlog[1]
                 /\ Tail(backlog) \in Seq(Nat)
                 /\ \A b \in DOMAIN Tail(backlog) : Tail(backlog)[b] \in DOMAIN slaves
<1>1. backlog \in Seq(Nat)
  BY DEF Typed, TypeOK
<1>2. DOMAIN backlog = 1 .. Len(backlog) /\ Len(backlog) \in Nat
  BY <1>1, LenProperties
<1>3. ASSUME backlog # <<>>
      PROVE  /\ Head(backlog) \in DOMAIN slaves /\ Head(backlog) = backlog[1]
             /\ Tail(backlog) \in Seq(Nat)
             /\ \A b \in DOMAIN Tail(backlog) : Tail(backlog)[b] \in DOMAIN slaves
  <2>1. /\ Head(backlog) = backlog[1] /\ Tail(backlog) \in Seq(Nat) /\ Len(backlog) > 0
        /\ DOMAIN Tail(backlog) = 1 .. (Len(backlog) - 1)
        /\ \A b \in 1 .. (Len(backlog) - 1) : Tail(backlog)[b] = backlog[b + 1]
    BY <1>1, <1>3, Popped
  <2>2. 1 \in DOMAIN backlog /\ \A b \in 1 .. (Len(backlog) - 1) : b + 1 \in DOMAIN backlog
    BY <1>2, <2>1
  <2> QED
    BY <2>1, <2>2 DEF Typed, AtWork
<1> QED
  BY <1>1, <1>2, <1>3

(* The record that Accept changes.                                         *)
LEMMA Accepted ==
    ASSUME Typed, Accept
    PROVE  /\ Head(backlog) \in DOMAIN slaves /\ slaves' \in Seq(Slave)
           /\ Last' = Last /\ DOMAIN slaves' = DOMAIN slaves
           /\ slaves'[Head(backlog)].late = slaves[Head(backlog)].late
           /\ slaves'[Head(backlog)].job = slaves[Head(backlog)].job
           /\ slaves[Head(backlog)].state = "connected" => slaves'[Head(backlog)].state = "working"
           /\ slaves[Head(backlog)].state # "connected" =>
                 slaves'[Head(backlog)].state = slaves[Head(backlog)].state
           /\ \A t \in DOMAIN slaves : t # Head(backlog) => slaves'[t] = slaves[t]
<1> DEFINE s  == Head(backlog)
           to == IF slaves[s].state = "connected" THEN "working" ELSE slaves[s].state
<1>1. s \in DOMAIN slaves
  BY BacklogParts DEF Accept
<1>2. to \in SlaveStates
  BY <1>1, Parts DEF Typed, SlaveStates
<1>3. slaves' = [slaves EXCEPT ![s].state = to]
  BY DEF Accept
<1>4. /\ slaves[s].state = "connected" => to = "working"
      /\ slaves[s].state # "connected" => to = slaves[s].state
  OBVIOUS
<1> HIDE DEF s, to
<1>5. /\ slaves' \in Seq(Slave) /\ Last' = Last /\ DOMAIN slaves' = DOMAIN slaves
      /\ slaves'[s].state = to /\ slaves'[s].late = slaves[s].late /\ slaves'[s].job = slaves[s].job
      /\ \A t \in DOMAIN slaves : t # s => slaves'[t] = slaves[t]
  BY <1>1, <1>2, <1>3, SlaveChanged DEF Typed
<1> QED
  BY <1>1, <1>4, <1>5 DEF s

LEMMA ExceptOutside ==
    ASSUME NEW S, NEW s \in Seq(S), NEW i, i \notin DOMAIN s
    PROVE  [s EXCEPT ![i].late = TRUE] = s
OBVIOUS

(* The one that NoConnect stops to wait for.                               *)
LEMMA GivenUp ==
    ASSUME Typed, NoConnect
    PROVE  /\ slaves' \in Seq(Slave) /\ Last' = Last /\ DOMAIN slaves' = DOMAIN slaves
           /\ \A t \in DOMAIN slaves :
                 /\ slaves'[t].state = slaves[t].state /\ slaves'[t].job = slaves[t].job
                 /\ t # Last => slaves'[t] = slaves[t]
                 /\ t = Last => slaves'[t].late
<1>1. slaves' = [slaves EXCEPT ![Last].late = TRUE] /\ slaves \in Seq(Slave)
  BY DEF NoConnect, Last, Typed, TypeOK
<1>2. CASE Last \in DOMAIN slaves
  <2> DEFINE new == [slaves[Last] EXCEPT !.late = TRUE]
  <2>1. new \in Slave /\ new.state = slaves[Last].state /\ new.job = slaves[Last].job /\ new.late
    BY <1>2, Parts DEF Typed, Slave
  <2>2. slaves' = [slaves EXCEPT ![Last] = new]
    BY <1>1
  <2> HIDE DEF new
  <2>3. /\ [slaves EXCEPT ![Last] = new] \in Seq(Slave)
        /\ Len([slaves EXCEPT ![Last] = new]) = Len(slaves)
        /\ DOMAIN [slaves EXCEPT ![Last] = new] = DOMAIN slaves
        /\ [slaves EXCEPT ![Last] = new][Last] = new
        /\ \A t \in DOMAIN slaves : t # Last => [slaves EXCEPT ![Last] = new][t] = slaves[t]
    BY <1>1, <1>2, <2>1, Replaced
  <2>4. /\ slaves' \in Seq(Slave) /\ Len(slaves') = Len(slaves) /\ DOMAIN slaves' = DOMAIN slaves
        /\ slaves'[Last] = new /\ \A t \in DOMAIN slaves : t # Last => slaves'[t] = slaves[t]
    BY <2>2, <2>3
  <2>5. Last' = Last
    BY <2>4 DEF Last
  <2> QED
    BY <2>1, <2>4, <2>5
<1>3. CASE Last \notin DOMAIN slaves
  <2>1. slaves' = slaves
    BY <1>1, <1>3, ExceptOutside
  <2> QED
    BY <1>1, <1>3, <2>1 DEF Last
<1> QED
  BY <1>2, <1>3
-----------------------------------------------------------------------------
LEMMA InitType == Init => Typed
<1> SUFFICES ASSUME Init PROVE Typed
  OBVIOUS
<1>1. queued \in Nat
  BY FirstJobsAssumption DEF Init
<1>2. \A k \in 1 .. queued : [id |-> k, status |-> "ready"] \in Job
  BY <1>1 DEF Job, Statuses
<1>3. rows \in Seq(Job)
  BY <1>1, <1>2, IsASeq DEF Init
<1>4. record \in [job : Nat, written : Nat, run : Nat, ok : BOOLEAN]
  BY DEF Init
<1>5. slaves \in Seq(Slave) /\ backlog \in Seq(Nat) /\ DOMAIN backlog = {}
  BY EmptySeq DEF Init
<1> QED
  BY <1>1, <1>3, <1>4, <1>5, NotRunningParts DEF Init, Typed, TypeOK, AtWork

(* A button: nothing is run, and the list is read again.                   *)
LEMMA IdleRead ==
    ASSUME Typed, Idle, rows' \in Seq(Job), made' \in Nat, Refreshed, due' \in SUBSET Nat,
           UNCHANGED <<run, slaves, backlog, wild, queued, deleted, record>>
    PROVE  Typed'
BY DEF Typed, TypeOK, AtWork, Idle, Refreshed

LEMMA DoneIsNotWild ==
    ASSUME Typed, run.at \notin {"idle", "spawn", "next"}
    PROVE  ~wild /\ run.i \in DOMAIN list
BY DEF Typed, AtWork

LEMMA BeginType ==
    ASSUME Typed, Begin
    PROVE  Typed'
<1>1. run.i \in DOMAIN list /\ ~wild
  BY DoneIsNotWild DEF Begin
<1>2. list' = [list EXCEPT ![run.i].status = "running"]
  BY DEF Begin
<1>3. list' \in Seq(Job) /\ DOMAIN list' = DOMAIN list
  BY <1>1, <1>2, ListChanged DEF Typed, Statuses
<1>4. rows' \in Seq(Job) /\ made' \in Nat
  BY <1>1, Parts, RowUpdated DEF Typed, Begin, Statuses
<1>5. run' \in Run /\ run'.at = "spawn" /\ run'.i = run.i
  BY RunChanged DEF Typed, Begin, Steps
<1> QED
  BY <1>1, <1>3, <1>4, <1>5 DEF Typed, TypeOK, AtWork, Begin

LEMMA FinishType ==
    ASSUME Typed, Finish
    PROVE  Typed'
<1>1. run.i \in DOMAIN list /\ ~wild
  BY DoneIsNotWild DEF Finish
<1>2. StatusOf(run.ok) \in Statuses
  BY DEF StatusOf, Statuses
<1>3. list' \in Seq(Job) /\ DOMAIN list' = DOMAIN list
  BY <1>1, <1>2, ListChanged DEF Typed, Finish
<1>4. rows' \in Seq(Job) /\ made' \in Nat
  BY <1>1, <1>2, Parts, RowUpdated DEF Typed, Finish
<1>5. run' \in Run /\ run'.at = "next" /\ run'.i = run.i
  BY RunChanged DEF Typed, Finish, Steps
<1>6. record' \in [job : Nat, written : Nat, run : Nat, ok : BOOLEAN]
  BY <1>1, Parts, RunParts DEF Typed, Finish, Last
<1> QED
  BY <1>1, <1>3, <1>4, <1>5, <1>6 DEF Typed, TypeOK, AtWork, Finish

LEMMA SpawnType ==
    ASSUME Typed, Spawn
    PROVE  Typed'
<1>1. run.i \in DOMAIN list /\ ~wild /\ run.i >= 1 /\ run.i \in Nat
  BY Parts, RunParts DEF Spawn, Typed, AtWork
<1>2. list' = rows /\ rows' = rows /\ made' = made
  BY DEF Spawn, Refreshed
<1>3. CASE Len(rows) > room \/ run.i > Len(rows)
  <2>1. wild' = TRUE /\ run' = run /\ slaves' = slaves /\ backlog' = backlog
    BY <1>3 DEF Spawn
  <2> QED
    BY <1>2, <2>1 DEF Typed, TypeOK, AtWork, Spawn
<1>4. CASE ~(Len(rows) > room \/ run.i > Len(rows))
  <2>1. run.i \in DOMAIN rows
    BY <1>1, <1>4, Parts DEF Typed
  <2> DEFINE new == [job |-> list'[run.i].id, state |-> "starting", late |-> FALSE]
  <2>2. /\ slaves' = Append(slaves, new) /\ run' = [run EXCEPT !.at = "wait"] /\ wild' = wild
    BY <1>4 DEF Spawn
  <2>3. new \in Slave
    BY <1>2, <2>1, Parts DEF Typed, Slave, SlaveStates
  <2> HIDE DEF new
  <2>4. slaves' \in Seq(Slave) /\ \A b \in DOMAIN slaves : b \in DOMAIN slaves'
    BY <2>2, <2>3, OneAppended DEF Typed, TypeOK
  <2>5. run' \in Run /\ run'.i = run.i /\ run'.at = "wait"
    BY <2>2, RunChanged DEF Typed, Steps
  <2> QED
    BY <1>1, <1>2, <2>1, <2>2, <2>4, <2>5 DEF Typed, TypeOK, AtWork, Spawn
<1> QED
  BY <1>3, <1>4

LEMMA NextJobType ==
    ASSUME Typed, NextJob
    PROVE  Typed'
<1>1. run.i \in Nat /\ run.all \in Nat /\ list' = rows /\ rows' = rows /\ made' = made
  BY RunParts DEF Typed, NextJob, Refreshed
<1>0. ~wild /\ run.at = "next" /\ UNCHANGED <<slaves, backlog, queued, deleted, record, due>>
  BY DEF NextJob
<1> DEFINE next == NextReady(list', run.i, run.all)
<1>2. \A j \in next : j \in Nat /\ j > 0
  BY <1>1 DEF NextReady
<1> HIDE DEF next
<1>3. CASE run' = NotRunning /\ wild' = wild
  <2>1. run' \in Run /\ run'.at = "idle"
    BY <1>3, NotRunningParts
  <2> QED
    BY <1>0, <1>1, <1>3, <2>1 DEF Typed, TypeOK, AtWork
<1>4. ASSUME NEW j \in next, j > Len(list'), wild' = TRUE, run' = run
      PROVE  Typed'
  BY <1>0, <1>1, <1>4 DEF Typed, TypeOK, AtWork
<1>5. ASSUME NEW j \in next, ~(j > Len(list')), wild' = wild,
             run' = [NotRunning EXCEPT !.at = "begin", !.i = j, !.all = run.all, !.job = list'[j].id]
      PROVE  Typed'
  <2>1. j \in DOMAIN rows /\ j \in Nat
    BY <1>1, <1>2, <1>5, Parts DEF Typed
  <2> DEFINE job == list'[j].id
  <2>2. job \in Nat
    BY <1>1, <2>1, Parts DEF Typed
  <2>4. run' = [NotRunning EXCEPT !.at = "begin", !.i = j, !.all = run.all, !.job = job]
    BY <1>5
  <2> HIDE DEF job
  <2>3. run' \in Run /\ run'.i = j /\ run'.at = "begin"
    BY <1>1, <2>1, <2>2, <2>4 DEF NotRunning, Run, Steps
  <2> QED
    BY <1>0, <1>1, <1>5, <2>1, <2>3 DEF Typed, TypeOK, AtWork
<1> QED
  BY <1>3, <1>4, <1>5 DEF NextJob, next

(* A slave's step.                                                         *)
LEMMA BecomesType ==
    ASSUME Typed, NEW s \in DOMAIN slaves, NEW from, NEW to \in SlaveStates, Becomes(s, from, to),
           \/ backlog' = backlog
           \/ backlog' = Append(backlog, s)
    PROVE  Typed'
<1>1. slaves' \in Seq(Slave) /\ DOMAIN slaves' = DOMAIN slaves
  BY SlaveChanged DEF Becomes, Typed
<1>2. backlog' \in Seq(Nat) /\ \A b \in DOMAIN backlog' : backlog'[b] \in DOMAIN slaves
  <2>1. CASE backlog' = backlog
    BY <2>1 DEF Typed, TypeOK, AtWork
  <2>2. CASE backlog' = Append(backlog, s)
    <3>1. s \in Nat
      BY Parts DEF Typed
    <3>2. /\ backlog' \in Seq(Nat) /\ DOMAIN backlog' = 1 .. (Len(backlog) + 1)
          /\ DOMAIN backlog = 1 .. Len(backlog) /\ Len(backlog) \in Nat
          /\ \A b \in 1 .. Len(backlog) : backlog'[b] = backlog[b]
          /\ backlog'[Len(backlog) + 1] = s
      BY <2>2, <3>1, OneAppended DEF Typed, TypeOK
    <3>3. \A b \in DOMAIN backlog' : b \in DOMAIN backlog \/ b = Len(backlog) + 1
      BY <3>2
    <3> QED
      BY <3>2, <3>3 DEF Typed, AtWork
  <2> QED
    BY <2>1, <2>2
<1> QED
  BY <1>1, <1>2 DEF Typed, TypeOK, AtWork, Becomes
-----------------------------------------------------------------------------
(* Each action keeps the types.                                            *)
LEMMA TypeStep == Typed /\ [Next]_vars => Typed'
<1> SUFFICES ASSUME Typed, [Next]_vars PROVE Typed'
  OBVIOUS
<1>1. ASSUME NEW i \in DOMAIN list, Del(i) PROVE Typed'
  <2>1. rows' \in Seq(Job)
    BY <1>1, RowsStay DEF Del, Typed
  <2> QED
    BY <1>1, <2>1, IdleRead DEF Del, Typed, TypeOK
<1>2. ASSUME NEW i \in DOMAIN list, NEW status \in {"ready", "ok"}, SetStatus(i, status) PROVE Typed'
  <2>1. status \in Statuses /\ list[i].id \in Nat
    BY Parts DEF Typed, Statuses
  <2>2. rows' \in Seq(Job) /\ made' \in Nat
    BY <1>2, <2>1, RowUpdated DEF SetStatus, Typed
  <2> QED
    BY <1>2, <2>2, IdleRead DEF SetStatus, Typed, TypeOK
<1>3. ASSUME NEW i \in DOMAIN list, RunNow(i) PROVE Typed'
  <2> DEFINE job == list[i].id
  <2>1. i \in Nat /\ job \in Nat /\ run' = [NotRunning EXCEPT !.at = "begin", !.i = i, !.job = job]
    BY <1>3, Parts DEF RunNow, Typed
  <2> HIDE DEF job
  <2>2. run' \in Run /\ run'.i = i /\ run'.at = "begin"
    BY <2>1 DEF NotRunning, Run, Steps
  <2> QED
    BY <1>3, <2>2 DEF RunNow, Idle, Typed, TypeOK, AtWork
<1>4. CASE Cleanup
  <2>1. rows' \in Seq(Job)
    BY <1>4, RowsStay DEF Cleanup, Typed
  <2> QED
    BY <1>4, <2>1, IdleRead DEF Cleanup, Typed, TypeOK
<1>5. CASE RunAllJob
  <2>1. PICK j \in NextReady(list, 0, Len(list)) :
           run' = [NotRunning EXCEPT !.at = "begin", !.i = j, !.all = Len(list), !.job = list[j].id]
    BY <1>5 DEF RunAllJob
  <2>2. j \in DOMAIN list /\ j \in Nat /\ Len(list) \in Nat
    BY Parts DEF NextReady, Typed
  <2> DEFINE job == list[j].id
             all == Len(list)
  <2>3. job \in Nat /\ all \in Nat
    BY <2>2, Parts DEF Typed
  <2>4. run' = [NotRunning EXCEPT !.at = "begin", !.i = j, !.all = all, !.job = job]
    BY <2>1
  <2> HIDE DEF job, all
  <2>5. run' \in Run /\ run'.i = j /\ run'.at = "begin"
    BY <2>2, <2>3, <2>4 DEF NotRunning, Run, Steps
  <2>6. due' \in SUBSET Nat
    BY <1>5, Parts DEF RunAllJob, Typed
  <2> QED
    BY <1>5, <2>2, <2>5, <2>6 DEF RunAllJob, Idle, Typed, TypeOK, AtWork
<1>6. CASE Accept
  <2>1. slaves' \in Seq(Slave) /\ DOMAIN slaves' = DOMAIN slaves /\ Head(backlog) \in DOMAIN slaves
    BY <1>6, Accepted
  <2>2. backlog' \in Seq(Nat) /\ \A b \in DOMAIN backlog' : backlog'[b] \in DOMAIN slaves
    BY <1>6, BacklogParts DEF Accept
  <2>3. Head(backlog) \in Nat
    BY <2>1, Parts DEF Typed
  <2>4. run' \in Run /\ run'.i = run.i /\ run'.at = "poll"
    <3>1. run' = [run EXCEPT !.at = "poll", !.sock = Head(backlog)]
      BY <1>6 DEF Accept
    <3> QED
      BY <2>3, <3>1 DEF Typed, TypeOK, Run, Steps
  <2>5. run.i \in DOMAIN list /\ ~wild
    BY <1>6, DoneIsNotWild DEF Accept
  <2> QED
    BY <1>6, <2>1, <2>2, <2>4, <2>5 DEF Typed, TypeOK, AtWork, Accept
<1>7. CASE NoConnect
  <2>1. slaves' \in Seq(Slave) /\ DOMAIN slaves' = DOMAIN slaves
    BY <1>7, GivenUp
  <2>2. run' \in Run /\ run'.i = run.i /\ run'.at = "done"
    BY <1>7, RunChanged DEF Typed, NoConnect, Steps
  <2>3. run.i \in DOMAIN list /\ ~wild
    BY <1>7, DoneIsNotWild DEF NoConnect
  <2> QED
    BY <1>7, <2>1, <2>2, <2>3 DEF Typed, TypeOK, AtWork, NoConnect
<1>8. CASE Poll
  <2> DEFINE ok == Result(slaves[run.sock].state)
  <2>1. ok \in BOOLEAN /\ run' = [run EXCEPT !.at = "done", !.ok = ok]
    BY <1>8 DEF Poll, Result
  <2> HIDE DEF ok
  <2>2. run' \in Run /\ run'.i = run.i /\ run'.at = "done"
    BY <2>1 DEF Typed, TypeOK, Run, Steps
  <2>3. run.i \in DOMAIN list /\ ~wild
    BY <1>8, DoneIsNotWild DEF Poll
  <2> QED
    BY <1>8, <2>2, <2>3 DEF Typed, TypeOK, AtWork, Poll
<1>9. ASSUME NEW s \in DOMAIN slaves, Connect(s) PROVE Typed'
  BY <1>9, BecomesType DEF Connect, SlaveStates
<1>10. ASSUME NEW s \in DOMAIN slaves, NEW state \in {"saved", "failed"}, Report(s, state) PROVE Typed'
  BY <1>10, BecomesType DEF Report, SlaveStates
<1>11. ASSUME NEW s \in DOMAIN slaves, Die(s) PROVE Typed'
  BY <1>11, BecomesType DEF Die, SlaveStates
<1>12. CASE QueueJob
  <2>1. [id |-> made + 1, status |-> "ready"] \in Job /\ made' \in Nat /\ queued' \in Nat
    BY <1>12 DEF QueueJob, Job, Statuses, Typed, TypeOK
  <2>2. rows' \in Seq(Job)
    BY <1>12, <2>1, OneAppended DEF QueueJob, Typed, TypeOK
  <2> QED
    BY <1>12, <2>1, <2>2 DEF Typed, TypeOK, AtWork, QueueJob
<1>13. ASSUME NEW k \in DOMAIN rows, DeletedElsewhere(k) PROVE Typed'
  <2>1. rows' \in Seq(Job) /\ deleted' \in Nat
    BY <1>13, RowsStay DEF DeletedElsewhere, Typed, TypeOK
  <2> QED
    BY <1>13, <2>1 DEF Typed, TypeOK, AtWork, DeletedElsewhere
<1>14. CASE UNCHANGED vars
  BY <1>14 DEF vars, Typed, TypeOK, AtWork
<1> QED
  BY <1>1, <1>2, <1>3, <1>4, <1>5, <1>6, <1>7, <1>8, <1>9, <1>10, <1>11, <1>12, <1>13, <1>14,
     BeginType, SpawnType, FinishType, NextJobType DEF Next, RunOneJob

LEMMA TypeInvariant == Spec => []Typed
BY InitType, TypeStep, PTL DEF Spec

(* The variables keep their types, however the window, the slaves and the  *)
(* other processes follow each other (ADM_jobControl.cpp, ADM_coreJobs.cpp).*)
THEOREM TypeCorrect == Spec => []TypeOK
<1>1. Typed => TypeOK
  BY DEF Typed
<1> QED
  BY <1>1, TypeInvariant, PTL
-----------------------------------------------------------------------------
(* A slave that works is the one that the window listens to.               *)
Working == \A s \in DOMAIN slaves : slaves[s].state = "working" => run.at = "poll" /\ run.sock = s

LEMMA SlaveWorks ==
    ASSUME Typed, Working, NEW s \in DOMAIN slaves, NEW from,
           NEW to \in SlaveStates \ {"working"}, Becomes(s, from, to)
    PROVE  Working'
<1>1. /\ DOMAIN slaves' = DOMAIN slaves /\ slaves'[s].state = to
      /\ \A t \in DOMAIN slaves : t # s => slaves'[t] = slaves[t]
  BY SlaveChanged DEF Becomes, Typed
<1> QED
  BY <1>1 DEF Working, Becomes

LEMMA WorkingStep == Typed /\ Working /\ [Next]_vars => Working'
<1> SUFFICES ASSUME Typed, Working, [Next]_vars PROVE Working'
  OBVIOUS
<1>1. ASSUME NEW i \in DOMAIN list, Del(i) PROVE Working'
  BY <1>1 DEF Del, Working
<1>2. ASSUME NEW i \in DOMAIN list, NEW status \in {"ready", "ok"}, SetStatus(i, status) PROVE Working'
  BY <1>2 DEF SetStatus, Working
<1>3. ASSUME NEW i \in DOMAIN list, RunNow(i) PROVE Working'
  BY <1>3 DEF RunNow, Idle, Working
<1>4. CASE Cleanup
  BY <1>4 DEF Cleanup, Working
<1>5. CASE RunAllJob
  BY <1>5 DEF RunAllJob, Idle, Working
<1>6. CASE Accept
  <2>1. /\ DOMAIN slaves' = DOMAIN slaves
        /\ \A t \in DOMAIN slaves : t # Head(backlog) => slaves'[t] = slaves[t]
    BY <1>6, Accepted
  <2>2. run'.at = "poll" /\ run'.sock = Head(backlog)
    BY <1>6 DEF Accept, Typed, TypeOK, Run
  <2> QED
    BY <1>6, <2>1, <2>2 DEF Accept, Working
<1>7. CASE NoConnect
  <2>1. DOMAIN slaves' = DOMAIN slaves /\ \A t \in DOMAIN slaves : slaves'[t].state = slaves[t].state
    BY <1>7, GivenUp
  <2> QED
    BY <1>7, <2>1 DEF NoConnect, Working
<1>8. CASE Poll
  BY <1>8 DEF Poll, Ends, Working
<1>9. ASSUME NEW s \in DOMAIN slaves, Connect(s) PROVE Working'
  BY <1>9, SlaveWorks DEF Connect, SlaveStates
<1>10. ASSUME NEW s \in DOMAIN slaves, NEW state \in {"saved", "failed"}, Report(s, state) PROVE Working'
  BY <1>10, SlaveWorks DEF Report, SlaveStates
<1>11. ASSUME NEW s \in DOMAIN slaves, Die(s) PROVE Working'
  BY <1>11, SlaveWorks DEF Die, SlaveStates
<1>12. CASE QueueJob
  BY <1>12 DEF QueueJob, Working
<1>13. ASSUME NEW k \in DOMAIN rows, DeletedElsewhere(k) PROVE Working'
  BY <1>13 DEF DeletedElsewhere, Working
<1>14. CASE UNCHANGED vars
  BY <1>14 DEF vars, Working
<1>15. CASE Begin \/ Finish \/ NextJob
  BY <1>15 DEF Begin, Finish, NextJob, Working
<1>16. CASE Spawn
  <2>1. CASE slaves' = slaves
    BY <1>16, <2>1 DEF Spawn, Working
  <2>2. ASSUME slaves' # slaves PROVE Working'
    <3> DEFINE new == [job |-> list'[run.i].id, state |-> "starting", late |-> FALSE]
    <3>1. slaves' = Append(slaves, new)
      BY <1>16, <2>2 DEF Spawn
    <3>2. new.state = "starting"
      OBVIOUS
    <3> HIDE DEF new
    <3>3. slaves \in Seq(Slave) /\ slaves' \in Seq(Slave)
      BY <1>16, SpawnType DEF Typed, TypeOK
    <3>4. \A s \in DOMAIN slaves' :
             \/ s \in DOMAIN slaves /\ slaves'[s] = slaves[s]
             \/ slaves'[s] = new
      BY <3>1, <3>3
    <3> QED
      BY <1>16, <3>2, <3>4 DEF Spawn, Working
  <2> QED
    BY <2>1, <2>2
<1> QED
  BY <1>1, <1>2, <1>3, <1>4, <1>5, <1>6, <1>7, <1>8, <1>9, <1>10, <1>11, <1>12, <1>13, <1>14,
     <1>15, <1>16 DEF Next, RunOneJob

LEMMA WorkingInvariant == Spec => []Working
<1>1. Init => Working
  BY EmptySeq DEF Init, Working
<1> QED
  BY <1>1, WorkingStep, TypeInvariant, PTL DEF Spec

(* One slave works at a time, those that have come too late included:      *)
(* runOneJob() accepts a connection only when it has left the last one     *)
(* (ADM_runOneJob.cpp), and a slave that is not accepted waits.            *)
THEOREM SlavesTakeTurns == Spec => []OneAtATime
<1>1. Working => OneAtATime
  BY DEF Working, OneAtATime
<1> QED
  BY <1>1, WorkingInvariant, PTL
-----------------------------------------------------------------------------
(* While no other window deletes jobs, ids are unique, what listOfJob      *)
(* holds is the beginning of the table, and the job at the place of the    *)
(* one that is run is that one.                                            *)
Ids ==
    /\ \A k \in DOMAIN rows : rows[k].id \in 1 .. made
    /\ \A j, k \in DOMAIN rows : rows[j].id = rows[k].id => j = k
    /\ due \subseteq 1 .. made

Listed == Len(list) <= Len(rows) /\ \A k \in DOMAIN list : list[k] = rows[k]

Current == run.at # "idle" => run.i \in DOMAIN list /\ list[run.i].id = run.job

OneRunning ==
    \A k \in DOMAIN rows :
        rows[k].status = "running" <=> rows[k].id = run.job /\ run.at \in {"spawn", "wait", "poll", "done"}

(* What a job that was ready when all had to be run can be: it has a       *)
(* result, it is being run, or it is still ahead.                          *)
Owed ==
    \A k \in DOMAIN rows :
        rows[k].id \in due =>
            \/ rows[k].status \in {"ok", "ko"}
            \/ k = run.i /\ run.at \in {"begin", "spawn", "wait", "poll", "done"}
            \/ run.at # "idle" /\ k > run.i /\ k <= run.all /\ rows[k].status = "ready"

InOrder == Ids /\ Listed /\ Current /\ OneRunning /\ Owed

Table == deleted = 0 => InOrder

LEMMA SameJob ==
    ASSUME NEW a \in Job, NEW b \in Job, a.id = b.id, a.status = b.status
    PROVE  a = b
BY DEF Job

LEMMA ListIsTable ==
    ASSUME Typed, Listed, NEW i \in DOMAIN list
    PROVE  i \in DOMAIN rows /\ list[i].id = rows[i].id /\ list[i].id \in Nat /\ i \in Nat /\ i <= Len(list)
BY Parts DEF Typed, Listed

(* jobUpdate() of the job at one place of the list changes that row only.  *)
LEMMA OneUpdated ==
    ASSUME Typed, Ids, Listed, NEW i \in DOMAIN list, NEW status \in Statuses,
           Updated(list[i].id, status)
    PROVE  /\ made' = made /\ Len(rows') = Len(rows) /\ DOMAIN rows' = DOMAIN rows
           /\ i \in DOMAIN rows /\ rows'[i].status = status
           /\ \A k \in DOMAIN rows : rows'[k].id = rows[k].id /\ (k # i => rows'[k] = rows[k])
           /\ rows' \in Seq(Job)
<1> DEFINE id == list[i].id
<1>1. i \in DOMAIN rows /\ id = rows[i].id /\ id \in Nat
  BY ListIsTable
<1>2. Known(id)
  BY <1>1 DEF Known
<1>3. Updated(id, status)
  OBVIOUS
<1> HIDE DEF id
<1>4. /\ rows' \in Seq(Job)
      /\ made' = made /\ Len(rows') = Len(rows) /\ DOMAIN rows' = DOMAIN rows
      /\ \A k \in DOMAIN rows : /\ rows'[k].id = rows[k].id
                                /\ rows[k].id = id => rows'[k].status = status
                                /\ rows[k].id # id => rows'[k] = rows[k]
  BY <1>1, <1>2, <1>3, RowUpdated DEF Typed
<1>5. \A k \in DOMAIN rows : k # i => rows[k].id # id
  BY <1>1 DEF Ids
<1> QED
  BY <1>1, <1>4, <1>5

LEMMA IdsKept ==
    ASSUME Ids, made' = made, DOMAIN rows' = DOMAIN rows, due' \subseteq due,
           \A k \in DOMAIN rows : rows'[k].id = rows[k].id
    PROVE  Ids'
BY DEF Ids

LEMMA InOrderInit == Init => InOrder
<1> SUFFICES ASSUME Init PROVE InOrder
  OBVIOUS
<1>1. queued \in Nat /\ rows = [k \in 1 .. queued |-> [id |-> k, status |-> "ready"]]
      /\ list = rows /\ made = queued /\ due = {} /\ run = NotRunning
  BY FirstJobsAssumption DEF Init
<1>2. DOMAIN rows = 1 .. queued /\ \A k \in 1 .. queued : rows[k].id = k /\ rows[k].status = "ready"
  BY <1>1
<1>3. Len(rows) \in Nat
  BY Parts, InitType DEF Typed
<1>4. Ids
  BY <1>1, <1>2 DEF Ids
<1>5. Listed
  BY <1>1, <1>3 DEF Listed
<1>6. OneRunning
  BY <1>1, <1>2, NotRunningParts DEF OneRunning
<1>7. Current /\ Owed
  BY <1>1, NotRunningParts DEF Current, Owed
<1> QED
  BY <1>4, <1>5, <1>6, <1>7 DEF InOrder

(* Rows are taken out while nothing is run, and the list is read again.    *)
LEMMA RemovedInOrder ==
    ASSUME Typed, InOrder, NEW ids, Idle, Removed(ids), Refreshed, UNCHANGED <<made, run, due>>
    PROVE  InOrder'
<1>1. PICK from \in [DOMAIN rows' -> DOMAIN rows] :
         /\ \A k \in DOMAIN rows' : rows'[k] = rows[from[k]]
         /\ \A j, k \in DOMAIN rows' : from[j] = from[k] => j = k
  BY RowsStay DEF Typed
<1>2. rows' \in Seq(Job) /\ list' = rows' /\ run.at = "idle" /\ run'.at = "idle"
  BY RowsStay DEF Typed, Refreshed, Idle
<1>3. Len(rows') \in Nat
  BY <1>2, LenProperties
<1>4. Ids'
  BY <1>1 DEF InOrder, Ids
<1>5. Listed' /\ Current'
  BY <1>2, <1>3 DEF Listed, Current
<1>6. \A k \in DOMAIN rows : rows[k].status # "running" /\ (rows[k].id \in due => rows[k].status \in {"ok", "ko"})
  BY <1>2 DEF InOrder, OneRunning, Owed
<1>7. OneRunning' /\ Owed'
  BY <1>1, <1>2, <1>6 DEF OneRunning, Owed
<1> QED
  BY <1>4, <1>5, <1>7 DEF InOrder

LEMMA SetStatusInOrder ==
    ASSUME Typed, InOrder, NEW i \in DOMAIN list, NEW status \in {"ready", "ok"}, SetStatus(i, status)
    PROVE  InOrder'
<1>1. /\ made' = made /\ Len(rows') = Len(rows) /\ DOMAIN rows' = DOMAIN rows
      /\ i \in DOMAIN rows /\ rows'[i].status = status
      /\ \A k \in DOMAIN rows : rows'[k].id = rows[k].id /\ (k # i => rows'[k] = rows[k])
  BY OneUpdated DEF SetStatus, InOrder, Statuses
<1>2. /\ list' = rows' /\ run.at = "idle" /\ run' = run /\ Len(rows) \in Nat
      /\ due' = due \ {list[i].id} /\ list[i].id = rows[i].id
  BY Parts, ListIsTable DEF Typed, SetStatus, Refreshed, Idle, InOrder
<1>3. Ids'
  BY <1>1, <1>2, IdsKept DEF InOrder
<1>4. Listed' /\ Current'
  BY <1>1, <1>2 DEF Listed, Current
<1>5. \A k \in DOMAIN rows : rows[k].status # "running" /\ (rows[k].id \in due => rows[k].status \in {"ok", "ko"})
  BY <1>2 DEF InOrder, OneRunning, Owed
<1>6. OneRunning'
  BY <1>1, <1>2, <1>5 DEF OneRunning
<1>7. Owed'
  BY <1>1, <1>2, <1>5 DEF Owed
<1> QED
  BY <1>3, <1>4, <1>6, <1>7 DEF InOrder

LEMMA RunNowInOrder ==
    ASSUME Typed, InOrder, NEW i \in DOMAIN list, RunNow(i)
    PROVE  InOrder'
<1>1. /\ run.at = "idle" /\ due' = {} /\ UNCHANGED <<rows, made, list>>
      /\ run' = [NotRunning EXCEPT !.at = "begin", !.i = i, !.job = list[i].id]
  BY DEF RunNow, Idle
<1>2. run'.at = "begin" /\ run'.i = i /\ run'.job = list[i].id
  BY <1>1 DEF NotRunning
<1>3. Ids' /\ Listed' /\ Current' /\ Owed'
  BY <1>1, <1>2 DEF InOrder, Ids, Listed, Current, Owed
<1>4. OneRunning'
  BY <1>1, <1>2 DEF InOrder, OneRunning
<1> QED
  BY <1>3, <1>4 DEF InOrder

LEMMA RunAllJobInOrder ==
    ASSUME Typed, InOrder, RunAllJob
    PROVE  InOrder'
<1>1. PICK j \in NextReady(list, 0, Len(list)) :
         run' = [NotRunning EXCEPT !.at = "begin", !.i = j, !.all = Len(list), !.job = list[j].id]
  BY DEF RunAllJob
<1>2. /\ run.at = "idle" /\ UNCHANGED <<rows, made, list>>
      /\ due' = {list[k].id : k \in {n \in DOMAIN list : list[n].status = "ready"}}
  BY DEF RunAllJob, Idle
<1>3. run'.at = "begin" /\ run'.i = j /\ run'.all = Len(list) /\ run'.job = list[j].id
  BY <1>1 DEF NotRunning
<1>4. /\ j \in DOMAIN list /\ j \in Nat /\ Len(list) \in Nat /\ DOMAIN list = 1 .. Len(list)
      /\ \A k \in 1 .. (j - 1) : list[k].status # "ready"
  BY Parts DEF NextReady, Typed
<1>5. \A k \in DOMAIN list : k \in DOMAIN rows /\ list[k] = rows[k]
  BY ListIsTable DEF InOrder, Listed
<1>6. Ids'
  <2>1. due' \subseteq 1 .. made
    BY <1>2, <1>5 DEF InOrder, Ids
  <2> QED
    BY <1>2, <2>1 DEF InOrder, Ids
<1>7. Listed' /\ Current'
  BY <1>2, <1>3, <1>4 DEF InOrder, Listed, Current
<1>8. OneRunning'
  BY <1>2, <1>3 DEF InOrder, OneRunning
<1>9. Owed'
  <2> SUFFICES ASSUME NEW k \in DOMAIN rows, rows[k].id \in due'
               PROVE  k = j \/ (k > j /\ k <= Len(list) /\ rows[k].status = "ready")
    BY <1>2, <1>3 DEF Owed
  <2>1. PICK n \in DOMAIN list : list[n].status = "ready" /\ list[n].id = rows[k].id
    BY <1>2
  <2>2. n = k /\ rows[k].status = "ready"
    BY <1>5, <2>1 DEF InOrder, Ids
  <2>3. k \in 1 .. Len(list) /\ ~(k \in 1 .. (j - 1))
    BY <1>4, <2>1, <2>2
  <2> QED
    BY <1>4, <2>2, <2>3
<1> QED
  BY <1>6, <1>7, <1>8, <1>9 DEF InOrder

LEMMA BeginInOrder ==
    ASSUME Typed, InOrder, Begin
    PROVE  InOrder'
<1>1. run.i \in DOMAIN list /\ list[run.i].id = run.job
  BY DEF InOrder, Current, Begin
<1>2. /\ made' = made /\ Len(rows') = Len(rows) /\ DOMAIN rows' = DOMAIN rows
      /\ run.i \in DOMAIN rows /\ rows'[run.i].status = "running"
      /\ \A k \in DOMAIN rows : rows'[k].id = rows[k].id /\ (k # run.i => rows'[k] = rows[k])
      /\ rows' \in Seq(Job)
  BY <1>1, OneUpdated DEF Begin, InOrder, Statuses
<1>3. /\ list' \in Seq(Job) /\ Len(list') = Len(list) /\ DOMAIN list' = DOMAIN list
      /\ list'[run.i].id = list[run.i].id /\ list'[run.i].status = "running"
      /\ \A k \in DOMAIN list : k # run.i => list'[k] = list[k]
  BY <1>1, ListChanged DEF Begin, Typed, Statuses
<1>4. run'.at = "spawn" /\ run'.i = run.i /\ run'.all = run.all /\ run'.job = run.job
  BY RunChanged DEF Begin, Typed, Steps
<1>5. \A k \in DOMAIN list : k \in DOMAIN rows /\ list[k] = rows[k]
  BY ListIsTable DEF InOrder, Listed
<1>6. Ids'
  BY <1>2, IdsKept DEF InOrder, Begin
<1>7. Listed'
  <2>1. list'[run.i] = rows'[run.i]
    <3>1. list'[run.i] \in Job /\ rows'[run.i] \in Job
      BY <1>1, <1>2, <1>3, ElementOfSeq, LenProperties
    <3> QED
      BY <1>1, <1>2, <1>3, <1>5, <3>1, SameJob
  <2> QED
    BY <1>2, <1>3, <1>5, <2>1 DEF InOrder, Listed
<1>8. Current'
  BY <1>1, <1>3, <1>4 DEF Current
<1>9. OneRunning'
  <2>1. \A k \in DOMAIN rows : rows[k].id = run.job <=> k = run.i
    BY <1>1, <1>2, <1>5 DEF InOrder, Ids
  <2>2. \A k \in DOMAIN rows : rows[k].status # "running"
    BY DEF InOrder, OneRunning, Begin
  <2> QED
    BY <1>2, <1>4, <2>1, <2>2 DEF OneRunning
<1>10. Owed'
  BY <1>2, <1>4 DEF InOrder, Owed, Begin
<1> QED
  BY <1>6, <1>7, <1>8, <1>9, <1>10 DEF InOrder

LEMMA FinishInOrder ==
    ASSUME Typed, InOrder, Finish
    PROVE  InOrder'
<1> DEFINE status == StatusOf(run.ok)
<1>0. status \in {"ok", "ko"} /\ status \in Statuses
  BY DEF StatusOf, Statuses
<1>1. run.i \in DOMAIN list /\ list[run.i].id = run.job /\ run.at = "done"
  BY DEF InOrder, Current, Finish
<1>11. /\ list' = [list EXCEPT ![run.i].status = status] /\ Updated(list[run.i].id, status)
       /\ run' = [run EXCEPT !.at = "next"] /\ due' = due
  BY DEF Finish
<1> HIDE DEF status
<1>2. /\ made' = made /\ Len(rows') = Len(rows) /\ DOMAIN rows' = DOMAIN rows
      /\ run.i \in DOMAIN rows /\ rows'[run.i].status = status
      /\ \A k \in DOMAIN rows : rows'[k].id = rows[k].id /\ (k # run.i => rows'[k] = rows[k])
      /\ rows' \in Seq(Job)
  BY <1>0, <1>1, <1>11, OneUpdated DEF InOrder
<1>3. /\ list' \in Seq(Job) /\ Len(list') = Len(list) /\ DOMAIN list' = DOMAIN list
      /\ list'[run.i].id = list[run.i].id /\ list'[run.i].status = status
      /\ \A k \in DOMAIN list : k # run.i => list'[k] = list[k]
  BY <1>0, <1>1, <1>11, ListChanged DEF Typed
<1>4. run'.at = "next" /\ run'.i = run.i /\ run'.all = run.all /\ run'.job = run.job
  BY <1>11, RunChanged DEF Typed, Steps
<1>5. \A k \in DOMAIN list : k \in DOMAIN rows /\ list[k] = rows[k]
  BY ListIsTable DEF InOrder, Listed
<1>6. Ids'
  BY <1>2, <1>11, IdsKept DEF InOrder
<1>7. Listed'
  <2>1. list'[run.i] = rows'[run.i]
    <3>1. list'[run.i] \in Job /\ rows'[run.i] \in Job
      BY <1>1, <1>2, <1>3, ElementOfSeq, LenProperties
    <3> QED
      BY <1>1, <1>2, <1>3, <1>5, <3>1, SameJob
  <2> QED
    BY <1>2, <1>3, <1>5, <2>1 DEF InOrder, Listed
<1>8. Current'
  BY <1>1, <1>3, <1>4 DEF Current
<1>9. OneRunning'
  <2>1. \A k \in DOMAIN rows : rows[k].id = run.job => k = run.i
    BY <1>1, <1>2, <1>5 DEF InOrder, Ids
  <2>2. \A k \in DOMAIN rows : k # run.i => rows[k].status # "running"
    BY <2>1 DEF InOrder, OneRunning
  <2>3. rows'[run.i].status # "running"
    BY <1>0, <1>2
  <2> QED
    BY <1>2, <1>4, <2>2, <2>3 DEF OneRunning
<1>10. Owed'
  BY <1>0, <1>1, <1>2, <1>4, <1>11 DEF InOrder, Owed
<1> QED
  BY <1>6, <1>7, <1>8, <1>9, <1>10 DEF InOrder

(* The window goes on in runOneJob(), and the table does not change.       *)
LEMMA GoesOnInOrder ==
    ASSUME Typed, InOrder, UNCHANGED <<rows, made, due>>,
           run.at \in {"spawn", "wait", "poll"}, run'.at \in {"spawn", "wait", "poll", "done"},
           run'.i = run.i, run'.all = run.all, run'.job = run.job,
           list' = list \/ list' = rows
    PROVE  InOrder'
<1>1. \A k \in DOMAIN list : k \in DOMAIN rows /\ list[k] = rows[k]
  BY ListIsTable DEF InOrder, Listed
<1>2. Len(rows) \in Nat
  BY Parts DEF Typed
<1>3. Ids' /\ Listed'
  BY <1>1, <1>2 DEF InOrder, Ids, Listed
<1>4. Current'
  BY <1>1 DEF InOrder, Current
<1>5. OneRunning'
  BY DEF InOrder, OneRunning
<1>6. Owed'
  BY DEF InOrder, Owed
<1> QED
  BY <1>3, <1>4, <1>5, <1>6 DEF InOrder

LEMMA NextJobInOrder ==
    ASSUME Typed, InOrder, NextJob
    PROVE  InOrder'
<1>1. /\ run.i \in Nat /\ run.all \in Nat /\ Len(rows) \in Nat /\ DOMAIN rows = 1 .. Len(rows)
      /\ list' = rows /\ rows' = rows /\ made' = made /\ due' = due /\ run.at = "next"
  BY Parts, RunParts DEF Typed, NextJob, Refreshed
<1> DEFINE next == NextReady(rows, run.i, run.all)
<1>2. Ids' /\ Listed'
  BY <1>1 DEF InOrder, Ids, Listed
<1>3. /\ \A k \in DOMAIN rows : rows[k].status # "running"
      /\ \A k \in DOMAIN rows : rows[k].id \in due =>
            \/ rows[k].status \in {"ok", "ko"}
            \/ k > run.i /\ k <= run.all /\ rows[k].status = "ready"
  BY <1>1 DEF InOrder, OneRunning, Owed
<1>4. ASSUME next = {}, run' = NotRunning PROVE InOrder'
  <2> DEFINE ready == {j \in (run.i + 1) .. run.all : j > Len(rows) \/ rows[j].status = "ready"}
  <2>1. ready = {}
    <3> SUFFICES ASSUME ready # {} PROVE FALSE
      OBVIOUS
    <3>1. ready \in SUBSET Nat
      BY <1>1
    <3>2. PICK j \in ready : \A k \in ready : j <= k
      BY <3>1, Smallest
    <3>3. \A k \in (run.i + 1) .. (j - 1) : k \in (run.i + 1) .. run.all /\ ~(j <= k)
      BY <1>1, <3>1, <3>2
    <3>4. \A k \in (run.i + 1) .. (j - 1) : ~(k > Len(rows) \/ rows[k].status = "ready")
      BY <3>2, <3>3
    <3>5. j \in next
      BY <3>2, <3>4 DEF NextReady
    <3> QED
      BY <1>4, <3>5
  <2>2. \A k \in DOMAIN rows : rows[k].id \in due => rows[k].status \in {"ok", "ko"}
    BY <1>1, <1>3, <2>1
  <2> QED
    BY <1>1, <1>2, <1>3, <1>4, <2>2, NotRunningParts DEF InOrder, Current, OneRunning, Owed
<1>5. ASSUME run' = run PROVE InOrder'
  <2>1. \A k \in DOMAIN list : k \in DOMAIN rows /\ list[k] = rows[k]
    BY ListIsTable DEF InOrder, Listed
  <2> QED
    BY <1>1, <1>2, <1>5, <2>1 DEF InOrder, Current, OneRunning, Owed
<1>6. ASSUME NEW j \in next, ~(j > Len(rows)),
             run' = [NotRunning EXCEPT !.at = "begin", !.i = j, !.all = run.all, !.job = rows[j].id]
      PROVE  InOrder'
  <2>1. run'.at = "begin" /\ run'.i = j /\ run'.all = run.all /\ run'.job = rows[j].id
    BY <1>6 DEF NotRunning
  <2>2. j \in Nat /\ j > run.i /\ j \in DOMAIN rows
    BY <1>1, <1>6 DEF NextReady
  <2>3. \A k \in DOMAIN rows : k > run.i /\ k < j => rows[k].status # "ready"
    BY <1>1, <2>2 DEF NextReady
  <2>4. Current' /\ OneRunning'
    BY <1>1, <1>3, <2>1, <2>2 DEF Current, OneRunning
  <2>5. \A k \in DOMAIN rows : k = j \/ k > j \/ k < j
    BY <1>1, <2>2
  <2>6. Owed'
    BY <1>1, <1>3, <2>1, <2>3, <2>5 DEF Owed
  <2> QED
    BY <1>2, <2>4, <2>6 DEF InOrder
<1> QED
  BY <1>1, <1>4, <1>5, <1>6 DEF NextJob

LEMMA QueueJobInOrder ==
    ASSUME Typed, InOrder, QueueJob
    PROVE  InOrder'
<1> DEFINE new == [id |-> made + 1, status |-> "ready"]
<1>1. new \in Job /\ new.id = made + 1 /\ new.status = "ready" /\ made \in Nat /\ Len(list) \in Nat
  BY Parts DEF Job, Statuses, Typed, TypeOK
<1>2. rows' = Append(rows, new) /\ made' = made + 1 /\ UNCHANGED <<list, run, due>>
  BY DEF QueueJob
<1> HIDE DEF new
<1>3. /\ Len(rows) \in Nat /\ Len(rows') = Len(rows) + 1 /\ DOMAIN rows = 1 .. Len(rows)
      /\ DOMAIN rows' = 1 .. (Len(rows) + 1)
      /\ \A k \in 1 .. Len(rows) : rows'[k] = rows[k]
      /\ rows'[Len(rows) + 1] = new
  <2>1. rows \in Seq(Job)
    BY DEF Typed, TypeOK
  <2>2. rows' \in Seq(Job) /\ Len(rows') = Len(rows) + 1
    BY <1>1, <1>2, <2>1, OneAppended
  <2> QED
    BY <1>1, <1>2, <2>1, OneAppended
<1>4. \A k \in DOMAIN rows' : \/ k \in DOMAIN rows /\ rows'[k] = rows[k]
                              \/ k = Len(rows) + 1 /\ rows'[k] = new
  BY <1>3
<1>5. /\ \A k \in DOMAIN rows : rows[k].id \in 1 .. made
      /\ \A j, k \in DOMAIN rows : rows[j].id = rows[k].id => j = k
      /\ due \subseteq 1 .. made
  BY DEF InOrder, Ids
<1>6. made + 1 \notin 1 .. made /\ \A n \in 1 .. made : n \in 1 .. (made + 1)
  BY <1>1
<1>7. Ids'
  <2>1. \A k \in DOMAIN rows' : rows'[k].id \in 1 .. made'
    BY <1>1, <1>2, <1>4, <1>5, <1>6
  <2>2. \A j, k \in DOMAIN rows' : rows'[j].id = rows'[k].id => j = k
    BY <1>1, <1>4, <1>5, <1>6
  <2> QED
    BY <1>2, <1>5, <1>6, <2>1, <2>2 DEF Ids
<1>8. \A k \in DOMAIN list : k \in DOMAIN rows /\ list[k] = rows[k]
  BY ListIsTable DEF InOrder, Listed
<1>9. Listed' /\ Current'
  BY <1>1, <1>2, <1>3, <1>8 DEF InOrder, Listed, Current
<1>10. OneRunning'
  <2>1. run.at \in {"spawn", "wait", "poll", "done"} => run.job \in 1 .. made
    BY <1>5, <1>8 DEF InOrder, Current
  <2> QED
    BY <1>1, <1>2, <1>4, <1>6, <2>1 DEF InOrder, OneRunning
<1>11. Owed'
  <2>1. \A k \in DOMAIN rows' : rows'[k].id \in due => k \in DOMAIN rows /\ rows'[k] = rows[k]
    BY <1>1, <1>4, <1>5, <1>6
  <2> QED
    BY <1>2, <2>1 DEF InOrder, Owed
<1> QED
  BY <1>7, <1>9, <1>10, <1>11 DEF InOrder
LEMMA TableStep == Typed /\ Table /\ [Next]_vars => Table'
<1> SUFFICES ASSUME Typed, deleted = 0 => InOrder, [Next]_vars, deleted' = 0
             PROVE  InOrder'
  BY DEF Table
<1>1. ASSUME NEW i \in DOMAIN list, Del(i) PROVE InOrder'
  <2>1. InOrder
    BY <1>1 DEF Del
  <2> QED
    BY <1>1, <2>1, RemovedInOrder DEF Del
<1>2. ASSUME NEW i \in DOMAIN list, NEW status \in {"ready", "ok"}, SetStatus(i, status) PROVE InOrder'
  <2>1. InOrder
    BY <1>2 DEF SetStatus
  <2> QED
    BY <1>2, <2>1, SetStatusInOrder
<1>3. ASSUME NEW i \in DOMAIN list, RunNow(i) PROVE InOrder'
  <2>1. InOrder
    BY <1>3 DEF RunNow
  <2> QED
    BY <1>3, <2>1, RunNowInOrder
<1>4. CASE Cleanup
  <2>1. InOrder
    BY <1>4 DEF Cleanup
  <2> QED
    BY <1>4, <2>1, RemovedInOrder DEF Cleanup
<1>5. CASE RunAllJob
  <2>1. InOrder
    BY <1>5 DEF RunAllJob
  <2> QED
    BY <1>5, <2>1, RunAllJobInOrder
<1>6. CASE Begin
  <2>1. InOrder
    BY <1>6 DEF Begin
  <2> QED
    BY <1>6, <2>1, BeginInOrder
<1>7. CASE Spawn
  <2>1. InOrder
    BY <1>7 DEF Spawn
  <2>2. /\ run.at = "spawn" /\ UNCHANGED <<rows, made, due>> /\ list' = rows
        /\ run' = run \/ run' = [run EXCEPT !.at = "wait"]
    BY <1>7 DEF Spawn, Refreshed
  <2>3. run'.at \in {"spawn", "wait"} /\ run'.i = run.i /\ run'.all = run.all /\ run'.job = run.job
    BY <2>2 DEF Typed, TypeOK, Run
  <2> QED
    BY <2>1, <2>2, <2>3, GoesOnInOrder
<1>8. CASE Accept
  <2>1. InOrder /\ run.at = "wait" /\ UNCHANGED <<rows, made, due, list>>
    BY <1>8 DEF Accept
  <2>2. run' = [run EXCEPT !.at = "poll", !.sock = Head(backlog)]
    BY <1>8 DEF Accept
  <2>3. run'.at = "poll" /\ run'.i = run.i /\ run'.all = run.all /\ run'.job = run.job
    BY <2>2 DEF Typed, TypeOK, Run
  <2> QED
    BY <2>1, <2>3, GoesOnInOrder
<1>9. CASE NoConnect
  <2>1. InOrder /\ run.at = "wait" /\ UNCHANGED <<rows, made, due, list>>
    BY <1>9 DEF NoConnect
  <2>2. run'.at = "done" /\ run'.i = run.i /\ run'.all = run.all /\ run'.job = run.job
    BY <1>9, RunChanged DEF NoConnect, Typed, Steps
  <2> QED
    BY <2>1, <2>2, GoesOnInOrder
<1>10. CASE Poll
  <2>1. InOrder /\ run.at = "poll" /\ UNCHANGED <<rows, made, due, list>>
    BY <1>10 DEF Poll
  <2>2. run'.at = "done" /\ run'.i = run.i /\ run'.all = run.all /\ run'.job = run.job
    BY <1>10 DEF Poll, Typed, TypeOK, Run
  <2> QED
    BY <2>1, <2>2, GoesOnInOrder
<1>11. CASE Finish
  <2>1. InOrder
    BY <1>11 DEF Finish
  <2> QED
    BY <1>11, <2>1, FinishInOrder
<1>12. CASE NextJob
  <2>1. InOrder
    BY <1>12 DEF NextJob
  <2> QED
    BY <1>12, <2>1, NextJobInOrder
<1>13. ASSUME NEW s \in DOMAIN slaves, Connect(s) \/ Report(s, "saved") \/ Report(s, "failed") \/ Die(s)
       PROVE  InOrder'
  <2>1. UNCHANGED <<rows, made, list, run, deleted, due>>
    BY <1>13 DEF Connect, Report, Die, Becomes
  <2> QED
    BY <2>1 DEF InOrder, Ids, Listed, Current, OneRunning, Owed
<1>14. CASE QueueJob
  <2>1. InOrder
    BY <1>14 DEF QueueJob
  <2> QED
    BY <1>14, <2>1, QueueJobInOrder
<1>15. ASSUME NEW k \in DOMAIN rows, DeletedElsewhere(k) PROVE InOrder'
  <2>1. deleted' # 0
    BY <1>15 DEF DeletedElsewhere, Typed, TypeOK
  <2> QED
    BY <2>1
<1>16. CASE UNCHANGED vars
  BY <1>16 DEF vars, InOrder, Ids, Listed, Current, OneRunning, Owed
<1> QED
  BY <1>1, <1>2, <1>3, <1>4, <1>5, <1>6, <1>7, <1>8, <1>9, <1>10, <1>11, <1>12, <1>13, <1>14,
     <1>15, <1>16 DEF Next, RunOneJob

LEMMA TableInvariant == Spec => []Table
<1>1. Init => Table
  BY InOrderInit DEF Table
<1> QED
  BY <1>1, TableStep, TypeInvariant, PTL DEF Spec

(* The table says "running" of the job that runOneJob() is at, and of no   *)
(* other, as long as no other window deletes jobs: the index with which    *)
(* the status is written (ADM_runOneJob.cpp) still is that of the job.     *)
THEOREM RunningIsTheRun == Spec => []RunningIsRun
<1>1. Table => RunningIsRun
  BY DEF Table, InOrder, OneRunning, RunningIsRun
<1> QED
  BY <1>1, TableInvariant, PTL

(* runAllJob() leaves none of the jobs out that were ready when it began,  *)
(* whatever the editor queues in the meantime and however the runs end.    *)
THEOREM AllAreRun == Spec => []AllWereRun
<1>1. Table => AllWereRun
  BY DEF Table, InOrder, Owed, AllWereRun
<1> QED
  BY <1>1, TableInvariant, PTL
-----------------------------------------------------------------------------
(* As long as no slave that the window has given up connects, the one that *)
(* it waits for or listens to is the last it has started, and the others   *)
(* have ended.                                                             *)
Silent == \A s \in DOMAIN slaves : slaves[s].late => slaves[s].state \in {"starting", "gone"}

Ended(s) ==
    \/ slaves[s].late /\ slaves[s].state \in {"starting", "gone"}
    \/ ~slaves[s].late /\ slaves[s].state \in {"saved", "failed", "dead"}

OthersEnded == \A s \in DOMAIN slaves : s # Last \/ run.at \notin {"wait", "poll"} => Ended(s)

Awaited ==
    run.at = "wait" =>
        /\ ~slaves[Last].late
        /\ \/ backlog = <<>> /\ slaves[Last].state \in {"starting", "gone"}
           \/ backlog = <<Last>> /\ slaves[Last].state \in {"connected", "dead"}

NoneQueued == run.at # "wait" => backlog = <<>>

Heard ==
    run.at = "poll" =>
        run.sock = Last /\ ~slaves[Last].late /\ slaves[Last].state \in {"working", "saved", "failed", "dead"}

ForTheJob == run.at \in {"wait", "poll", "done"} => Last \in DOMAIN slaves /\ slaves[Last].job = run.job

Verdict ==
    /\ run.at \in {"begin", "spawn", "wait", "poll"} => ~run.ok
    /\ run.at = "done" => (run.ok <=> slaves[Last].state = "saved")

Home ==
    record.run > 0 =>
        /\ record.run \in DOMAIN slaves
        /\ record.run = Last => run.at \notin {"wait", "poll"}
        /\ record.written = record.job /\ slaves[record.run].job = record.job
        /\ record.ok <=> slaves[record.run].state = "saved"

Own == OthersEnded /\ Awaited /\ NoneQueued /\ Heard /\ ForTheJob /\ Verdict /\ Home

Results == deleted = 0 /\ Silent => Own

(* A step that leaves the slaves alone, and the window where it is not     *)
(* concerned with any.                                                     *)
LEMMA ApartOwn ==
    ASSUME Own, UNCHANGED <<slaves, backlog, record>>,
           run.at \notin {"wait", "poll"}, run'.at \notin {"wait", "poll", "done"},
           run'.at \in {"begin", "spawn"} => ~run'.ok
    PROVE  Own'
<1>1. Last' = Last
  BY DEF Last
<1>2. OthersEnded' /\ Awaited' /\ NoneQueued' /\ Heard' /\ ForTheJob'
  BY <1>1 DEF Own, OthersEnded, Ended, Awaited, NoneQueued, Heard, ForTheJob
<1>3. Verdict' /\ Home'
  BY <1>1 DEF Own, Verdict, Home
<1> QED
  BY <1>2, <1>3 DEF Own

LEMMA SameOwn ==
    ASSUME Own, UNCHANGED <<slaves, backlog, record, run>>
    PROVE  Own'
BY DEF Own, OthersEnded, Ended, Awaited, NoneQueued, Heard, ForTheJob, Verdict, Home, Last

LEMMA SpawnOwn ==
    ASSUME Typed, InOrder, Own, Spawn
    PROVE  Own'
<1>1. CASE slaves' = slaves /\ run' = run
  BY <1>1, SameOwn DEF Spawn
<1>2. ASSUME ~(slaves' = slaves /\ run' = run) PROVE Own'
  <2> DEFINE new == [job |-> list'[run.i].id, state |-> "starting", late |-> FALSE]
  <2>1. /\ slaves' = Append(slaves, new) /\ run' = [run EXCEPT !.at = "wait"] /\ run.at = "spawn"
        /\ list' = rows /\ backlog' = backlog /\ record' = record
    BY <1>2 DEF Spawn, Refreshed
  <2>2. list'[run.i].id = run.job
    BY <2>1, ListIsTable DEF InOrder, Current
  <2>3. new.job = run.job /\ new.state = "starting" /\ new.late = FALSE
    BY <2>2
  <2> HIDE DEF new
  <2>4. run'.at = "wait" /\ run'.job = run.job /\ run'.ok = run.ok
    BY <2>1 DEF Typed, TypeOK, Run
  <2>5. slaves \in Seq(Slave) /\ slaves' \in Seq(Slave)
    BY SpawnType DEF Typed, TypeOK
  <2>6. /\ Last \in Nat /\ Last' = Last + 1 /\ DOMAIN slaves = 1 .. Last /\ DOMAIN slaves' = 1 .. (Last + 1)
        /\ slaves'[Last'] = new
        /\ \A s \in DOMAIN slaves : slaves'[s] = slaves[s]
    BY <2>1, <2>5 DEF Last
  <2>7. Last' \in DOMAIN slaves' /\ \A s \in DOMAIN slaves' : s = Last' \/ (s \in DOMAIN slaves /\ s # Last')
    BY <2>6
  <2>8. OthersEnded'
    BY <2>1, <2>6, <2>7 DEF Own, OthersEnded, Ended
  <2>9. Awaited' /\ NoneQueued' /\ Heard' /\ ForTheJob'
    BY <2>1, <2>3, <2>4, <2>6, <2>7 DEF Own, NoneQueued, Awaited, Heard, ForTheJob
  <2>10. Verdict'
    BY <2>1, <2>4 DEF Own, Verdict
  <2>11. Home'
    <3>1. \A s \in DOMAIN slaves : s \in DOMAIN slaves' /\ s # Last'
      BY <2>6
    <3> QED
      BY <2>1, <2>6, <3>1 DEF Own, Home
  <2> QED
    BY <2>8, <2>9, <2>10, <2>11 DEF Own
<1> QED
  BY <1>1, <1>2

LEMMA AcceptOwn ==
    ASSUME Typed, Own, Accept
    PROVE  Own'
<1>1. run.at = "wait" /\ backlog # <<>> /\ backlog' = Tail(backlog) /\ record' = record
  BY DEF Accept
<1>2. backlog = <<Last>> /\ slaves[Last].state \in {"connected", "dead"} /\ ~slaves[Last].late
  BY <1>1 DEF Own, Awaited
<1>3. Head(backlog) = Last /\ backlog' = <<>>
  BY <1>1, <1>2
<1>4. /\ Last \in DOMAIN slaves /\ Last' = Last /\ DOMAIN slaves' = DOMAIN slaves
      /\ slaves'[Last].late = slaves[Last].late /\ slaves'[Last].job = slaves[Last].job
      /\ slaves[Last].state = "connected" => slaves'[Last].state = "working"
      /\ slaves[Last].state # "connected" => slaves'[Last].state = slaves[Last].state
      /\ \A t \in DOMAIN slaves : t # Last => slaves'[t] = slaves[t]
  BY <1>3, Accepted
<1>5. run'.at = "poll" /\ run'.sock = Last /\ run'.job = run.job /\ run'.ok = run.ok
  BY <1>3 DEF Accept, Typed, TypeOK, Run
<1>6. OthersEnded'
  BY <1>1, <1>4, <1>5 DEF Own, OthersEnded, Ended
<1>7. Awaited' /\ NoneQueued' /\ Heard' /\ ForTheJob' /\ Verdict'
  BY <1>1, <1>2, <1>3, <1>4, <1>5 DEF Own, Awaited, NoneQueued, Heard, ForTheJob, Verdict
<1>8. Home'
  BY <1>1, <1>4, <1>5 DEF Own, Home
<1> QED
  BY <1>6, <1>7, <1>8 DEF Own

LEMMA NoConnectOwn ==
    ASSUME Typed, Own, NoConnect
    PROVE  Own'
<1>1. run.at = "wait" /\ backlog = <<>> /\ backlog' = <<>> /\ record' = record
  BY DEF NoConnect
<1>2. Last \in DOMAIN slaves /\ slaves[Last].state \in {"starting", "gone"} /\ slaves[Last].job = run.job
  BY <1>1 DEF Own, Awaited, ForTheJob
<1>3. /\ Last' = Last /\ DOMAIN slaves' = DOMAIN slaves
      /\ \A t \in DOMAIN slaves :
            /\ slaves'[t].state = slaves[t].state /\ slaves'[t].job = slaves[t].job
            /\ t # Last => slaves'[t] = slaves[t]
            /\ t = Last => slaves'[t].late
  BY GivenUp
<1>4. run'.at = "done" /\ run'.job = run.job /\ run'.ok = run.ok
  BY RunChanged DEF NoConnect, Typed, Steps
<1>5. OthersEnded'
  BY <1>1, <1>2, <1>3 DEF Own, OthersEnded, Ended
<1>6. Awaited' /\ NoneQueued' /\ Heard' /\ ForTheJob' /\ Verdict'
  BY <1>1, <1>2, <1>3, <1>4 DEF Own, Awaited, NoneQueued, Heard, ForTheJob, Verdict
<1>7. Home'
  BY <1>1, <1>3, <1>4 DEF Own, Home
<1> QED
  BY <1>5, <1>6, <1>7 DEF Own

LEMMA PollOwn ==
    ASSUME Typed, Own, Poll
    PROVE  Own'
<1>1. /\ run.at = "poll" /\ Ends(slaves[run.sock].state) /\ UNCHANGED <<slaves, backlog, record>>
      /\ run.sock = Last /\ ~slaves[Last].late /\ Last' = Last
  BY DEF Poll, Own, Heard, Last
<1>2. run'.at = "done" /\ run'.job = run.job /\ run'.ok = (slaves[Last].state = "saved")
  <2> DEFINE ok == slaves[Last].state = "saved"
  <2>1. run' = [run EXCEPT !.at = "done", !.ok = ok]
    BY <1>1 DEF Poll, Result
  <2> HIDE DEF ok
  <2>2. run'.at = "done" /\ run'.job = run.job /\ run'.ok = ok
    BY <2>1 DEF Typed, TypeOK, Run
  <2> QED
    BY <2>2 DEF ok
<1>3. slaves[Last].state \in {"saved", "failed", "dead"}
  BY <1>1 DEF Ends
<1>4. OthersEnded'
  BY <1>1, <1>2, <1>3 DEF Own, OthersEnded, Ended
<1>5. Awaited' /\ NoneQueued' /\ Heard' /\ ForTheJob' /\ Verdict'
  BY <1>1, <1>2 DEF Own, Awaited, NoneQueued, Heard, ForTheJob, Verdict
<1>6. Home'
  BY <1>1, <1>2 DEF Own, Home
<1> QED
  BY <1>4, <1>5, <1>6 DEF Own

LEMMA FinishOwn ==
    ASSUME Typed, InOrder, Own, Finish
    PROVE  Own'
<1>1. /\ run.at = "done" /\ UNCHANGED <<slaves, backlog>> /\ run' = [run EXCEPT !.at = "next"]
      /\ record' = [job |-> run.job, written |-> list[run.i].id, run |-> Last, ok |-> run.ok]
      /\ Last' = Last
  BY DEF Finish, Last
<1>2. run'.at = "next"
  BY <1>1, RunChanged DEF Typed, Steps
<1>3. list[run.i].id = run.job
  BY <1>1 DEF InOrder, Current
<1>4. record'.job = run.job /\ record'.written = run.job /\ record'.run = Last /\ record'.ok = run.ok
  BY <1>1, <1>3
<1>5. OthersEnded' /\ Awaited' /\ NoneQueued' /\ Heard' /\ ForTheJob'
  BY <1>1, <1>2 DEF Own, OthersEnded, Ended, Awaited, NoneQueued, Heard, ForTheJob
<1>6. Verdict' /\ Home'
  BY <1>1, <1>2, <1>4 DEF Own, ForTheJob, Verdict, Home
<1> QED
  BY <1>5, <1>6 DEF Own
(* The last slave's step, when the window waits for it or listens to it.   *)
LEMMA LastOwn ==
    ASSUME Typed, Own, NEW from, NEW to \in SlaveStates, Becomes(Last, from, to),
           run.at \in {"wait", "poll"}, Last \in DOMAIN slaves,
           Awaited', Heard', NoneQueued'
    PROVE  Own'
<1>1. /\ DOMAIN slaves' = DOMAIN slaves /\ Last' = Last /\ slaves'[Last].job = slaves[Last].job
      /\ \A t \in DOMAIN slaves : t # Last => slaves'[t] = slaves[t]
      /\ run' = run /\ record' = record
  BY SlaveChanged DEF Becomes, Typed
<1>2. OthersEnded' /\ ForTheJob' /\ Verdict'
  BY <1>1 DEF Own, OthersEnded, Ended, ForTheJob, Verdict
<1>3. Home'
  BY <1>1 DEF Own, Home
<1> QED
  BY <1>2, <1>3 DEF Own

LEMMA ConnectOwn ==
    ASSUME Typed, Own, NEW s \in DOMAIN slaves, Connect(s), Silent'
    PROVE  Own'
<1>1. /\ Becomes(s, "starting", "connected") /\ backlog' = Append(backlog, s) /\ slaves[s].state = "starting"
      /\ run' = run
  BY DEF Connect, Becomes
<1>2. /\ DOMAIN slaves' = DOMAIN slaves /\ slaves'[s].state = "connected" /\ slaves'[s].late = slaves[s].late
      /\ Last' = Last
  BY <1>1, SlaveChanged DEF Becomes, Typed, SlaveStates
<1>3. ~slaves[s].late
  BY <1>2 DEF Silent
<1>4. s = Last /\ run.at \in {"wait", "poll"}
  BY <1>1, <1>3 DEF Own, OthersEnded, Ended
<1>5. run.at = "wait" /\ backlog = <<>>
  BY <1>1, <1>4 DEF Own, Awaited, Heard
<1>6. backlog' = <<Last>>
  BY <1>1, <1>4, <1>5
<1>7. Awaited' /\ Heard' /\ NoneQueued'
  BY <1>1, <1>2, <1>3, <1>4, <1>5, <1>6 DEF Awaited, Heard, NoneQueued
<1> QED
  BY <1>1, <1>4, <1>7, LastOwn DEF SlaveStates

LEMMA ReportOwn ==
    ASSUME Typed, Own, NEW s \in DOMAIN slaves, NEW state \in {"saved", "failed", "dead"},
           Becomes(s, "working", state), backlog' = backlog
    PROVE  Own'
<1>1. slaves[s].state = "working" /\ run' = run /\ state \in SlaveStates
  BY DEF Becomes, SlaveStates
<1>2. /\ DOMAIN slaves' = DOMAIN slaves /\ slaves'[s].state = state /\ slaves'[s].late = slaves[s].late
      /\ Last' = Last
  BY <1>1, SlaveChanged DEF Becomes, Typed
<1>3. s = Last /\ run.at \in {"wait", "poll"}
  BY <1>1 DEF Own, OthersEnded, Ended
<1>4. run.at = "poll"
  BY <1>1, <1>3 DEF Own, Awaited
<1>5. Awaited' /\ Heard' /\ NoneQueued'
  BY <1>1, <1>2, <1>3, <1>4 DEF Own, Awaited, Heard, NoneQueued
<1> QED
  BY <1>1, <1>3, <1>5, LastOwn

LEMMA DieOwn ==
    ASSUME Typed, Own, Silent, NEW s \in DOMAIN slaves, Die(s)
    PROVE  Own'
<1>0. backlog' = backlog /\ run' = run /\ record' = record /\ run.at = run'.at
  BY DEF Die, Becomes
<1>1. CASE Becomes(s, "starting", "gone")
  <2>1. /\ slaves[s].state = "starting" /\ slaves'[s].state = "gone" /\ slaves'[s].late = slaves[s].late
        /\ slaves'[s].job = slaves[s].job
        /\ DOMAIN slaves' = DOMAIN slaves /\ Last' = Last
        /\ \A t \in DOMAIN slaves : t # s => slaves'[t] = slaves[t]
    BY <1>1, SlaveChanged DEF Becomes, Typed, SlaveStates
  <2>2. OthersEnded'
    BY <1>0, <2>1 DEF Own, OthersEnded, Ended
  <2>3. Awaited' /\ NoneQueued' /\ Heard' /\ ForTheJob' /\ Verdict'
    BY <1>0, <2>1 DEF Own, Awaited, NoneQueued, Heard, ForTheJob, Verdict
  <2>4. Home'
    BY <1>0, <2>1 DEF Own, Home
  <2> QED
    BY <2>2, <2>3, <2>4 DEF Own
<1>2. CASE Becomes(s, "connected", "dead")
  <2>1. /\ slaves[s].state = "connected" /\ slaves'[s].state = "dead" /\ slaves'[s].late = slaves[s].late
        /\ Last' = Last
    BY <1>2, SlaveChanged DEF Becomes, Typed, SlaveStates
  <2>2. s = Last /\ run.at \in {"wait", "poll"}
    BY <2>1 DEF Own, OthersEnded, Ended
  <2>3. run.at = "wait" /\ backlog = <<Last>>
    BY <2>1, <2>2 DEF Own, Awaited, Heard
  <2>4. Awaited' /\ Heard' /\ NoneQueued'
    BY <1>0, <2>1, <2>2, <2>3 DEF Own, Awaited, Heard, NoneQueued
  <2> QED
    BY <1>2, <2>2, <2>4, LastOwn DEF SlaveStates
<1>3. CASE Becomes(s, "working", "dead")
  BY <1>0, <1>3, ReportOwn
<1> QED
  BY <1>1, <1>2, <1>3 DEF Die

(* What would disturb the runs cannot be undone.                           *)
LEMMA DisturbedForGood == Typed /\ [Next]_vars /\ Silent' => Silent
<1> SUFFICES ASSUME Typed, [Next]_vars, Silent' PROVE Silent
  OBVIOUS
<1>1. CASE slaves' = slaves
  BY <1>1 DEF Silent
<1>2. ASSUME NEW s \in DOMAIN slaves, NEW from, NEW to \in SlaveStates, Becomes(s, from, to),
             to \in {"starting", "gone"} => from \in {"starting", "gone"}
      PROVE  Silent
  <2>1. /\ DOMAIN slaves' = DOMAIN slaves /\ slaves'[s].state = to /\ slaves'[s].late = slaves[s].late
        /\ slaves[s].state = from
        /\ \A t \in DOMAIN slaves : t # s => slaves'[t] = slaves[t]
    BY <1>2, SlaveChanged DEF Becomes, Typed
  <2> QED
    BY <1>2, <2>1 DEF Silent
<1>3. CASE Accept
  <2>1. /\ DOMAIN slaves' = DOMAIN slaves
        /\ slaves'[Head(backlog)].late = slaves[Head(backlog)].late
        /\ slaves[Head(backlog)].state = "connected" => slaves'[Head(backlog)].state = "working"
        /\ slaves[Head(backlog)].state # "connected" =>
               slaves'[Head(backlog)].state = slaves[Head(backlog)].state
        /\ \A t \in DOMAIN slaves : t # Head(backlog) => slaves'[t] = slaves[t]
    BY <1>3, Accepted
  <2> QED
    BY <2>1 DEF Silent
<1>4. CASE NoConnect
  <2>1. /\ DOMAIN slaves' = DOMAIN slaves
        /\ \A t \in DOMAIN slaves :
              /\ slaves'[t].state = slaves[t].state
              /\ t # Last => slaves'[t] = slaves[t]
              /\ t = Last => slaves'[t].late
    BY <1>4, GivenUp
  <2> QED
    BY <2>1 DEF Silent
<1>5. ASSUME Spawn, slaves' # slaves PROVE Silent
  <2> DEFINE new == [job |-> list'[run.i].id, state |-> "starting", late |-> FALSE]
  <2>1. slaves' = Append(slaves, new)
    BY <1>5 DEF Spawn
  <2> HIDE DEF new
  <2>2. slaves \in Seq(Slave)
    BY DEF Typed, TypeOK
  <2>3. \A s \in DOMAIN slaves : s \in DOMAIN slaves' /\ slaves'[s] = slaves[s]
    BY <2>1, <2>2
  <2> QED
    BY <2>3 DEF Silent
<1>6. ASSUME NEW s \in DOMAIN slaves, Connect(s) PROVE Silent
  BY <1>2, <1>6 DEF Connect, SlaveStates
<1>7. ASSUME NEW s \in DOMAIN slaves, Report(s, "saved") \/ Report(s, "failed") PROVE Silent
  BY <1>2, <1>7 DEF Report, SlaveStates
<1>8. ASSUME NEW s \in DOMAIN slaves, Die(s) PROVE Silent
  BY <1>2, <1>8 DEF Die, SlaveStates
<1>9. CASE UNCHANGED vars
  BY <1>1, <1>9 DEF vars
<1> QED
  BY <1>1, <1>3, <1>4, <1>5, <1>6, <1>7, <1>8, <1>9
     DEF Next, RunOneJob, Del, SetStatus, RunNow, Cleanup, RunAllJob, Begin, Poll, Finish, NextJob,
         QueueJob, DeletedElsewhere

LEMMA ResultsStep == Typed /\ Table /\ Results /\ [Next]_vars => Results'
<1> SUFFICES ASSUME Typed, Table, Results, [Next]_vars, deleted' = 0, Silent'
             PROVE  Own'
  BY DEF Results
<1>0. Silent
  BY DisturbedForGood
<1>1. ASSUME deleted' = deleted PROVE InOrder /\ Own
  BY <1>0, <1>1 DEF Table, Results
<1>2. ASSUME NEW i \in DOMAIN list, Del(i) PROVE Own'
  BY <1>1, <1>2, SameOwn DEF Del
<1>3. ASSUME NEW i \in DOMAIN list, NEW status \in {"ready", "ok"}, SetStatus(i, status) PROVE Own'
  BY <1>1, <1>3, SameOwn DEF SetStatus
<1>4. ASSUME NEW i \in DOMAIN list, RunNow(i) PROVE Own'
  <2>1. run.at = "idle" /\ Own /\ UNCHANGED <<slaves, backlog, record>>
    BY <1>1, <1>4 DEF RunNow, Idle
  <2>2. run'.at = "begin" /\ ~run'.ok
    BY <1>4 DEF RunNow, NotRunning
  <2> QED
    BY <2>1, <2>2, ApartOwn
<1>5. CASE Cleanup
  BY <1>1, <1>5, SameOwn DEF Cleanup
<1>6. CASE RunAllJob
  <2>1. run.at = "idle" /\ Own /\ UNCHANGED <<slaves, backlog, record>>
    BY <1>1, <1>6 DEF RunAllJob, Idle
  <2>2. run'.at = "begin" /\ ~run'.ok
    BY <1>6 DEF RunAllJob, NotRunning
  <2> QED
    BY <2>1, <2>2, ApartOwn
<1>7. CASE Begin
  <2>1. run.at = "begin" /\ Own /\ UNCHANGED <<slaves, backlog, record>>
    BY <1>1, <1>7 DEF Begin
  <2>2. run'.at = "spawn" /\ run'.ok = run.ok
    BY <1>7, RunChanged DEF Begin, Typed, Steps
  <2> QED
    BY <2>1, <2>2, ApartOwn DEF Own, Verdict
<1>8. CASE Spawn
  <2>1. InOrder /\ Own
    BY <1>1, <1>8 DEF Spawn
  <2> QED
    BY <1>8, <2>1, SpawnOwn
<1>9. CASE Accept
  <2>1. Own
    BY <1>1, <1>9 DEF Accept
  <2> QED
    BY <1>9, <2>1, AcceptOwn
<1>10. CASE NoConnect
  <2>1. Own
    BY <1>1, <1>10 DEF NoConnect
  <2> QED
    BY <1>10, <2>1, NoConnectOwn
<1>11. CASE Poll
  <2>1. Own
    BY <1>1, <1>11 DEF Poll
  <2> QED
    BY <1>11, <2>1, PollOwn
<1>12. CASE Finish
  <2>1. InOrder /\ Own
    BY <1>1, <1>12 DEF Finish
  <2> QED
    BY <1>12, <2>1, FinishOwn
<1>13. CASE NextJob
  <2>1. run.at = "next" /\ Own /\ UNCHANGED <<slaves, backlog, record>>
    BY <1>1, <1>13 DEF NextJob
  <2>2. \/ run' = NotRunning \/ run' = run
        \/ \E j \in NextReady(list', run.i, run.all) :
              run' = [NotRunning EXCEPT !.at = "begin", !.i = j, !.all = run.all, !.job = list'[j].id]
    BY <1>13 DEF NextJob
  <2>3. CASE run' = NotRunning
    BY <2>1, <2>3, NotRunningParts, ApartOwn
  <2>4. CASE run' = run
    BY <2>1, <2>4, SameOwn
  <2>5. ASSUME NEW j, run' = [NotRunning EXCEPT !.at = "begin", !.i = j, !.all = run.all, !.job = list'[j].id]
        PROVE  Own'
    <3>1. run'.at = "begin" /\ ~run'.ok
      BY <2>5 DEF NotRunning
    <3> QED
      BY <2>1, <3>1, ApartOwn
  <2> QED
    BY <2>2, <2>3, <2>4, <2>5
<1>14. ASSUME NEW s \in DOMAIN slaves, Connect(s) PROVE Own'
  <2>1. Own
    BY <1>1, <1>14 DEF Connect, Becomes
  <2> QED
    BY <1>14, <2>1, ConnectOwn
<1>15. ASSUME NEW s \in DOMAIN slaves, NEW state \in {"saved", "failed"}, Report(s, state) PROVE Own'
  <2>1. Own
    BY <1>1, <1>15 DEF Report, Becomes
  <2> QED
    BY <1>15, <2>1, ReportOwn DEF Report
<1>16. ASSUME NEW s \in DOMAIN slaves, Die(s) PROVE Own'
  <2>1. Own
    BY <1>1, <1>16 DEF Die, Becomes
  <2> QED
    BY <1>0, <1>16, <2>1, DieOwn
<1>17. CASE QueueJob
  BY <1>1, <1>17, SameOwn DEF QueueJob
<1>18. ASSUME NEW k \in DOMAIN rows, DeletedElsewhere(k) PROVE Own'
  <2>1. deleted' # 0
    BY <1>18 DEF DeletedElsewhere, Typed, TypeOK
  <2> QED
    BY <2>1
<1>19. CASE UNCHANGED vars
  BY <1>1, <1>19, SameOwn DEF vars
<1> QED
  BY <1>2, <1>3, <1>4, <1>5, <1>6, <1>7, <1>8, <1>9, <1>10, <1>11, <1>12, <1>13, <1>14,
     <1>15, <1>16, <1>17, <1>18, <1>19 DEF Next, RunOneJob

LEMMA ResultsInvariant == Spec => []Results
<1>1. Init => Results
  <2> SUFFICES ASSUME Init PROVE Own
    BY DEF Results
  <2>1. slaves = <<>> /\ DOMAIN slaves = {} /\ backlog = <<>> /\ run.at = "idle" /\ record.run = 0
    BY NotRunningParts DEF Init
  <2> QED
    BY <2>1 DEF Own, OthersEnded, Awaited, NoneQueued, Heard, ForTheJob, Verdict, Home
<1> QED
  BY <1>1, ResultsStep, TypeInvariant, TableInvariant, PTL DEF Spec

(* The status that runOneJob() leaves is that of the job it was called     *)
(* for, and says what this job's own slave did, as long as no slave comes  *)
(* too late and no other window deletes jobs (ADM_runOneJob.cpp).          *)
THEOREM ResultIsOwn == Spec => []ResultGoesHome
<1>1. Undisturbed => deleted = 0 /\ Silent
  BY DEF Undisturbed, Silent
<1>2. Typed /\ Results => ResultGoesHome
  <2> SUFFICES ASSUME Typed, Results, record.run > 0, Undisturbed
               PROVE  /\ record.written = record.job /\ slaves[record.run].job = record.job
                      /\ record.ok = (slaves[record.run].state = "saved")
    BY DEF ResultGoesHome
  <2>1. Home
    BY <1>1 DEF Results, Own
  <2>2. record.ok \in BOOLEAN
    BY RunParts DEF Typed
  <2> QED
    BY <2>1, <2>2 DEF Home
<1> QED
  BY <1>2, TypeInvariant, ResultsInvariant, PTL
=============================================================================
