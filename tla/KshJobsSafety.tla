---------------------------- MODULE KshJobsSafety ----------------------------
(***************************************************************************)
(* The safety properties of KshJobs that need more than IInv, each from an *)
(* inductive invariant of its own that KshJobs states.  First what every   *)
(* step does to the structures, in the form of a few relations (Marked,    *)
(* Forked, Begun, Unlisted, Gains ...) that the proofs use instead of the  *)
(* actions; then pointers (AsyncInv), waiting (WaitsInv), zombies (PidsInv *)
(* and ZombiesOver), the terminal (TtyInv), job numbers, states            *)
(* (StatesInv), internal errors (StartedInv), what becomes of finished jobs*)
(* (AccountInv) and what `wait' and $! promise (KnownInv, StopInv).        *)
(***************************************************************************)
EXTENDS KshJobsProofs, FiniteSetTheorems

(* What is not a flag of job k stays as it is, and of its flags only those *)
(* about waiting and the foreground may go, and none but these come.       *)
FlagsOnly(k) == /\ job'[k].num = job[k].num /\ job'[k].state = job[k].state
                /\ job'[k].status = job[k].status /\ job'[k].own = job[k].own
                /\ job'[k].pgrp = job[k].pgrp /\ job'[k].last = job[k].last
Marked(k) ==
    /\ FlagsOnly(k)
    /\ job[k].flags \ {"WAITING", "W_ASYNC", "FG"} \subseteq job'[k].flags
    /\ job'[k].flags \subseteq
           job[k].flags \union {"STARTED", "WAITING", "W_ASYNC", "KNOWN", "REMOVE"}

(* A step that leaves the structures alone marks nothing.                  *)
LEMMA UnmarkedLemma == ASSUME UNCHANGED job PROVE \A k \in JobId : Marked(k)
BY DEF Marked, FlagsOnly

(* An assignment to j->flags that keeps to those flags.                    *)
LEMMA AssignFlags ==
    ASSUME TypeOK, NEW j, NEW F, job' = [job EXCEPT ![j].flags = F],
           F \subseteq job[j].flags
                  \union {"STARTED", "WAITING", "W_ASYNC", "KNOWN", "REMOVE"},
           job[j].flags \ {"WAITING", "W_ASYNC", "FG"} \subseteq F
    PROVE  /\ \A k \in JobId : Marked(k) /\ (k # j => job'[k] = job[k])
           /\ j \in JobId => job'[j].flags = F
<1>1. job \in [JobId -> JobRecord]
  BY DEF TypeOK
<1> SUFFICES ASSUME NEW k \in JobId
             PROVE  /\ Marked(k) /\ (k # j => job'[k] = job[k])
                    /\ k = j => job'[k].flags = F
  OBVIOUS
<1>2. CASE k # j
  BY <1>1, <1>2 DEF Marked, FlagsOnly
<1>3. CASE k = j
  <2>1. job[j] \in JobRecord
    BY <1>1, <1>3
  <2> DEFINE r == [job[j] EXCEPT !.flags = F]
  <2>2. /\ r.num = job[j].num /\ r.state = job[j].state
        /\ r.status = job[j].status /\ r.own = job[j].own
        /\ r.pgrp = job[j].pgrp /\ r.last = job[j].last /\ r.flags = F
    BY <2>1 DEF JobRecord
  <2>3. job'[j] = r
    BY <1>1, <1>3
  <2> HIDE DEF r
  <2> QED BY <1>3, <2>2, <2>3 DEF Marked, FlagsOnly
<1> QED BY <1>2, <1>3

(* j_notify() and j_jobs() only mark jobs for removal.                     *)
LEMMA RemovalMarks == ASSUME TypeOK, NEW S, MarkForRemoval(S)
                      PROVE  \A k \in JobId : /\ Marked(k)
                                              /\ job'[k].flags \subseteq
                                                   job[k].flags \union {"REMOVE"}
                                              /\ job[k].flags \subseteq job'[k].flags
<1> SUFFICES ASSUME NEW k \in JobId
             PROVE  Marked(k) /\ job'[k].flags \subseteq
                                    job[k].flags \union {"REMOVE"}
                    /\ job[k].flags \subseteq job'[k].flags
  OBVIOUS
<1>1. job[k] \in JobRecord
  BY DEF TypeOK
<1> DEFINE F == job[k].flags \union {"REMOVE"}
           r == [job[k] EXCEPT !.flags = F]
<1>2. /\ r.num = job[k].num /\ r.state = job[k].state
      /\ r.status = job[k].status /\ r.own = job[k].own
      /\ r.pgrp = job[k].pgrp /\ r.last = job[k].last /\ r.flags = F
  BY <1>1 DEF JobRecord
<1>3. job'[k] = job[k] \/ job'[k] = r
  BY DEF MarkForRemoval
<1> HIDE DEF r
<1> QED BY <1>2, <1>3 DEF Marked, FlagsOnly

(* Entering j_waitj().                                                     *)
LEMMA WaitingMarks ==
    ASSUME TypeOK, NEW j, NEW c, job' = Waiting(job, j, c)
    PROVE  /\ \A k \in JobId : Marked(k) /\ (k # j => job'[k] = job[k])
           /\ j \in JobId => job'[j].flags = job[j].flags \union WaitFlags(c)
<1> DEFINE F == job[j].flags \union WaitFlags(c)
<1>1. job' = [job EXCEPT ![j].flags = F]
  BY DEF Waiting
<1>2. /\ F \subseteq job[j].flags
                  \union {"STARTED", "WAITING", "W_ASYNC", "KNOWN", "REMOVE"}
      /\ job[j].flags \ {"WAITING", "W_ASYNC", "FG"} \subseteq F
  BY DEF WaitFlags
<1> HIDE DEF F
<1>3. /\ \A k \in JobId : Marked(k) /\ (k # j => job'[k] = job[k])
      /\ j \in JobId => job'[j].flags = F
  BY <1>1, <1>2, AssignFlags
<1> QED BY <1>3 DEF F

(* j_startjob().                                                           *)
LEMMA StartMarks ==
    ASSUME TypeOK, NEW j \in JobId, NEW c, NEW jb \in {job, Waiting(job, j, c)},
           StartJob(jb, j)
    PROVE  /\ \A k \in JobId : Marked(k) /\ (k # j => job'[k] = job[k])
           /\ job'[j].flags = job[j].flags \union {"STARTED"}
                \union (IF jb = job THEN {} ELSE WaitFlags(c))
<1>1. job \in [JobId -> JobRecord] /\ job[j] \in JobRecord
  BY DEF TypeOK
<1> DEFINE F == job[j].flags \union {"STARTED"}
                \union (IF jb = job THEN {} ELSE WaitFlags(c))
<1>2. jb[j].flags \union {"STARTED"} = F
  BY <1>1 DEF Waiting, JobRecord
<1>3. job' = [job EXCEPT ![j].flags = F]
  <2>1. CASE jb = job
    BY <1>2, <2>1 DEF StartJob
  <2>2. CASE jb # job
    <3>1. jb = [job EXCEPT ![j].flags = job[j].flags \union WaitFlags(c)]
      BY <2>2 DEF Waiting
    <3>2. job' = [jb EXCEPT ![j].flags = F]
      BY <1>2 DEF StartJob
    <3> HIDE DEF F
    <3> QED BY <1>1, <3>1, <3>2 DEF JobRecord
  <2> QED BY <2>1, <2>2
<1>4. /\ F \subseteq job[j].flags
                  \union {"STARTED", "WAITING", "W_ASYNC", "KNOWN", "REMOVE"}
      /\ job[j].flags \ {"WAITING", "W_ASYNC", "FG"} \subseteq F
  BY DEF WaitFlags
<1> HIDE DEF F
<1>5. /\ \A k \in JobId : Marked(k) /\ (k # j => job'[k] = job[k])
      /\ job'[j].flags = F
  BY <1>3, <1>4, AssignFlags
<1> QED BY <1>5 DEF F

(* The end of j_waitj().                                                   *)
TakenOff(j, S) == job' = [job EXCEPT ![j].flags = @ \ S]
LEMMA UnwaitingMarks ==
    ASSUME TypeOK, NEW j, NEW S \in SUBSET {"WAITING", "W_ASYNC", "FG"},
           TakenOff(j, S)
    PROVE  /\ \A k \in JobId : Marked(k) /\ (k # j => job'[k] = job[k])
           /\ j \in JobId => job'[j].flags = job[j].flags \ S
<1> DEFINE F == job[j].flags \ S
<1>1. job' = [job EXCEPT ![j].flags = F]
  BY DEF TakenOff
<1>2. /\ F \subseteq job[j].flags
                  \union {"STARTED", "WAITING", "W_ASYNC", "KNOWN", "REMOVE"}
      /\ job[j].flags \ {"WAITING", "W_ASYNC", "FG"} \subseteq F
  OBVIOUS
<1> HIDE DEF F
<1>3. /\ \A k \in JobId : Marked(k) /\ (k # j => job'[k] = job[k])
      /\ j \in JobId => job'[j].flags = F
  BY <1>1, <1>2, AssignFlags
<1> QED BY <1>3 DEF F

(* fork(), and its child that goes on as a shell.                          *)
Forks == ExchildFirst \/ ExchildNext \/ Subshell

(* All other steps but check_job()'s and j_resume()'s only set and clear   *)
(* flags of jobs, and leave what is known of processes alone.              *)
LEMMA MarksLemma ==
    ASSUME IInv, [Next]_vars, ~Reap, ~J_resume, ~Forks
    PROVE  /\ \A k \in JobId : Marked(k)
           /\ UNCHANGED <<owner, pid, nprocs, proc, insub>>
<1>0. TypeOK
  BY DEF IInv
<1>1. CASE HandlerHolds \/ HandlerStarts \/ HandlerReturns
  BY <1>1, UnmarkedLemma DEF HandlerHolds, HandlerStarts, HandlerReturns, procvars, modevars
<1>2. CASE LastProcess
  <2>1. last_job \in JobId
    BY <1>2 DEF LastProcess, IInv, TypeOK, StartInv
  <2>2. \A k \in JobId : Marked(k)
    <3>1. CASE StartJob(Waiting(job, last_job, "fg"), last_job)
      BY <1>0, <2>1, <3>1, StartMarks
    <3>2. CASE StartJob(job, last_job)
      BY <1>0, <2>1, <3>2, StartMarks
    <3> QED BY <1>2, <3>1, <3>2 DEF LastProcess
  <2> QED BY <1>2, <2>2 DEF LastProcess, procvars, modevars
<1>3. CASE Startlast
  <2>1. last_job \in JobId
    BY <1>3 DEF Startlast, IInv, TypeOK, StartInv
  <2>2. StartJob(Waiting(job, last_job, "xxcom"), last_job)
    BY <1>3, <2>1 DEF Startlast, JobId, None
  <2>3. \A k \in JobId : Marked(k)
    BY <1>0, <2>1, <2>2, StartMarks
  <2> QED BY <1>3, <2>3 DEF Startlast, procvars, modevars
<1>4. CASE SetAsync \/ TrimZombies \/ Sigsuspend \/ RemoveMarked
           \/ MarkedRemoved \/ Runtraps \/ J_exit
  BY <1>4, UnmarkedLemma DEF SetAsync, TrimZombies, Sigsuspend, RemoveMarked,
     MarkedRemoved, Runtraps, J_exit, procvars, modevars
<1>5. CASE WaitForAny
  <2>1. \A k \in JobId : Marked(k)
    <3>1. \/ UNCHANGED job
          \/ \E j : job' = Waiting(job, j, "waitall")
      BY <1>5 DEF WaitForAny, BeginWaitj
    <3> QED BY <1>0, <3>1, UnmarkedLemma, WaitingMarks
  <2> QED BY <1>5, <2>1 DEF WaitForAny, procvars, modevars
<1>6. CASE WaitForOperand
  <2>1. \A k \in JobId : Marked(k)
    <3>1. \/ UNCHANGED job
          \/ \E j : job' = Waiting(job, j, cont)
      BY <1>6 DEF WaitForOperand, BeginWaitj
    <3> QED BY <1>0, <3>1, UnmarkedLemma, WaitingMarks
  <2> QED BY <1>6, <2>1 DEF WaitForOperand, procvars, modevars
<1>7. CASE Waitlast
  <2>1. \A k \in JobId : Marked(k)
    <3>1. UNCHANGED job \/ job' = Waiting(job, last_job, "xxcom")
      BY <1>7 DEF Waitlast
    <3> QED BY <1>0, <3>1, UnmarkedLemma, WaitingMarks
  <2> QED BY <1>7, <2>1 DEF Waitlast, procvars, modevars
<1>8. CASE Woken
  <2>1. \A k \in JobId : Marked(k)
    <3>1. UNCHANGED job
          \/ TakenOff(wj, {"WAITING", "W_ASYNC"})
      BY <1>8 DEF Woken, NotWaiting, TakenOff
    <3> QED BY <1>0, <3>1, UnmarkedLemma, UnwaitingMarks
  <2> QED BY <1>8, <2>1 DEF Woken, procvars, modevars
<1>9. CASE WaitjReturns
  <2>1. \A k \in JobId : Marked(k)
    <3>1. TakenOff(wj, {"WAITING", "W_ASYNC", "FG"})
      BY <1>9 DEF WaitjReturns, TakenOff
    <3> QED BY <1>0, <3>1, UnwaitingMarks
  <2> QED BY <1>9, <2>1 DEF WaitjReturns, procvars, modevars
<1>10. CASE J_async
  <2>1. \A k \in JobId : Marked(k)
    <3> DEFINE F == job[async_job].flags \union {"KNOWN"}
    <3>1. job' = [job EXCEPT ![async_job].flags = F]
      BY <1>10 DEF J_async
    <3>2. /\ F \subseteq job[async_job].flags
                  \union {"STARTED", "WAITING", "W_ASYNC", "KNOWN", "REMOVE"}
          /\ job[async_job].flags \ {"WAITING", "W_ASYNC", "FG"} \subseteq F
      OBVIOUS
    <3> HIDE DEF F
    <3> QED BY <1>0, <3>1, <3>2, AssignFlags
  <2> QED BY <1>10, <2>1 DEF J_async, StartCommand, procvars
<1>11. CASE J_jobs \/ J_notify \/ J_exitNotify
  <2>1. \E S : MarkForRemoval(S)
    BY <1>11 DEF J_jobs, J_notify, J_exitNotify
  <2>2. \A k \in JobId : Marked(k)
    BY <1>0, <2>1, RemovalMarks
  <2> QED BY <1>11, <2>2 DEF J_jobs, J_notify, J_exitNotify, StartCommand,
             procvars, modevars
<1>12. CASE WaitCommand \/ SetMonitor \/ Exit \/ ForkFailsFirst
            \/ ForkFailsNext \/ OpenpipeFails
  BY <1>12, UnmarkedLemma DEF WaitCommand, StartCommand, SetMonitor, Exit,
     ForkFailsFirst, ForkFailsNext, OpenpipeFails, procvars, modevars
<1>13. CASE Child \/ Signal \/ UNCHANGED vars
  BY <1>13, UnmarkedLemma DEF Child, Signal, vars, procvars, modevars
<1> QED BY <1>1, <1>2, <1>3, <1>4, <1>5, <1>6, <1>7, <1>8, <1>9, <1>10, <1>11,
           <1>12, <1>13
        DEF Next, Handler, Continue, Command, Failure, Gone, Forks

-----------------------------------------------------------------------------
(* fork() for job j of jb: what becomes of the job and of the process.     *)
Leads(j, jb) == monitor /\ "XXCOM" \notin jb[j].flags /\ jb[j].pgrp = 0
Forked(j, jb, q) ==
    /\ nprocs' = nprocs + 1 /\ nprocs + 1 \in ProcId
    /\ owner' = [owner EXCEPT ![nprocs + 1] = j]
    /\ pid' = [pid EXCEPT ![nprocs + 1] = q]
    /\ proc' = [proc EXCEPT ![nprocs + 1] = NoProc]
    /\ kern' = [kern EXCEPT ![nprocs + 1] = "run"]
    /\ news' = news
    /\ job'[j].num = jb[j].num /\ job'[j].flags = jb[j].flags
    /\ job'[j].state = jb[j].state /\ job'[j].status = jb[j].status
    /\ job'[j].own = jb[j].own /\ job'[j].last = nprocs + 1
    /\ job'[j].pgrp = IF Leads(j, jb) THEN q ELSE jb[j].pgrp
    /\ ttypgrp' = IF Leads(j, jb) /\ "FG" \in jb[j].flags THEN q ELSE ttypgrp
    /\ \A k \in JobId : k # j => job'[k] = jb[k]

(* fork() takes a free process id and does just that.                      *)
LEMMA ForkedLemma ==
    ASSUME TypeOK, nprocs < MaxProcs, NEW jb \in [JobId -> JobRecord],
           NEW j \in JobId, Fork(j, jb)
    PROVE  \E q \in FreePid : q \in Pid /\ Forked(j, jb, q)
<1> DEFINE p == nprocs + 1
<1>1. FreePid \subseteq Pid /\ p \in ProcId
  BY FreePidLemma, BoundsAssumption DEF TypeOK
<1>2. PICK q \in FreePid :
        /\ nprocs' = p
        /\ owner' = [owner EXCEPT ![p] = j]
        /\ pid' = [pid EXCEPT ![p] = q]
        /\ proc' = [proc EXCEPT ![p] = NoProc]
        /\ kern' = [kern EXCEPT ![p] = "run"]
        /\ job' = IF monitor /\ "XXCOM" \notin jb[j].flags /\ jb[j].pgrp = 0
                  THEN [Linked(j, jb, p) EXCEPT ![j].pgrp = q]
                  ELSE Linked(j, jb, p)
        /\ ttypgrp' = IF /\ monitor /\ "XXCOM" \notin jb[j].flags /\ jb[j].pgrp = 0
                         /\ "FG" \in jb[j].flags
                      THEN q ELSE ttypgrp
        /\ UNCHANGED news
  BY DEF Fork
<1>3. jb[j] \in JobRecord
  OBVIOUS
<1> DEFINE l == [jb[j] EXCEPT !.last = p]
           r == [l EXCEPT !.pgrp = q]
           same(x) == /\ x.num = jb[j].num /\ x.flags = jb[j].flags
                      /\ x.state = jb[j].state /\ x.status = jb[j].status
                      /\ x.own = jb[j].own /\ x.last = p
<1>4. same(l) /\ l.pgrp = jb[j].pgrp /\ l \in JobRecord
  BY <1>1, <1>3 DEF JobRecord
<1>5. Linked(j, jb, p) = [jb EXCEPT ![j] = l]
  BY DEF Linked
<1> HIDE DEF l
<1>6. same(r) /\ r.pgrp = q
  BY <1>4 DEF JobRecord
<1> HIDE DEF p
<1>7. CASE Leads(j, jb)
  <2>1. job' = [jb EXCEPT ![j] = r]
    BY <1>2, <1>5, <1>7 DEF Leads
  <2> HIDE DEF r
  <2>2. job'[j] = r /\ \A k \in JobId : k # j => job'[k] = jb[k]
    BY <2>1
  <2>3. /\ job'[j].num = jb[j].num /\ job'[j].flags = jb[j].flags
        /\ job'[j].state = jb[j].state /\ job'[j].status = jb[j].status
        /\ job'[j].own = jb[j].own /\ job'[j].last = p /\ job'[j].pgrp = q
    BY <1>6, <2>2
  <2>4. ttypgrp' = IF "FG" \in jb[j].flags THEN q ELSE ttypgrp
    BY <1>2, <1>7 DEF Leads
  <2>5. Forked(j, jb, q)
    BY <1>1, <1>2, <1>7, <2>2, <2>3, <2>4 DEF Forked, p
  <2> QED BY <1>1, <2>5
<1>8. CASE ~Leads(j, jb)
  <2>1. job' = [jb EXCEPT ![j] = l]
    BY <1>2, <1>5, <1>8 DEF Leads
  <2>2. job'[j] = l /\ \A k \in JobId : k # j => job'[k] = jb[k]
    BY <2>1
  <2>3. /\ job'[j].num = jb[j].num /\ job'[j].flags = jb[j].flags
        /\ job'[j].state = jb[j].state /\ job'[j].status = jb[j].status
        /\ job'[j].own = jb[j].own /\ job'[j].last = p
        /\ job'[j].pgrp = jb[j].pgrp
    BY <1>4, <2>2
  <2>4. ttypgrp' = ttypgrp
    BY <1>2, <1>8 DEF Leads
  <2>5. Forked(j, jb, q)
    BY <1>1, <1>2, <1>8, <2>2, <2>3, <2>4 DEF Forked, p
  <2> QED BY <1>1, <2>5
<1> QED BY <1>7, <1>8

(* The new job of ExchildFirst.                                            *)
Begun(j, n, flags, q) ==
    /\ j = njobs + 1 /\ njobs' = j /\ j \notin Listed /\ Listed' = Listed \union {j}
    /\ last_job' = j /\ NewNumber(n)
    /\ nprocs' = nprocs + 1 /\ nprocs + 1 \in ProcId
    /\ owner' = [owner EXCEPT ![nprocs + 1] = j]
    /\ pid' = [pid EXCEPT ![nprocs + 1] = q]
    /\ proc' = [proc EXCEPT ![nprocs + 1] = NoProc]
    /\ kern' = [kern EXCEPT ![nprocs + 1] = "run"]
    /\ news' = news
    /\ job'[j].num = n /\ job'[j].flags = flags /\ job'[j].state = "running"
    /\ job'[j].own = TRUE /\ job'[j].last = nprocs + 1
    /\ LET leads == monitor /\ "XXCOM" \notin flags
       IN  /\ job'[j].pgrp = IF leads THEN q ELSE 0
           /\ ttypgrp' = IF leads /\ "FG" \in flags THEN q ELSE ttypgrp
    /\ \A k \in JobId : k # j => job'[k] = job[k]
    /\ pc' \in IF "XXCOM" \in flags THEN {"pipe", "comsub"} ELSE {"pipe", "lastproc"}

(* exchild() for a first process does just that.                           *)
LEMMA BegunLemma ==
    ASSUME IInv, ExchildFirst
    PROVE  \E j \in JobId, n \in JobId, flags \in KindFlags, q \in FreePid :
                q \in Pid /\ Begun(j, n, flags, q)
<1> DEFINE j == njobs + 1
           r(n, flags) == [NoJob EXCEPT !.num = n, !.flags = flags, !.own = TRUE]
           new(n, flags) == [job EXCEPT ![j] = r(n, flags)]
<1>1. PICK flags \in KindFlags, more \in More, n \in JobId :
        /\ NewNumber(n)
        /\ njobs' = j
        /\ PastStopped(job_list, new(n, flags), j, job_list')
        /\ last_job' = j
        /\ Fork(j, new(n, flags))
        /\ pc' = NextPc(flags, more)
  BY Zenon DEF ExchildFirst
<1>2. njobs < MaxJobs /\ nprocs < MaxProcs
  BY DEF ExchildFirst
<1>3. j \in JobId /\ j \notin Listed
  <2>1. njobs \in Nat /\ j \in JobId
    BY <1>2, BoundsAssumption DEF IInv, TypeOK, JobId
  <2>2. \A k \in Listed : k \in Nat /\ k <= njobs
    BY ListedLemma DEF IInv, JobInv, JobId
  <2> QED BY <2>1, <2>2
<1>4. flags \in SUBSET JobFlag
  BY DEF KindFlags, JobFlag
<1> DEFINE fields(x) == /\ x.num = n /\ x.flags = flags /\ x.state = "running"
                        /\ x.own = TRUE /\ x.pgrp = 0
<1>5. r(n, flags) \in JobRecord /\ fields(r(n, flags))
  <2> DEFINE r1 == [NoJob EXCEPT !.num = n]
             r2 == [r1 EXCEPT !.flags = flags]
             r3 == [r2 EXCEPT !.own = TRUE]
  <2>1. NoJob \in JobRecord /\ NoJob.state = "running" /\ NoJob.pgrp = 0
    BY DEF NoJob, JobRecord, State
  <2>2. n \in Int
    BY BoundsAssumption DEF JobId
  <2>3. /\ r1 \in JobRecord /\ r1.num = n
        /\ r1.state = "running" /\ r1.pgrp = 0
    BY <2>1, <2>2 DEF JobRecord
  <2> HIDE DEF r1
  <2>4. /\ r2 \in JobRecord /\ r2.flags = flags /\ r2.num = n
        /\ r2.state = "running" /\ r2.pgrp = 0
    BY <1>4, <2>3 DEF JobRecord
  <2> HIDE DEF r2
  <2>5. r3 \in JobRecord /\ fields(r3)
    BY <2>4 DEF JobRecord
  <2>6. r3 = r(n, flags)
    BY Zenon DEF r1, r2
  <2> HIDE DEF r3, fields, r
  <2> QED BY <2>5, <2>6
<1> HIDE DEF r
<1>6. /\ new(n, flags) \in [JobId -> JobRecord]
      /\ fields(new(n, flags)[j])
      /\ \A k \in JobId : k # j => new(n, flags)[k] = job[k]
  BY <1>3, <1>5 DEF IInv, TypeOK
<1> HIDE DEF j, new, fields
<1>7. PICK q \in FreePid : q \in Pid /\ Forked(j, new(n, flags), q)
  BY <1>1, <1>2, <1>3, <1>6, ForkedLemma DEF IInv
<1>8. Listed' = Listed \union {j}
  <2>1. job_list \in Seq(JobId) /\ NoRepeats(job_list)
    BY DEF IInv, TypeOK
  <2> QED BY <1>1, <1>3, <2>1, PastStoppedLemma DEF Listed
<1>9. pc' \in IF "XXCOM" \in flags THEN {"pipe", "comsub"} ELSE {"pipe", "lastproc"}
  BY <1>1 DEF NextPc
<1>10. Leads(j, new(n, flags)) <=> monitor /\ "XXCOM" \notin flags
  BY <1>6 DEF Leads, fields
<1>11. /\ job'[j].num = n /\ job'[j].flags = flags /\ job'[j].state = "running"
       /\ job'[j].own = TRUE /\ job'[j].last = nprocs + 1
       /\ LET leads == monitor /\ "XXCOM" \notin flags
          IN  /\ job'[j].pgrp = IF leads THEN q ELSE 0
              /\ ttypgrp' = IF leads /\ "FG" \in flags THEN q ELSE ttypgrp
       /\ \A k \in JobId : k # j => job'[k] = job[k]
  BY <1>6, <1>7, <1>10 DEF Forked, fields
<1>12. /\ nprocs' = nprocs + 1 /\ nprocs + 1 \in ProcId
       /\ owner' = [owner EXCEPT ![nprocs + 1] = j]
       /\ pid' = [pid EXCEPT ![nprocs + 1] = q]
       /\ proc' = [proc EXCEPT ![nprocs + 1] = NoProc]
       /\ kern' = [kern EXCEPT ![nprocs + 1] = "run"]
       /\ news' = news
  BY <1>7 DEF Forked
<1>13. Begun(j, n, flags, q)
  BY <1>1, <1>3, <1>8, <1>9, <1>11, <1>12 DEF Begun, j
<1> QED BY <1>3, <1>7, <1>13

(* The next process of a pipeline.                                         *)
LEMMA NextForkedLemma ==
    ASSUME IInv, ExchildNext
    PROVE  /\ \E q \in FreePid : q \in Pid /\ Forked(last_job, job, q)
           /\ last_job \in Listed /\ last_job \in JobId /\ Listed' = Listed
           /\ pc = "pipe" /\ pc' \in {"pipe", "comsub", "lastproc"}
           /\ UNCHANGED <<listvars, modevars, waitvars, njobs, pend>>
<1>1. last_job \in Listed /\ last_job \in JobId
  BY ListedLemma DEF ExchildNext, IInv, LastInv, StartInv
<1>2. nprocs < MaxProcs /\ Fork(last_job, job) /\ job \in [JobId -> JobRecord]
  BY DEF ExchildNext, IInv, TypeOK
<1>3. \E q \in FreePid : q \in Pid /\ Forked(last_job, job, q)
  BY <1>1, <1>2, ForkedLemma DEF IInv
<1>4. UNCHANGED <<listvars, modevars, waitvars, njobs, pend>> /\ pc = "pipe"
  BY DEF ExchildNext
<1>5. pc' \in {"pipe", "comsub", "lastproc"}
  BY DEF ExchildNext, NextPc
<1> QED BY <1>1, <1>3, <1>4, <1>5 DEF listvars, Listed

(* In the child nothing but the ownership of the jobs changes.             *)
LEMMA SubshellMarks ==
    ASSUME TypeOK, Subshell
    PROVE  \A k \in JobId :
               /\ job'[k].num = job[k].num /\ job'[k].flags = job[k].flags
               /\ job'[k].state = job[k].state
               /\ job'[k].status = job[k].status
               /\ job'[k].pgrp = job[k].pgrp /\ job'[k].last = job[k].last
               /\ job'[k].own = FALSE
<1> SUFFICES ASSUME NEW k \in JobId
             PROVE  /\ job'[k].num = job[k].num /\ job'[k].flags = job[k].flags
                    /\ job'[k].state = job[k].state
                    /\ job'[k].status = job[k].status
                    /\ job'[k].pgrp = job[k].pgrp /\ job'[k].last = job[k].last
                    /\ job'[k].own = FALSE
  OBVIOUS
<1>1. job[k] \in JobRecord
  BY DEF TypeOK
<1>2. job'[k] = [job[k] EXCEPT !.own = FALSE]
  BY DEF Subshell
<1> QED BY <1>1, <1>2 DEF JobRecord

(* What becomes of the list and of the pointers into it: jobs leave it one *)
(* at a time, through remove_job(), and none that is still worked on.      *)
Unlisted(j) == /\ j \in Listed
               /\ Removed(job, j)
               /\ j = wj' => TrimZombies /\ j # async_job
Unchanged == /\ Listed' = Listed
             /\ last_job' \in {last_job, None}
             /\ async_job' \in {async_job, None}
             /\ nzombie' = nzombie \/ Subshell \/ (TrimZombies /\ OldZombies = {})

(* The steps that call remove_job(), or put_job() for a new job.           *)
Removes == \/ Reap \/ SetAsync \/ ForkFailsNext \/ TrimZombies \/ RemoveMarked
           \/ WaitjReturns

(* No other step changes which jobs are listed.                            *)
LEMMA KeptLemma ==
    ASSUME IInv, [Next]_vars, ~Removes, ~ExchildFirst
    PROVE  Unchanged
<1>1. CASE \/ HandlerHolds \/ HandlerStarts \/ HandlerReturns \/ LastProcess
           \/ Startlast \/ Waitlast \/ WaitForAny \/ WaitForOperand \/ Sigsuspend
           \/ Woken \/ MarkedRemoved \/ Runtraps \/ J_exit \/ J_exitNotify
           \/ WaitCommand \/ J_async \/ J_jobs \/ J_notify \/ SetMonitor \/ Exit
           \/ OpenpipeFails \/ Child \/ Signal \/ Gone \/ UNCHANGED vars
  <2>1. UNCHANGED listvars
    <3>1. CASE \/ HandlerHolds \/ HandlerStarts \/ HandlerReturns \/ LastProcess
               \/ Startlast \/ Waitlast \/ WaitForAny \/ WaitForOperand
               \/ Sigsuspend \/ Woken \/ MarkedRemoved \/ Runtraps
      BY <3>1 DEF HandlerHolds, HandlerStarts, HandlerReturns, LastProcess,
         Startlast, Waitlast, WaitForAny, WaitForOperand, Sigsuspend, Woken,
         MarkedRemoved, Runtraps
    <3>2. CASE \/ J_exit \/ J_exitNotify \/ WaitCommand \/ J_async \/ J_jobs
               \/ J_notify \/ SetMonitor \/ Exit \/ OpenpipeFails \/ Child
               \/ Signal \/ Gone \/ UNCHANGED vars
      BY <3>2 DEF J_exit, J_exitNotify, WaitCommand, J_async, J_jobs, J_notify,
         SetMonitor, Exit, OpenpipeFails, Child, Signal, Gone, listvars, vars
    <3> QED BY <1>1, <3>1, <3>2
  <2> QED BY <2>1 DEF listvars, Unchanged, Listed
<1>2. CASE ExchildNext
  BY <1>2, NextForkedLemma DEF Unchanged, listvars
<1>3. CASE ForkFailsFirst
  BY <1>3 DEF ForkFailsFirst, Unchanged, Listed
<1>4. CASE Subshell
  BY <1>4 DEF Subshell, Unchanged, Listed
<1>5. CASE J_resume
  <2>1. PICK j \in Listed, bg \in BOOLEAN : Resumes(j, bg)
    BY <1>5, ResumesLemma
  <2>2. Listed' = Listed /\ async_job' \in {async_job, None}
    BY <2>1 DEF Resumes
  <2>3. UNCHANGED <<last_job, nzombie>>
    BY <1>5 DEF J_resume
  <2> QED BY <2>2, <2>3 DEF Unchanged
<1> QED BY <1>1, <1>2, <1>3, <1>4, <1>5
        DEF Next, Handler, Continue, Command, Failure, Removes

(* Every step but those of exchild(), check_job() and j_set_async() takes  *)
(* at most one job off the list.                                           *)
LEMMA ListLemma ==
    ASSUME IInv, [Next]_vars, ~Reap, ~ExchildFirst, ~SetAsync
    PROVE  Unchanged \/ \E j \in JobId : Unlisted(j)
<1>0. /\ TypeOK /\ LastInv /\ job_list \in Seq(JobId) /\ NoRepeats(job_list)
      /\ Jobs(job_list) = Listed
  BY DEF IInv, TypeOK, Listed
<1>1. CASE ~Removes
  BY <1>1, KeptLemma
<1>2. CASE ForkFailsNext
  <2>1. /\ last_job \in Listed /\ last_job \in JobId
        /\ wj' = None /\ RemoveJob(job_list, job, last_job)
    BY <1>2, ListedLemma DEF ForkFailsNext, IInv, LastInv, WaitInv, waitvars
  <2>2. Removed(job, last_job)
    BY <1>0, <2>1, RemoveLemma
  <2> QED BY <2>1, <2>2 DEF Unlisted, JobId, None
<1>3. CASE TrimZombies
  <2>1. CASE \E j \in OldZombies : RemoveJob(job_list, job, j)
    <3>1. PICK j \in OldZombies : RemoveJob(job_list, job, j)
      BY <2>1
    <3>2. j \in Listed /\ j # async_job /\ j \in JobId
      BY <1>0, ListedLemma DEF OldZombies
    <3>3. Removed(job, j)
      BY <1>0, <3>1, <3>2, RemoveLemma
    <3> QED BY <1>3, <3>2, <3>3 DEF Unlisted
  <2>2. CASE ~\E j \in OldZombies : RemoveJob(job_list, job, j)
    <3>1. /\ UNCHANGED <<job_list, last_job, async_job>>
          /\ nzombie' = nzombie \/ OldZombies = {}
      BY <1>3, <2>2 DEF TrimZombies, listvars
    <3> QED BY <1>3, <3>1 DEF Unchanged, Listed
  <2> QED BY <2>1, <2>2
<1>4. CASE RemoveMarked
  <2>1. PICK i \in ToRemove : RemoveJob(job_list, job, job_list[i])
    BY <1>4 DEF RemoveMarked
  <2>2. job_list[i] \in Listed /\ job_list[i] \in JobId
    BY <1>0, ListedLemma DEF ToRemove
  <2>3. Removed(job, job_list[i])
    BY <1>0, <2>1, <2>2, RemoveLemma
  <2>4. wj' = None
    BY <1>4 DEF RemoveMarked, waitvars, IInv, WaitInv
  <2> QED BY <2>2, <2>3, <2>4 DEF Unlisted, JobId, None
<1>5. CASE WaitjReturns
  <2>1. wj \in Listed /\ wj \in JobId /\ wj' = None
    BY <1>0, <1>5, ListedLemma DEF WaitjReturns, IInv, WaitInv
  <2>2. RemoveJob(job_list, job', wj) \/ KeepList(job_list)
    BY <1>5 DEF WaitjReturns
  <2>3. CASE RemoveJob(job_list, job', wj)
    <3>1. Removed(job', wj)
      BY <1>0, <2>1, <2>3, RemoveLemma
    <3>2. TakenOff(wj, {"WAITING", "W_ASYNC", "FG"})
      BY <1>5 DEF WaitjReturns, TakenOff
    <3>3. Marked(wj) /\ job'[wj].flags = job[wj].flags \ {"WAITING", "W_ASYNC", "FG"}
      BY <1>0, <2>1, <3>2, UnwaitingMarks
    <3>4. Removed(job, wj)
      BY <3>1, <3>3 DEF Removed, Marked, FlagsOnly
    <3> QED BY <2>1, <3>4 DEF Unlisted, JobId, None
  <2>4. CASE KeepList(job_list)
    BY <2>4 DEF KeepList, Unchanged, Listed
  <2> QED BY <2>2, <2>3, <2>4
<1> QED BY <1>1, <1>2, <1>3, <1>4, <1>5 DEF Removes

(* j_set_async() removes the last job when nobody asked for it, and makes  *)
(* the started job $!.                                                     *)
LEMMA SetAsyncList ==
    ASSUME IInv, SetAsync
    PROVE  /\ UNCHANGED job
           /\ LET gone == Unknown /\ async_job \in Listed
                  started == "STARTED" \in job[wj].flags
              IN  /\ Listed' = IF gone THEN Listed \ {async_job} ELSE Listed
                  /\ nzombie' = IF gone /\ job[async_job].own
                                THEN nzombie - 1 ELSE nzombie
                  /\ last_job' = IF gone /\ last_job = async_job
                                 THEN None ELSE last_job
                  /\ async_job' = IF started THEN wj
                                  ELSE IF gone THEN None ELSE async_job
                  /\ pc' = IF started THEN "trim" ELSE "ready"
                  /\ wj' = IF started THEN wj ELSE None
<1> DEFINE gone == Unknown /\ async_job \in Listed
<1>1. job_list \in Seq(JobId) /\ NoRepeats(job_list)
  BY DEF IInv, TypeOK
<1>2. job_list' = IF gone THEN Without(job_list, async_job) ELSE job_list
  BY DEF SetAsync
<1>3. Listed' = IF gone THEN Listed \ {async_job} ELSE Listed
  BY <1>1, <1>2, WithoutLemma DEF Listed
<1> QED BY <1>3 DEF SetAsync

(* Only check_job() makes zombies, and no step unmakes one that stays in   *)
(* the list.                                                               *)
LEMMA ZombieLemma ==
    ASSUME IInv, [Next]_vars, ~Reap
    PROVE  \A k \in Listed' : "ZOMBIE" \in job'[k].flags <=>
                                  k \in Listed /\ "ZOMBIE" \in job[k].flags
<1>1. CASE ExchildFirst
  <2>1. PICK j \in JobId, n \in JobId, flags \in KindFlags, q \in FreePid :
                q \in Pid /\ Begun(j, n, flags, q)
    BY <1>1, BegunLemma
  <2>2. /\ j \notin Listed /\ Listed' = Listed \union {j}
        /\ job'[j].flags = flags
        /\ \A k \in JobId : k # j => job'[k] = job[k]
    BY <2>1 DEF Begun
  <2>3. "ZOMBIE" \notin flags
    BY DEF KindFlags
  <2> QED BY <2>2, <2>3, ListedLemma DEF IInv
<1>2. CASE ~ExchildFirst
  <2>1. Listed' \subseteq Listed
    <3>1. CASE SetAsync
      BY <3>1, SetAsyncList
    <3>2. CASE ~SetAsync
      BY <1>2, <3>2, ListLemma DEF Unchanged, Unlisted, Removed
    <3> QED BY <3>1, <3>2
  <2>2. \A k \in Listed : "ZOMBIE" \in job'[k].flags <=> "ZOMBIE" \in job[k].flags
    <3>0. Listed \subseteq JobId
      BY ListedLemma DEF IInv
    <3>1. CASE ExchildNext
      BY <3>0, <3>1, NextForkedLemma DEF Forked
    <3>2. CASE Subshell
      BY <3>0, <3>2, SubshellMarks DEF IInv
    <3>3. CASE J_resume
      <4>1. PICK j \in Listed, bg \in BOOLEAN : Resumes(j, bg)
        BY <3>3, ResumesLemma
      <4> QED BY <3>0, <4>1 DEF Resumes, ResumedFlags
    <3>4. CASE ~J_resume /\ ~Forks
      BY <3>0, <3>4, MarksLemma DEF Marked
    <3> QED BY <1>2, <3>1, <3>2, <3>3, <3>4 DEF Forks
  <2> QED BY <2>1, <2>2
<1> QED BY <1>1, <1>2

-----------------------------------------------------------------------------
(* No pointer into the job list dangles while FMONITOR is left alone.      *)
LEMMA MonitorLemma ==
    ASSUME "toggle" \notin Env, [Next]_vars
    PROVE  monitor' = monitor \/ ~monitor'
<1>1. CASE Handler
  BY <1>1 DEF Handler, HandlerHolds, HandlerStarts, HandlerReturns, Reap, modevars
<1>2. CASE Continue
  BY <1>2 DEF Continue, ExchildNext, LastProcess, Startlast, SetAsync, TrimZombies,
     WaitForAny, WaitForOperand, Sigsuspend, Woken, WaitjReturns, RemoveMarked,
     MarkedRemoved, Runtraps, J_exit, J_exitNotify, modevars
<1>3. CASE Command
  BY <1>3 DEF Command, ExchildFirst, WaitCommand, J_resume, J_async, J_jobs,
     J_notify, SetMonitor, Subshell, Exit, StartCommand, modevars
<1>4. CASE Failure \/ Waitlast \/ Child \/ Signal \/ UNCHANGED vars
  BY <1>4 DEF Failure, ForkFailsFirst, ForkFailsNext, OpenpipeFails, Waitlast,
     Child, Signal, StartCommand, modevars, vars
<1> QED BY <1>1, <1>2, <1>3, <1>4 DEF Next, Gone

(* Who enters or leaves the loops of j_set_async().                        *)
LEMMA AsyncSteps ==
    ASSUME [Next]_vars, IInv, pc' \in {"setasync", "trim"}
    PROVE  LastProcess \/ J_resume \/ SetAsync \/ TrimZombies
           \/ UNCHANGED <<listvars, job, wj, pc>>
<1>1. CASE Handler
  BY <1>1 DEF Handler, HandlerHolds, HandlerStarts, HandlerReturns, Reap, Unblocked,
     AfterHandler, IInv, HandlerInv
<1>2. CASE Continue
  BY <1>2 DEF Continue, ExchildNext, NextPc, Startlast, BeginWaitj,
     WaitForAny, WaitForOperand, Sigsuspend, Woken, WaitjReturns, RemoveMarked,
     MarkedRemoved, Runtraps, J_exit, J_exitNotify, AfterOperand, AfterError
<1>3. CASE Command
  BY <1>3 DEF Command, ExchildFirst, NextPc, WaitCommand, J_async, J_jobs,
     J_notify, SetMonitor, Subshell, Exit, StartCommand
<1>4. CASE Failure \/ Waitlast
  BY <1>4 DEF Failure, ForkFailsFirst, ForkFailsNext, OpenpipeFails, Waitlast,
     AfterError
<1>5. CASE Child \/ Signal \/ UNCHANGED vars
  BY <1>5 DEF Child, Signal, listvars, waitvars, vars
<1> QED BY <1>1, <1>2, <1>3, <1>4, <1>5 DEF Next, Gone

(* Every step keeps AsyncInv: jobs leave the list through remove_job()     *)
(* only, which resets the pointers, and check_job() removes no job waited  *)
(* for.                                                                    *)
LEMMA AsyncStep ==
    ASSUME "toggle" \notin Env, IInv, IInv', AsyncInv, [Next]_vars
    PROVE  AsyncInv'
<1>0. Listed \subseteq JobId /\ Listed' \subseteq JobId
  <2>1. TypeOK /\ TypeOK'
    BY DEF IInv
  <2> QED BY <2>1, ListedLemma DEF TypeOK, Listed, Jobs
<1>1. CASE Reap
  <2>1. /\ hnd /\ UNCHANGED <<wj, pc, monitor>>
    BY <1>1 DEF Reap, waitvars, modevars
  <2>2. pc \notin {"setasync", "trim", "wenter", "woke"}
    BY <2>1 DEF IInv, HandlerInv
  <2>3. PICK c \in news : Reaps(c)
    BY <1>1, ReapedLemma
  <2>4. \/ UNCHANGED <<job, last_job, async_job>> /\ Listed' = Listed
        \/ \E j \in Listed : \E pr : Checked(j, pr)
    BY <2>3 DEF Reaps, KeepList
  <2>5. NoDangling'
    <3>1. CASE UNCHANGED <<job, last_job, async_job>> /\ Listed' = Listed
      BY <3>1 DEF NoDangling, AsyncInv
    <3>2. ASSUME NEW j, NEW pr, Checked(j, pr) PROVE NoDangling'
      <4>1. \/ Removed(job, j)
            \/ UNCHANGED <<last_job, async_job>> /\ Listed' = Listed
        BY <3>2 DEF Checked
      <4>2. CASE Removed(job, j)
        BY <4>2 DEF Removed, NoDangling, AsyncInv
      <4> QED BY <4>1, <4>2 DEF NoDangling, AsyncInv
    <3> QED BY <2>4, <3>1, <3>2
  <2>6. WaitedJobListed'
    BY <2>1, <2>2 DEF WaitedJobListed, IInv, WaitInv
  <2>7. \A j \in Listed' : "ZOMBIE" \in job'[j].flags => ~monitor'
    BY <1>0, <2>1, <2>4 DEF Checked, Closed, Removed, Unwatched, AsyncInv
  <2> QED BY <2>1, <2>2, <2>5, <2>6, <2>7 DEF AsyncInv
<1>2. CASE ~Reap
  <2>1. NoDangling'
    <3>1. CASE ExchildFirst
      <4>1. PICK j \in JobId, n \in JobId, flags \in KindFlags, q \in FreePid :
                q \in Pid /\ Begun(j, n, flags, q)
        BY <3>1, BegunLemma
      <4>2. last_job' = j /\ Listed' = Listed \union {j}
        BY <4>1 DEF Begun
      <4>3. async_job' = async_job
        BY <3>1 DEF ExchildFirst
      <4> QED BY <4>2, <4>3 DEF NoDangling, AsyncInv
    <3>2. CASE SetAsync
      BY <3>2, SetAsyncList DEF NoDangling, AsyncInv, WaitedJobListed, SetAsync,
         Unknown, AsyncZombie
    <3>3. CASE ~ExchildFirst /\ ~SetAsync
      BY <1>2, <3>3, ListLemma DEF Unchanged, Unlisted, Removed, NoDangling, AsyncInv
    <3> QED BY <3>1, <3>2, <3>3
  <2>2. \A j \in Listed' : "ZOMBIE" \in job'[j].flags => ~monitor'
    BY <1>2, ZombieLemma, MonitorLemma DEF AsyncInv
  <2>3. pc' = "setasync" => "ZOMBIE" \notin job'[wj'].flags /\ wj' \in Listed'
    <3>1. CASE pc' = "setasync" /\ LastProcess
      <4>1. /\ wj' = last_job /\ last_job \in Listed
            /\ "STARTED" \notin job[last_job].flags
        BY <3>1 DEF LastProcess, IInv, StartInv, LastInv
      <4>2. Listed' = Listed
        BY <3>1 DEF LastProcess, listvars, Listed
      <4>3. "ZOMBIE" \notin job[last_job].flags
        BY <4>1 DEF IInv, JobInv
      <4> QED BY <1>2, <4>1, <4>2, <4>3, ZombieLemma
    <3>2. CASE J_resume
      <4>1. PICK j \in Listed, bg \in BOOLEAN : Resumes(j, bg)
        BY <3>2, ResumesLemma
      <4>2. wj' = j /\ Listed' = Listed
        BY <4>1 DEF Resumes
      <4>3. "ZOMBIE" \notin job[j].flags
        BY <3>2 DEF J_resume, AsyncInv
      <4> QED BY <1>2, <4>2, <4>3, ZombieLemma
    <3>3. CASE pc' = "setasync" /\ UNCHANGED <<listvars, job, wj, pc>>
      BY <3>3 DEF AsyncInv, WaitedJobListed, Listed, listvars, IInv, WaitInv
    <3>4. CASE pc' = "setasync" /\ (SetAsync \/ TrimZombies)
      BY <3>4 DEF SetAsync, TrimZombies
    <3> QED BY <3>1, <3>2, <3>3, <3>4, AsyncSteps
  <2>4. pc' = "trim" => async_job' = wj' /\ wj' \in Listed'
    <3>1. CASE SetAsync
      BY <3>1, SetAsyncList DEF AsyncInv, WaitedJobListed, SetAsync, Unknown,
         AsyncZombie, IInv, WaitInv
    <3>2. CASE pc' = "trim" /\ TrimZombies
      <4>1. pc = "trim" /\ wj' = wj
        BY <3>2 DEF TrimZombies
      <4>2. wj \in Listed /\ async_job = wj /\ wj # None
        BY <4>1 DEF AsyncInv, WaitedJobListed, IInv, WaitInv
      <4>3. \E j \in OldZombies : RemoveJob(job_list, job, j)
        BY <3>2 DEF TrimZombies
      <4>4. async_job' = async_job
        BY <4>3 DEF RemoveJob, OldZombies
      <4>5. wj \in Listed'
        BY <2>1, <4>1, <4>2, <4>4 DEF NoDangling
      <4> QED BY <4>1, <4>2, <4>4, <4>5
    <3>3. CASE pc' = "trim" /\ UNCHANGED <<listvars, job, wj, pc>>
      BY <3>3 DEF AsyncInv, WaitedJobListed, Listed, listvars, IInv, WaitInv
    <3>4. CASE pc' = "trim" /\ (LastProcess \/ J_resume)
      BY <3>4 DEF LastProcess, J_resume
    <3> QED BY <3>1, <3>2, <3>3, <3>4, AsyncSteps
  <2>5. WaitedJobListed'
    BY <2>3, <2>4 DEF WaitedJobListed, IInv, WaitInv
  <2> QED BY <2>1, <2>2, <2>3, <2>4, <2>5 DEF AsyncInv
<1> QED BY <1>1, <1>2

(* AsyncInv (no dangling pointer, the job waited for is listed,            *)
(* j_set_async() never works on a zombie) is invariant unless FMONITOR is  *)
(* changed.                                                                *)
THEOREM AsyncInvariance == "toggle" \notin Env => (Spec => []AsyncInv)
<1> SUFFICES ASSUME "toggle" \notin Env PROVE Spec => []AsyncInv
  OBVIOUS
<1>1. Init => AsyncInv
  BY DEF Init, AsyncInv, NoDangling, WaitedJobListed, Listed, Jobs, Listed
<1>2. IInv /\ IInv' /\ AsyncInv /\ [Next]_vars => AsyncInv'
  BY AsyncStep
<1> QED BY <1>1, <1>2, Invariance, PTL DEF Spec

(* The job list keeps last_job and async_job up to date.                   *)
THEOREM NeverDangling == "toggle" \notin Env => (Spec => []NoDangling)
<1> SUFFICES ASSUME "toggle" \notin Env PROVE Spec => []NoDangling
  OBVIOUS
<1>1. AsyncInv => NoDangling
  BY DEF AsyncInv
<1> QED BY <1>1, AsyncInvariance, PTL

(* The handler never frees the job that is waited for.                     *)
THEOREM WaitedJobStays == "toggle" \notin Env => (Spec => []WaitedJobListed)
<1> SUFFICES ASSUME "toggle" \notin Env PROVE Spec => []WaitedJobListed
  OBVIOUS
<1>1. AsyncInv => WaitedJobListed
  BY DEF AsyncInv
<1> QED BY <1>1, AsyncInvariance, PTL

-----------------------------------------------------------------------------
(* Who is waited for.                                                      *)

(* No step but fork()'s child changes whose child a job is.                *)
LEMMA OwnLemma ==
    ASSUME IInv, [Next]_vars, ~Subshell
    PROVE  \A k \in Listed' : IF k \in Listed THEN job'[k].own = job[k].own
                              ELSE job'[k].own /\ ExchildFirst
<1>0. Listed \subseteq JobId
  BY ListedLemma DEF IInv
<1>1. CASE ExchildFirst
  <2>1. PICK j \in JobId, n \in JobId, flags \in KindFlags, q \in FreePid :
                q \in Pid /\ Begun(j, n, flags, q)
    BY <1>1, BegunLemma
  <2>2. /\ j \notin Listed /\ Listed' = Listed \union {j} /\ job'[j].own
        /\ \A k \in JobId : k # j => job'[k] = job[k]
    BY <2>1 DEF Begun
  <2> QED BY <1>0, <1>1, <2>2
<1>2. CASE Reap
  <2>1. PICK c \in news : Reaps(c)
    BY <1>2, ReapedLemma
  <2>2. \/ UNCHANGED job /\ Listed' = Listed
        \/ \E j \in Listed : \E pr : Checked(j, pr)
    BY <2>1 DEF Reaps
  <2>3. ASSUME NEW j \in Listed, NEW pr, Checked(j, pr)
        PROVE  /\ Listed' \subseteq Listed
               /\ \A k \in JobId : job'[k].own = job[k].own
    <3>1. Listed' \subseteq Listed
      BY <2>3 DEF Checked, Removed
    <3>2. UNCHANGED job \/ \E num, flags : Closed(j, pr, num, flags)
      BY <2>3 DEF Checked
    <3> QED BY <3>1, <3>2 DEF Closed
  <2> QED BY <1>0, <2>2, <2>3
<1>3. CASE ~Reap /\ ~ExchildFirst
  <2>1. Listed' \subseteq Listed
    <3>1. CASE SetAsync
      BY <3>1, SetAsyncList
    <3>2. CASE ~SetAsync
      BY <1>3, <3>2, ListLemma DEF Unchanged, Unlisted, Removed
    <3> QED BY <3>1, <3>2
  <2>2. \A k \in Listed : job'[k].own = job[k].own
    <3>1. CASE ExchildNext
      BY <1>0, <3>1, NextForkedLemma DEF Forked
    <3>2. CASE J_resume
      <4>1. PICK j \in Listed, bg \in BOOLEAN : Resumes(j, bg)
        BY <3>2, ResumesLemma
      <4> QED BY <1>0, <4>1 DEF Resumes
    <3>3. CASE ~J_resume /\ ~Forks
      BY <1>0, <1>3, <3>3, MarksLemma DEF Marked, FlagsOnly
    <3> QED BY <1>3, <3>1, <3>2, <3>3 DEF Forks
  <2> QED BY <2>1, <2>2
<1> QED BY <1>1, <1>2, <1>3

(* Who marks a job as waited for: j_waitj() when it is entered, and        *)
(* startlast().                                                            *)
Gains(k) == "WAITING" \in job'[k].flags =>
                \/ "WAITING" \in job[k].flags
                \/ k = wj' /\ pc' = "wenter"
                \/ k = last_job' /\ pc' = "reading"

(* A job is marked as waited for when j_waitj() is entered for it and by   *)
(* startlast(), and never before.                                          *)
LEMMA GainsLemma ==
    ASSUME IInv, [Next]_vars
    PROVE  \A k \in Listed' : /\ Gains(k)
                              /\ k \notin Listed => "WAITING" \notin job'[k].flags
<1>0. Listed \subseteq JobId /\ TypeOK
  BY ListedLemma DEF IInv
<1>1. CASE ExchildFirst
  <2>1. PICK j \in JobId, n \in JobId, flags \in KindFlags, q \in FreePid :
                q \in Pid /\ Begun(j, n, flags, q)
    BY <1>1, BegunLemma
  <2>2. /\ j \notin Listed /\ Listed' = Listed \union {j}
        /\ job'[j].flags = flags
        /\ \A k \in JobId : k # j => job'[k] = job[k]
    BY <2>1 DEF Begun
  <2>3. "WAITING" \notin flags
    BY DEF KindFlags
  <2> QED BY <1>0, <2>2, <2>3 DEF Gains
<1>2. CASE Reap
  <2>1. PICK c \in news : Reaps(c)
    BY <1>2, ReapedLemma
  <2>2. \/ UNCHANGED job /\ Listed' = Listed
        \/ \E j \in Listed : \E pr : Checked(j, pr)
    BY <2>1 DEF Reaps
  <2>3. ASSUME NEW j \in Listed, NEW pr, Checked(j, pr)
        PROVE  /\ Listed' \subseteq Listed
               /\ \A k \in Listed : Gains(k)
    <3>1. Listed' \subseteq Listed
      BY <2>3 DEF Checked, Removed
    <3>2. \/ UNCHANGED job
          \/ \E num : \/ Closed(j, pr, num, job[j].flags)
                      \/ Closed(j, pr, num, job[j].flags \union {"ZOMBIE"})
      BY <2>3 DEF Checked
    <3> QED BY <1>0, <3>1, <3>2 DEF Closed, Gains
  <2> QED BY <1>0, <2>2, <2>3 DEF Gains
<1>3. CASE ~Reap /\ ~ExchildFirst
  <2>1. Listed' \subseteq Listed
    <3>1. CASE SetAsync
      BY <3>1, SetAsyncList
    <3>2. CASE ~SetAsync
      BY <1>3, <3>2, ListLemma DEF Unchanged, Unlisted, Removed
    <3> QED BY <3>1, <3>2
  <2>2. \A k \in Listed : Gains(k)
    <3>1. CASE \/ HandlerHolds \/ HandlerStarts \/ HandlerReturns \/ SetAsync
               \/ TrimZombies \/ Sigsuspend \/ RemoveMarked \/ MarkedRemoved
               \/ Runtraps \/ J_exit \/ WaitCommand \/ SetMonitor \/ Exit
               \/ ForkFailsFirst \/ ForkFailsNext \/ OpenpipeFails \/ Child
               \/ Signal \/ UNCHANGED vars
      <4>1. UNCHANGED job
        <5>1. CASE \/ HandlerHolds \/ HandlerStarts \/ HandlerReturns \/ SetAsync
                   \/ TrimZombies \/ Sigsuspend \/ RemoveMarked \/ MarkedRemoved
                   \/ Runtraps \/ J_exit
          BY <5>1 DEF HandlerHolds, HandlerStarts, HandlerReturns, SetAsync,
             TrimZombies, Sigsuspend, RemoveMarked, MarkedRemoved, Runtraps,
             J_exit
        <5>2. CASE \/ WaitCommand \/ SetMonitor \/ Exit
                   \/ ForkFailsFirst \/ ForkFailsNext \/ OpenpipeFails \/ Child
                   \/ Signal \/ UNCHANGED vars
          BY <5>2 DEF WaitCommand, SetMonitor, Exit, ForkFailsFirst,
             ForkFailsNext, OpenpipeFails, Child, Signal, vars
        <5> QED BY <3>1, <5>1, <5>2
      <4> QED BY <4>1 DEF Gains
    <3>2. CASE LastProcess
      <4>1. last_job \in JobId /\ last_job \in Listed /\ wj' = last_job
        BY <1>0, <3>2 DEF LastProcess, IInv, LastInv, StartInv
      <4>2. CASE "FG" \in job[last_job].flags
        <5>1. StartJob(Waiting(job, last_job, "fg"), last_job) /\ pc' = "wenter"
          BY <3>2, <4>2 DEF LastProcess
        <5>2. \A k \in JobId : k # last_job => job'[k] = job[k]
          BY <1>0, <4>1, <5>1, StartMarks
        <5> QED BY <1>0, <4>1, <5>1, <5>2 DEF Gains
      <4>3. CASE "FG" \notin job[last_job].flags
        <5>1. StartJob(job, last_job)
          BY <3>2, <4>3 DEF LastProcess
        <5>2. /\ \A k \in JobId : k # last_job => job'[k] = job[k]
              /\ job'[last_job].flags = job[last_job].flags \union {"STARTED"}
          BY <1>0, <4>1, <5>1, StartMarks
        <5> QED BY <1>0, <4>1, <5>2 DEF Gains
      <4> QED BY <4>2, <4>3
    <3>3. CASE Startlast
      <4>1. last_job \in JobId /\ last_job \in Listed /\ last_job # None
        BY <1>0, <3>3 DEF Startlast, IInv, LastInv, StartInv
      <4>2. StartJob(Waiting(job, last_job, "xxcom"), last_job) /\ pc' = "reading"
            /\ last_job' = last_job
        BY <3>3, <4>1 DEF Startlast, listvars
      <4>3. \A k \in JobId : k # last_job => job'[k] = job[k]
        BY <1>0, <4>1, <4>2, StartMarks
      <4> QED BY <1>0, <4>1, <4>2, <4>3 DEF Gains
    <3>4. CASE WaitForAny \/ WaitForOperand \/ Waitlast
      <4>1. UNCHANGED job \/ \E j, c : job' = Waiting(job, j, c) /\ wj' = j /\ pc' = "wenter"
        BY <3>4 DEF WaitForAny, WaitForOperand, Waitlast, BeginWaitj
      <4>2. ASSUME NEW j, NEW c, job' = Waiting(job, j, c), wj' = j, pc' = "wenter"
            PROVE  \A k \in Listed : Gains(k)
        <5>1. \A k \in JobId : k # j => job'[k] = job[k]
          BY <1>0, <4>2, WaitingMarks
        <5> QED BY <1>0, <4>2, <5>1 DEF Gains
      <4> QED BY <4>1, <4>2 DEF Gains
    <3>5. CASE Woken \/ WaitjReturns
      <4>1. UNCHANGED job \/ \E S \in SUBSET {"WAITING", "W_ASYNC", "FG"} :
                                TakenOff(wj, S)
        BY <3>5 DEF Woken, WaitjReturns, NotWaiting, TakenOff
      <4>2. ASSUME NEW S \in SUBSET {"WAITING", "W_ASYNC", "FG"},
                   TakenOff(wj, S)
            PROVE  \A k \in Listed : Gains(k)
        <5>1. /\ \A k \in JobId : k # wj => job'[k] = job[k]
              /\ wj \in JobId => job'[wj].flags = job[wj].flags \ S
          BY <1>0, <4>2, UnwaitingMarks
        <5> QED BY <1>0, <5>1 DEF Gains
      <4> QED BY <4>1, <4>2 DEF Gains
    <3>6. CASE J_async
      <4> DEFINE F == job[async_job].flags \union {"KNOWN"}
      <4>1. job' = [job EXCEPT ![async_job].flags = F]
        BY <3>6 DEF J_async
      <4>2. /\ F \subseteq job[async_job].flags
                  \union {"STARTED", "WAITING", "W_ASYNC", "KNOWN", "REMOVE"}
            /\ job[async_job].flags \ {"WAITING", "W_ASYNC", "FG"} \subseteq F
        OBVIOUS
      <4> HIDE DEF F
      <4>3. /\ \A k \in JobId : k # async_job => job'[k] = job[k]
            /\ async_job \in JobId => job'[async_job].flags = F
        BY <1>0, <4>1, <4>2, AssignFlags
      <4> QED BY <1>0, <4>3 DEF Gains, F
    <3>7. CASE J_jobs \/ J_notify \/ J_exitNotify
      <4>1. \E S : MarkForRemoval(S)
        BY <3>7 DEF J_jobs, J_notify, J_exitNotify
      <4> QED BY <1>0, <4>1, RemovalMarks DEF Gains
    <3>8. CASE ExchildNext
      BY <1>0, <3>8, NextForkedLemma DEF Forked, Gains
    <3>9. CASE Subshell
      BY <1>0, <3>9, SubshellMarks DEF Gains
    <3>10. CASE J_resume
      <4>1. PICK j \in Listed, bg \in BOOLEAN : Resumes(j, bg)
        BY <3>10, ResumesLemma
      <4>2. \A k \in Listed : k # j => Gains(k)
        BY <1>0, <4>1 DEF Resumes, Gains
      <4>3. CASE bg
        BY <1>0, <4>1, <4>2, <4>3 DEF Resumes, ResumedFlags, Gains
      <4>4. CASE ~bg
        BY <1>0, <4>1, <4>2, <4>4 DEF Resumes, Gains
      <4> QED BY <4>3, <4>4
    <3> QED BY <1>3, <3>1, <3>2, <3>3, <3>4, <3>5, <3>6, <3>7, <3>8, <3>9, <3>10
            DEF Next, Handler, Continue, Command, Failure, Gone
  <2> QED BY <2>1, <2>2
<1> QED BY <1>1, <1>2, <1>3

(* The shell is in j_waitj().                                              *)
InWait == pc \in {"wenter", "susp", "woke"}

(* j_waitj() goes on with its job, or takes the mark off it.               *)
LEMMA InWaitLemma ==
    ASSUME IInv, [Next]_vars, InWait
    PROVE  \/ InWait' /\ wj' = wj
           \/ /\ "WAITING" \notin job'[wj].flags \/ wj \notin Listed'
              /\ ~InWait' /\ pc' # "reading"
<1>0. TypeOK /\ wj \in Listed /\ wj \in JobId
  BY ListedLemma DEF InWait, IInv, WaitInv
<1>1. CASE Handler
  BY <1>1 DEF Handler, HandlerHolds, HandlerStarts, HandlerReturns, Reap, InWait,
     AfterHandler, waitvars
<1>2. CASE Sigsuspend \/ Child \/ Signal \/ UNCHANGED vars
  BY <1>2 DEF Sigsuspend, Child, Signal, InWait, waitvars, vars
<1>3. CASE Woken
  <2>1. CASE UNCHANGED <<job, waitvars>> /\ pc' = "wenter"
    BY <2>1 DEF InWait, waitvars
  <2>2. CASE ~(UNCHANGED <<job, waitvars>> /\ pc' = "wenter")
    <3>1. TakenOff(wj, {"WAITING", "W_ASYNC"})
      BY <1>3, <2>2 DEF Woken, NotWaiting, TakenOff
    <3>2. pc' \in {"exit", "more", "ready"}
      BY <1>3, <2>2 DEF Woken, AfterOperand
    <3>3. job'[wj].flags = job[wj].flags \ {"WAITING", "W_ASYNC"}
      BY <1>0, <3>1, UnwaitingMarks
    <3> QED BY <3>2, <3>3 DEF InWait
  <2> QED BY <2>1, <2>2
<1>4. CASE WaitjReturns
  <2>1. TakenOff(wj, {"WAITING", "W_ASYNC", "FG"})
    BY <1>4 DEF WaitjReturns, TakenOff
  <2>2. pc' \in {"all", "more", "ready"}
    BY <1>4 DEF WaitjReturns, AfterOperand
  <2>3. job'[wj].flags = job[wj].flags \ {"WAITING", "W_ASYNC", "FG"}
    BY <1>0, <2>1, UnwaitingMarks
  <2> QED BY <2>2, <2>3 DEF InWait
<1>5. CASE Command \/ Failure \/ Waitlast \/ Gone
  BY <1>5 DEF Command, ExchildFirst, WaitCommand, J_resume, J_async, J_jobs,
     J_notify, SetMonitor, Subshell, Exit, StartCommand, InWait,
     Failure, ForkFailsFirst, ForkFailsNext, OpenpipeFails, Waitlast, Gone
<1>6. CASE Continue /\ ~Sigsuspend /\ ~Woken /\ ~WaitjReturns
  BY <1>6 DEF Continue, ExchildNext, LastProcess, Startlast, SetAsync, TrimZombies,
     WaitForAny, WaitForOperand, RemoveMarked,
     MarkedRemoved, Runtraps, J_exit, J_exitNotify, InWait
<1> QED BY <1>1, <1>2, <1>3, <1>4, <1>5, <1>6 DEF Next

(* A $() job is read until waitlast().                                     *)
LEMMA ReadingLemma ==
    ASSUME IInv, [Next]_vars, pc = "reading"
    PROVE  \/ pc' = "reading" /\ (last_job' = last_job \/ last_job \notin Listed')
           \/ /\ Waitlast
              /\ last_job = None \/ "STARTED" \notin job[last_job].flags
              /\ pc' = "ready" /\ UNCHANGED <<job, listvars, wj>>
           \/ /\ Waitlast /\ last_job # None
              /\ pc' = "wenter" /\ wj' = last_job /\ UNCHANGED listvars
<1>1. CASE HandlerHolds \/ HandlerStarts \/ HandlerReturns
  BY <1>1 DEF HandlerHolds, HandlerStarts, HandlerReturns, AfterHandler, listvars
<1>2. CASE Reap
  <2>1. PICK c \in news : Reaps(c)
    BY <1>2, ReapedLemma
  <2>2. \/ UNCHANGED last_job
        \/ \E j \in Listed : \E pr : Checked(j, pr)
    BY <2>1 DEF Reaps, KeepList
  <2>3. last_job' = last_job \/ last_job \notin Listed'
    BY <2>2 DEF Checked, Removed
  <2> QED BY <1>2, <2>3 DEF Reap
<1>3. CASE Waitlast
  BY <1>3 DEF Waitlast, waitvars
<1>4. CASE Child \/ Signal \/ UNCHANGED vars
  BY <1>4 DEF Child, Signal, listvars, vars
<1>5. CASE Command \/ Failure \/ Gone
  BY <1>5 DEF Command, ExchildFirst, WaitCommand, J_resume, J_async, J_jobs,
     J_notify, SetMonitor, Subshell, Exit, StartCommand,
     Failure, ForkFailsFirst, ForkFailsNext, OpenpipeFails, Gone
<1>6. CASE Continue
  BY <1>6 DEF Continue, ExchildNext, LastProcess, Startlast, SetAsync, TrimZombies,
     WaitForAny, WaitForOperand, RemoveMarked, Sigsuspend, Woken, WaitjReturns,
     MarkedRemoved, Runtraps, J_exit, J_exitNotify
<1> QED BY <1>1, <1>2, <1>3, <1>4, <1>5, <1>6 DEF Next, Handler

(* Who enters j_waitj(), and for which job.                                *)
LEMMA EnterWait ==
    ASSUME IInv, [Next]_vars, ~InWait, InWait'
    PROVE  \/ LastProcess /\ wj' = last_job /\ last_job \in Listed
           \/ Waitlast /\ wj' = last_job /\ last_job \in Listed
           \/ WaitForAny /\ wj' \in Listed /\ job[wj'].own
           \/ WaitForOperand /\ wj' \in Listed /\ job[wj'].own
           \/ J_resume /\ wj' \in Listed
<1>1. CASE Handler
  BY <1>1 DEF Handler, HandlerHolds, HandlerStarts, HandlerReturns, Reap, InWait,
     AfterHandler
<1>2. CASE LastProcess
  BY <1>2 DEF LastProcess, IInv, StartInv, LastInv
<1>3. CASE Waitlast
  BY <1>3 DEF Waitlast, InWait, IInv, LastInv
<1>4. CASE WaitForAny
  BY <1>4, ListedLemma DEF WaitForAny, InWait, BeginWaitj, OwnRunning, IInv
<1>5. CASE WaitForOperand
  BY <1>5 DEF WaitForOperand, InWait, BeginWaitj, Ours, AfterOperand
<1>6. CASE J_resume
  <2>1. PICK j \in Listed, bg \in BOOLEAN : Resumes(j, bg)
    BY <1>6, ResumesLemma
  <2> QED BY <1>6, <2>1 DEF Resumes
<1>7. CASE Failure \/ Gone \/ Child \/ Signal \/ UNCHANGED vars
  BY <1>7 DEF InWait, Failure, ForkFailsFirst, ForkFailsNext, OpenpipeFails, Gone,
     Child, Signal, vars, AfterError
<1>8. CASE Command /\ ~J_resume
  BY <1>8 DEF Command, ExchildFirst, NextPc, WaitCommand, J_async, J_jobs,
     J_notify, SetMonitor, Subshell, Exit, StartCommand, InWait
<1>9. CASE Continue /\ ~LastProcess /\ ~WaitForAny /\ ~WaitForOperand
  BY <1>9 DEF Continue, ExchildNext, NextPc, Startlast, SetAsync, TrimZombies,
     RemoveMarked, Sigsuspend, Woken, WaitjReturns, AfterOperand,
     MarkedRemoved, Runtraps, J_exit, J_exitNotify, InWait, AfterError
<1> QED BY <1>1, <1>2, <1>3, <1>4, <1>5, <1>6, <1>7, <1>8, <1>9 DEF Next

(* Only startlast() begins the reading.                                    *)
LEMMA EnterReading ==
    ASSUME IInv, [Next]_vars, pc # "reading", pc' = "reading"
    PROVE  /\ Startlast /\ last_job' = last_job /\ job[last_job].own
           /\ "STARTED" \in job'[last_job].flags
<1>1. CASE Handler
  BY <1>1 DEF Handler, HandlerHolds, HandlerStarts, HandlerReturns, Reap,
     AfterHandler
<1>2. CASE Startlast
  <2>1. /\ last_job' = last_job /\ job[last_job].own
        /\ last_job \in JobId /\ last_job # None
    BY <1>2 DEF Startlast, IInv, TypeOK, StartInv, listvars
  <2>2. StartJob(Waiting(job, last_job, "xxcom"), last_job)
    BY <1>2, <2>1 DEF Startlast
  <2>3. "STARTED" \in job'[last_job].flags
    BY <2>1, <2>2, StartMarks DEF IInv
  <2> QED BY <1>2, <2>1, <2>3
<1>3. CASE Failure \/ Gone \/ Child \/ Signal \/ UNCHANGED vars \/ Waitlast
  BY <1>3 DEF Failure, ForkFailsFirst, ForkFailsNext, OpenpipeFails, Gone,
     Child, Signal, vars, AfterError, Waitlast
<1>4. CASE Command
  BY <1>4 DEF Command, ExchildFirst, NextPc, WaitCommand, J_resume, J_async, J_jobs,
     J_notify, SetMonitor, Subshell, Exit, StartCommand
<1>5. CASE Continue /\ ~Startlast
  BY <1>5 DEF Continue, ExchildNext, NextPc, LastProcess, SetAsync, TrimZombies,
     WaitForAny, WaitForOperand, BeginWaitj,
     RemoveMarked, Sigsuspend, Woken, WaitjReturns, AfterOperand,
     MarkedRemoved, Runtraps, J_exit, J_exitNotify, AfterError
<1> QED BY <1>1, <1>2, <1>3, <1>4, <1>5 DEF Next

(* FMONITOR and whether this is a subshell.                                *)
LEMMA ModeLemma ==
    ASSUME [Next]_vars, ~Subshell
    PROVE  /\ insub' = insub
           /\ monitor' \in {monitor, FALSE} \/ "toggle" \in Env
<1>1. CASE Handler
  BY <1>1 DEF Handler, HandlerHolds, HandlerStarts, HandlerReturns, Reap, modevars
<1>2. CASE Continue
  BY <1>2 DEF Continue, ExchildNext, LastProcess, Startlast, SetAsync, TrimZombies,
     WaitForAny, WaitForOperand, Sigsuspend, Woken, WaitjReturns, RemoveMarked,
     MarkedRemoved, Runtraps, J_exit, J_exitNotify, modevars
<1>3. CASE Command
  BY <1>3 DEF Command, ExchildFirst, WaitCommand, J_resume, J_async, J_jobs,
     J_notify, SetMonitor, Exit, StartCommand, modevars
<1>4. CASE Failure \/ Waitlast \/ Child \/ Signal \/ UNCHANGED vars
  BY <1>4 DEF Failure, ForkFailsFirst, ForkFailsNext, OpenpipeFails, Waitlast,
     Child, Signal, StartCommand, modevars, vars
<1> QED BY <1>1, <1>2, <1>3, <1>4 DEF Next, Gone

(* A started job stays started.                                            *)
LEMMA StartedLemma ==
    ASSUME IInv, [Next]_vars, NEW k \in Listed, "STARTED" \in job[k].flags
    PROVE  "STARTED" \in job'[k].flags
<1>0. k \in JobId
  BY ListedLemma DEF IInv
<1>1. CASE ExchildFirst
  <2>1. PICK j \in JobId, n \in JobId, flags \in KindFlags, q \in FreePid :
                q \in Pid /\ Begun(j, n, flags, q)
    BY <1>1, BegunLemma
  <2>2. /\ j \notin Listed
        /\ \A i \in JobId : i # j => job'[i] = job[i]
    BY <2>1 DEF Begun
  <2> QED BY <1>0, <2>2
<1>2. CASE Reap
  <2>1. PICK c \in news : Reaps(c)
    BY <1>2, ReapedLemma
  <2>2. \/ UNCHANGED job
        \/ \E j \in Listed : \E pr : Checked(j, pr)
    BY <2>1 DEF Reaps
  <2>3. ASSUME NEW j \in Listed, NEW pr, Checked(j, pr)
        PROVE  "STARTED" \in job'[k].flags
    <3>1. \/ UNCHANGED job
          \/ \E num : \/ Closed(j, pr, num, job[j].flags)
                      \/ Closed(j, pr, num, job[j].flags \union {"ZOMBIE"})
      BY <2>3 DEF Checked
    <3> QED BY <1>0, <3>1 DEF Closed
  <2> QED BY <2>2, <2>3
<1>3. CASE ExchildNext
  BY <1>0, <1>3, NextForkedLemma DEF Forked
<1>4. CASE J_resume
  <2>1. PICK j \in Listed, bg \in BOOLEAN : Resumes(j, bg)
    BY <1>4, ResumesLemma
  <2> QED BY <1>0, <2>1 DEF Resumes, ResumedFlags
<1>5. CASE Subshell
  BY <1>0, <1>5, SubshellMarks DEF IInv
<1>6. CASE ~J_resume /\ ~Forks /\ ~Reap
  BY <1>0, <1>6, MarksLemma DEF Marked
<1> QED BY <1>1, <1>2, <1>3, <1>4, <1>5, <1>6 DEF Forks

(* Every step keeps WaitsInv: the mark comes with j_waitj() or startlast() *)
(* and goes when j_waitj() is left.                                        *)
LEMMA WaitsStep ==
    ASSUME ~({"toggle", "subshell"} \subseteq Env),
           IInv, IInv', WaitsInv, [Next]_vars
    PROVE  WaitsInv'
<1>0. Listed \subseteq JobId
  BY ListedLemma DEF IInv
<1>1. \A k \in Listed' : "WAITING" \in job'[k].flags =>
           \/ k = wj' /\ InWait'
           \/ k = last_job' /\ pc' = "reading"
  <2> SUFFICES ASSUME NEW k \in Listed', "WAITING" \in job'[k].flags
               PROVE  (k = wj' /\ InWait') \/ (k = last_job' /\ pc' = "reading")
    OBVIOUS
  <2>1. CASE (k = wj' /\ pc' = "wenter") \/ (k = last_job' /\ pc' = "reading")
    BY <2>1 DEF InWait
  <2>2. CASE k \in Listed /\ "WAITING" \in job[k].flags
    <3>1. CASE k = wj /\ InWait
      BY <3>1, InWaitLemma
    <3>2. CASE k = last_job /\ pc = "reading"
      <4>1. last_job # None /\ "STARTED" \in job[last_job].flags
        BY <1>0, <2>2, <3>2 DEF JobId, None, WaitsInv
      <4> QED BY <3>2, <4>1, ReadingLemma DEF InWait
    <3> QED BY <2>2, <3>1, <3>2 DEF WaitsInv, InWait
  <2> QED BY <2>1, <2>2, GainsLemma DEF Gains
<1>2. InWait' => job'[wj'].own
  <2> SUFFICES ASSUME InWait' PROVE job'[wj'].own
    OBVIOUS
  <2>0. ~Subshell
    BY DEF Subshell, InWait, IInv, WaitInv
  <2>1. wj' \in Listed'
    BY DEF InWait, IInv, WaitInv
  <2>2. CASE InWait
    <3>1. wj' = wj /\ wj \in Listed /\ job[wj].own
      BY <2>2, InWaitLemma DEF InWait, WaitsInv, IInv, WaitInv
    <3> QED BY <2>0, <2>1, <3>1, OwnLemma
  <2>3. CASE ~InWait
    <3>1. wj' \in Listed /\ job[wj'].own
      <4>1. CASE LastProcess /\ wj' = last_job /\ last_job \in Listed
        BY <4>1 DEF LastProcess, IInv, StartInv
      <4>2. CASE Waitlast /\ wj' = last_job /\ last_job \in Listed
        BY <1>0, <4>2 DEF Waitlast, WaitsInv, JobId, None
      <4>3. CASE J_resume /\ wj' \in Listed
        BY <4>3 DEF J_resume, WaitsInv
      <4> QED BY <2>3, <4>1, <4>2, <4>3, EnterWait
    <3> QED BY <2>0, <2>1, <3>1, OwnLemma
  <2> QED BY <2>2, <2>3
<1>3. pc' = "reading" /\ last_job' # None =>
          job'[last_job'].own /\ "STARTED" \in job'[last_job'].flags
  <2> SUFFICES ASSUME pc' = "reading", last_job' # None
               PROVE  job'[last_job'].own /\ "STARTED" \in job'[last_job'].flags
    OBVIOUS
  <2>0. ~Subshell
    BY DEF Subshell
  <2>1. last_job' \in Listed'
    BY DEF IInv, LastInv
  <2>2. CASE pc = "reading"
    <3>1. last_job' = last_job \/ last_job \notin Listed'
      BY <2>2, ReadingLemma
    <3>2. last_job' = last_job \/ last_job' = None
      <4>1. CASE Reap
        <5>1. PICK c \in news : Reaps(c)
          BY <4>1, ReapedLemma
        <5>2. \/ UNCHANGED last_job
              \/ \E j \in Listed : \E pr : Checked(j, pr)
          BY <5>1 DEF Reaps, KeepList
        <5> QED BY <5>2 DEF Checked, Removed
      <4>2. CASE ~Reap
        <5>1. ~ExchildFirst /\ ~SetAsync
          BY <2>2 DEF ExchildFirst, StartCommand, SetAsync
        <5> QED BY <4>2, <5>1, ListLemma DEF Unchanged, Unlisted, Removed
      <4> QED BY <4>1, <4>2
    <3>3. /\ last_job \in Listed /\ last_job' = last_job
          /\ job[last_job].own /\ "STARTED" \in job[last_job].flags
      BY <2>2, <3>2 DEF WaitsInv, IInv, LastInv
    <3>4. "STARTED" \in job'[last_job].flags
      BY <1>0, <2>2, <3>3, StartedLemma
    <3> QED BY <2>0, <2>1, <3>3, <3>4, OwnLemma
  <2>3. CASE pc # "reading"
    <3>1. /\ last_job' = last_job /\ job[last_job].own
          /\ "STARTED" \in job'[last_job].flags
      BY <2>3, EnterReading
    <3>2. last_job \in Listed
      BY <3>1 DEF IInv, LastInv
    <3> QED BY <2>0, <2>1, <3>1, <3>2, OwnLemma
  <2> QED BY <2>2, <2>3
<1>4. insub' => ~monitor' /\ "subshell" \in Env
  <2>1. CASE Subshell
    BY <2>1 DEF Subshell
  <2>2. CASE ~Subshell
    BY <2>2, ModeLemma DEF WaitsInv
  <2> QED BY <2>1, <2>2
<1>5. ~insub' => \A j \in Listed' : job'[j].own
  <2>1. CASE Subshell
    BY <2>1 DEF Subshell
  <2>2. CASE ~Subshell
    BY <2>2, ModeLemma, OwnLemma DEF WaitsInv
  <2> QED BY <2>1, <2>2
<1> QED BY <1>1, <1>2, <1>3, <1>4, <1>5 DEF WaitsInv, InWait

(* A job is marked as waited for only while the shell waits for it, and    *)
(* the shell waits for its own children only (see WaitsInv), as long as a  *)
(* forked subshell does not turn job control on.                           *)
THEOREM WaitsAreSound ==
    ~({"toggle", "subshell"} \subseteq Env) => (Spec => []WaitsSound)
<1> SUFFICES ASSUME ~({"toggle", "subshell"} \subseteq Env)
             PROVE  Spec => []WaitsSound
  OBVIOUS
<1>1. Init => WaitsInv
  BY DEF Init, WaitsInv, Listed, Jobs
<1>2. IInv /\ IInv' /\ WaitsInv /\ [Next]_vars => WaitsInv'
  BY WaitsStep
<1>3. IInv /\ WaitsInv => WaitsSound
  BY DEF IInv, WaitsInv, WaitsSound, WaitingMeansWaited, OwnJobWaited
<1> QED BY <1>1, <1>2, <1>3, Invariance, PTL DEF Spec

-----------------------------------------------------------------------------
(* Zombies are counted.                                                    *)

(* The steps that leave the kernel's side alone.                           *)
LEMMA KernLemma ==
    ASSUME IInv, [Next]_vars, ~Reap, ~J_resume, ~Forks, ~ForkFailsNext, ~J_exit,
           ~Child
    PROVE  UNCHANGED <<kern, news>>
<1>1. CASE Handler
  BY <1>1 DEF Handler, HandlerHolds, HandlerStarts, HandlerReturns, kernvars
<1>2. CASE Continue
  BY <1>2 DEF Continue, LastProcess, Startlast, SetAsync, TrimZombies, Forks,
     WaitForAny, WaitForOperand, Sigsuspend, Woken, WaitjReturns, RemoveMarked,
     MarkedRemoved, Runtraps, J_exitNotify, kernvars
<1>3. CASE Command
  BY <1>3 DEF Command, WaitCommand, J_async, J_jobs, Forks,
     J_notify, SetMonitor, Exit, kernvars
<1>4. CASE Failure \/ Waitlast \/ Signal \/ UNCHANGED vars
  BY <1>4 DEF Failure, ForkFailsFirst, OpenpipeFails, Waitlast, Signal, kernvars,
     vars
<1> QED BY <1>1, <1>2, <1>3, <1>4 DEF Next, Gone

(* Without reuse the pid of a process is its number, so that the handler   *)
(* records a report with the process it is about.                          *)
LEMMA ReapsSelf ==
    ASSUME "reuse" \notin Env, IInv, PidsInv, Reap
    PROVE  \E c \in news :
              /\ news' = news \ {c}
              /\ \/ Listed' = Listed
                    /\ UNCHANGED <<job, proc, job_list, last_job, async_job,
                                   nzombie, ierr>>
                 \/ /\ owner[c] \in Listed
                    /\ proc' = [proc EXCEPT ![c] = Reported(c)]
                    /\ Checked(owner[c], proc')
<1>1. PICK c \in news : Reaps(c)
  BY ReapedLemma
<1>2. c \in ProcId /\ c <= nprocs /\ pid[c] = c
  BY DEF IInv, TypeOK, PidsInv
<1>3. Listed \subseteq JobId
  BY ListedLemma DEF IInv
<1>4. CASE /\ KeepList(job_list) /\ Listed' = Listed
           /\ UNCHANGED <<job, proc>>
  BY <1>1, <1>4 DEF Reaps, KeepList
<1>5. ASSUME NEW j \in Listed, NEW p \in ProcId, owner[p] = j, pid[p] = pid[c],
             proc' = [proc EXCEPT ![p] = Reported(c)], Checked(j, proc')
      PROVE  /\ owner[c] \in Listed
             /\ proc' = [proc EXCEPT ![c] = Reported(c)]
             /\ Checked(owner[c], proc')
  <2>1. owner[p] # None
    BY <1>3, <1>5 DEF JobId, None
  <2>2. p <= nprocs /\ pid[p] = p
    BY <2>1 DEF PidsInv
  <2> QED BY <1>2, <1>5, <2>2
<1>6. \/ /\ KeepList(job_list) /\ Listed' = Listed
         /\ UNCHANGED <<job, proc>>
      \/ \E j \in Listed, p \in ProcId :
            /\ owner[p] = j /\ pid[p] = pid[c]
            /\ proc' = [proc EXCEPT ![p] = Reported(c)]
            /\ Checked(j, proc')
  BY <1>1 DEF Reaps
<1>7. news' = news \ {c}
  BY <1>1 DEF Reaps
<1> QED BY <1>4, <1>5, <1>6, <1>7 DEF KeepList

(* fork() gives the new process the next number and nothing else a pid.    *)
NewProcess(j, q) ==
    /\ nprocs' = nprocs + 1 /\ nprocs + 1 \in ProcId
    /\ owner' = [owner EXCEPT ![nprocs + 1] = j]
    /\ pid' = [pid EXCEPT ![nprocs + 1] = q]
    /\ proc' = [proc EXCEPT ![nprocs + 1] = NoProc]
    /\ kern' = [kern EXCEPT ![nprocs + 1] = "run"]
    /\ news' = news

(* PidsInv when the kernel gives the next process id.                      *)
LEMMA ForkedPids ==
    ASSUME "reuse" \notin Env, IInv, PidsInv, NEW j \in JobId,
           NEW q \in FreePid, NewProcess(j, q), job'[j].own,
           \A k \in Listed' : IF k \in Listed THEN job'[k].own = job[k].own
                              ELSE k = j
    PROVE  PidsInv'
<1>1. q = nprocs + 1
  BY DEF FreePid
<1>2. /\ nprocs' = nprocs + 1 /\ nprocs + 1 \in ProcId
      /\ owner' = [owner EXCEPT ![nprocs + 1] = j]
      /\ pid' = [pid EXCEPT ![nprocs + 1] = q]
      /\ proc' = [proc EXCEPT ![nprocs + 1] = NoProc]
      /\ kern' = [kern EXCEPT ![nprocs + 1] = "run"]
      /\ news' = news
  BY DEF NewProcess
<1>3. /\ nprocs \in Nat /\ owner \in [ProcId -> JobId \union {None}]
      /\ pid \in [ProcId -> Pid \union {0}] /\ kern \in [ProcId -> KernState]
      /\ proc \in [ProcId -> ProcRecord]
  BY BoundsAssumption DEF IInv, TypeOK
<1> SUFFICES ASSUME NEW p \in ProcId
             PROVE  /\ IF p <= nprocs' THEN pid'[p] = p
                                      ELSE owner'[p] = None /\ kern'[p] = "none"
                    /\ p \in news' => kern'[p] \in {"stop", "exit", "kill"}
                    /\ proc'[p].state \in {"exited", "signalled"} =>
                          p \notin news' /\ kern'[p] \notin {"run", "stop"}
                    /\ kern'[p] # "none" /\ owner'[p] \in Listed' =>
                          job'[owner'[p]].own
  BY DEF PidsInv, Over
<1>4. CASE p = nprocs + 1
  <2>1. pid'[p] = p /\ owner'[p] = j /\ proc'[p] = NoProc
    BY <1>1, <1>2, <1>3, <1>4
  <2>2. p \notin news'
    <3>1. ~(p <= nprocs)
      BY <1>3, <1>4
    <3> QED BY <1>2, <3>1 DEF PidsInv
  <2>3. p <= nprocs'
    BY <1>2, <1>3, <1>4
  <2> QED BY <2>1, <2>2, <2>3 DEF NoProc
<1>5. CASE p # nprocs + 1
  <2>1. /\ pid'[p] = pid[p] /\ owner'[p] = owner[p] /\ proc'[p] = proc[p]
        /\ kern'[p] = kern[p]
    BY <1>2, <1>3, <1>5
  <2>2. p \in Int /\ (p <= nprocs' <=> p <= nprocs)
    BY <1>2, <1>3, <1>5, BoundsAssumption DEF ProcId
  <2>3. kern[p] # "none" /\ owner[p] \in Listed' => job'[owner[p]].own
    BY DEF PidsInv
  <2> QED BY <1>2, <2>1, <2>2, <2>3 DEF PidsInv, Over
<1> QED BY <1>4, <1>5

(* What the kernel does to processes of its own accord, or sent signals.   *)
Sent(S, k) == /\ kern' = [p \in ProcId |-> IF p \in S THEN k ELSE kern[p]]
              /\ \A p \in S : kern[p] \in {"run", "stop"}
              /\ news' = IF k = "run" THEN news \ S ELSE news \union S

(* Signals and exits change what the kernel knows of some processes.       *)
LEMMA SentLemma ==
    ASSUME IInv, Child \/ ForkFailsNext \/ J_exit
    PROVE  /\ \E S \in SUBSET ProcId, k \in {"run", "stop", "exit", "kill"} :
                  Sent(S, k)
           /\ UNCHANGED <<nprocs, pid, owner, proc>>
<1>0. kern \in [ProcId -> KernState]
  BY DEF IInv, TypeOK
<1>1. CASE Child
  <2>1. PICK p \in ProcId : ChildDies(p) \/ ChildStops(p) \/ ChildContinues(p)
    BY <1>1 DEF Child
  <2>2. ASSUME NEW k, kern' = [kern EXCEPT ![p] = k]
        PROVE  kern' = [r \in ProcId |-> IF r \in {p} THEN k ELSE kern[r]]
    BY <1>0, <2>2
  <2>3. CASE ChildDies(p)
    <3>1. \/ kern[p] = "run" /\ Changed(p, "exit")
          \/ kern[p] \in {"run", "stop"} /\ Changed(p, "kill")
      BY <2>3 DEF ChildDies
    <3>2. news' = news \union {p}
      BY <2>3 DEF ChildDies
    <3>3. CASE kern[p] = "run" /\ Changed(p, "exit")
      <4>1. Sent({p}, "exit")
        BY <2>2, <3>2, <3>3 DEF Sent, Changed
      <4> QED BY <1>1, <4>1 DEF Child, procvars
    <3>4. CASE kern[p] \in {"run", "stop"} /\ Changed(p, "kill")
      <4>1. Sent({p}, "kill")
        BY <2>2, <3>2, <3>4 DEF Sent, Changed
      <4> QED BY <1>1, <4>1 DEF Child, procvars
    <3> QED BY <3>1, <3>3, <3>4
  <2>4. CASE ChildStops(p)
    <3>1. Sent({p}, "stop")
      BY <2>2, <2>4 DEF ChildStops, Sent, Changed
    <3> QED BY <1>1, <3>1 DEF Child, procvars
  <2>5. CASE ChildContinues(p)
    <3>1. Sent({p}, "run")
      BY <2>2, <2>5 DEF ChildContinues, Sent, Changed
    <3> QED BY <1>1, <3>1 DEF Child, procvars
  <2> QED BY <2>1, <2>3, <2>4, <2>5
<1>2. CASE ForkFailsNext
  <2> DEFINE S == {p \in Procs(last_job) : kern[p] \in {"run", "stop"}}
  <2>1. Sent(S, "kill") /\ S \subseteq ProcId
    BY <1>2 DEF ForkFailsNext, Sent, Procs
  <2> QED BY <1>2, <2>1 DEF ForkFailsNext, procvars
<1>3. CASE J_exit
  <2> DEFINE S == {p \in ProcId : /\ owner[p] \in HungUp
                                  /\ job[owner[p]].state = "stopped"
                                  /\ kern[p] = "stop"}
  <2>1. Sent(S, "run") /\ S \subseteq ProcId
    BY <1>3 DEF J_exit, Sent
  <2> QED BY <1>3, <2>1 DEF J_exit, procvars
<1> QED BY <1>1, <1>2, <1>3

(* Every step keeps PidsInv: with new process ids, a report is recorded    *)
(* for the process it is about, and for it once it is over.                *)
LEMMA PidsStep ==
    ASSUME "reuse" \notin Env, IInv, PidsInv, [Next]_vars
    PROVE  PidsInv'
<1>0. /\ Listed \subseteq JobId /\ TypeOK
      /\ kern \in [ProcId -> KernState] /\ proc \in [ProcId -> ProcRecord]
      /\ news \subseteq ProcId /\ owner \in [ProcId -> JobId \union {None}]
  BY ListedLemma DEF IInv, TypeOK
<1>1. CASE ExchildFirst
  <2>1. PICK j \in JobId, n \in JobId, flags \in KindFlags, q \in FreePid :
                q \in Pid /\ Begun(j, n, flags, q)
    BY <1>1, BegunLemma
  <2>2. /\ Listed' = Listed \union {j} /\ j \notin Listed
        /\ \A k \in JobId : k # j => job'[k] = job[k]
        /\ job'[j].own /\ NewProcess(j, q)
    BY <2>1 DEF Begun, NewProcess
  <2>3. \A k \in Listed' : IF k \in Listed THEN job'[k].own = job[k].own
                           ELSE k = j
    BY <1>0, <2>2
  <2> QED BY <2>2, <2>3, ForkedPids
<1>2. CASE ExchildNext
  <2>1. PICK q \in FreePid : q \in Pid /\ Forked(last_job, job, q)
    BY <1>2, NextForkedLemma
  <2>2. /\ NewProcess(last_job, q) /\ job'[last_job].own = job[last_job].own
        /\ \A k \in JobId : k # last_job => job'[k] = job[k]
    BY <2>1 DEF Forked, NewProcess
  <2>3. last_job \in JobId /\ job[last_job].own /\ Listed' = Listed
    BY <1>2, NextForkedLemma DEF IInv, StartInv
  <2>4. \A k \in Listed' : IF k \in Listed THEN job'[k].own = job[k].own
                           ELSE k = last_job
    BY <1>0, <2>2, <2>3
  <2> QED BY <2>2, <2>3, <2>4, ForkedPids
<1>3. CASE Subshell
  <2>1. /\ kern' = [p \in ProcId |-> "none"] /\ news' = {}
        /\ UNCHANGED <<pid, owner, nprocs, proc>>
    BY <1>3 DEF Subshell
  <2> QED BY <2>1 DEF PidsInv, Over
<1>4. CASE ~Forks
  <2>0. \A k \in Listed' : k \in Listed /\ job'[k].own = job[k].own
    BY <1>4, OwnLemma DEF Forks
  <2> SUFFICES
        ASSUME NEW p \in ProcId
        PROVE  /\ IF p <= nprocs' THEN pid'[p] = p
                                 ELSE owner'[p] = None /\ kern'[p] = "none"
               /\ p \in news' => kern'[p] \in {"stop", "exit", "kill"}
               /\ proc'[p].state \in {"exited", "signalled"} =>
                     p \notin news' /\ kern'[p] \notin {"run", "stop"}
               /\ kern'[p] # "none" /\ owner'[p] \in Listed' => job'[owner'[p]].own
    BY DEF PidsInv, Over
  <2>1. CASE Reap
    <3>1. UNCHANGED <<pid, owner, nprocs, kern>>
      BY <2>1 DEF Reap, procvars
    <3>2. PICK c \in news :
              /\ news' = news \ {c}
              /\ UNCHANGED proc \/ proc' = [proc EXCEPT ![c] = Reported(c)]
      BY <2>1, ReapsSelf
    <3>3. CASE UNCHANGED proc \/ p # c
      <4>1. proc'[p] = proc[p]
        BY <1>0, <3>2, <3>3
      <4> QED BY <2>0, <3>1, <3>2, <4>1 DEF PidsInv, Over
    <3>4. CASE proc' = [proc EXCEPT ![c] = Reported(c)] /\ p = c
      <4>1. proc'[p] = Reported(p)
        BY <1>0, <3>4
      <4>2. kern[p] \in {"run", "stop"} => Reported(p).state = "stopped"
        BY DEF Reported
      <4> QED BY <2>0, <3>1, <3>2, <3>4, <4>1, <4>2 DEF PidsInv
    <3> QED BY <3>2, <3>3, <3>4
  <2>2. CASE J_resume
    <3>1. PICK j \in Listed, bg \in BOOLEAN : Resumes(j, bg)
      BY <2>2, ResumesLemma
    <3>2. UNCHANGED <<pid, owner, nprocs>>
      BY <2>2 DEF J_resume, procvars
    <3>3. /\ proc' = [r \in ProcId |-> IF r \in StoppedProcs(j) THEN NoProc ELSE proc[r]]
          /\ kern' = [r \in ProcId |-> IF r \in WokenProcs(j) THEN "run" ELSE kern[r]]
          /\ news' = news \ WokenProcs(j)
      BY <3>1 DEF Resumes
    <3>4. proc'[p] = proc[p] \/ proc'[p].state = "running"
      BY <3>3 DEF NoProc
    <3>5. CASE p \in WokenProcs(j)
      <4>1. kern'[p] = "run" /\ p \notin news' /\ kern[p] = "stop"
        BY <3>3, <3>5 DEF WokenProcs
      <4> QED BY <2>0, <3>2, <3>4, <4>1 DEF PidsInv, Over
    <3>6. CASE p \notin WokenProcs(j)
      <4>1. kern'[p] = kern[p] /\ (p \in news' <=> p \in news)
        BY <3>3, <3>6
      <4> QED BY <2>0, <3>2, <3>4, <4>1 DEF PidsInv, Over
    <3> QED BY <3>5, <3>6
  <2>3. CASE Child \/ ForkFailsNext \/ J_exit
    <3>1. PICK S \in SUBSET ProcId, k \in {"run", "stop", "exit", "kill"} : Sent(S, k)
      BY <2>3, SentLemma
    <3>2. UNCHANGED <<nprocs, pid, owner, proc>>
      BY <2>3, SentLemma
    <3>3. CASE p \in S
      <4>1. kern'[p] = k /\ kern[p] \in {"run", "stop"}
            /\ (p \in news' => k # "run")
        BY <3>1, <3>3 DEF Sent
      <4> QED BY <2>0, <3>2, <4>1 DEF PidsInv, Over
    <3>4. CASE p \notin S
      <4>1. kern'[p] = kern[p] /\ (p \in news' <=> p \in news)
        BY <3>1, <3>4 DEF Sent
      <4> QED BY <2>0, <3>2, <4>1 DEF PidsInv, Over
    <3> QED BY <3>3, <3>4
  <2>4. CASE ~Reap /\ ~J_resume /\ ~Child /\ ~ForkFailsNext /\ ~J_exit
    <3>1. UNCHANGED <<kern, news>>
      BY <1>4, <2>4, KernLemma
    <3>2. UNCHANGED <<nprocs, pid, owner, proc>>
      BY <1>4, <2>4, MarksLemma
    <3> QED BY <2>0, <3>1, <3>2 DEF PidsInv, Over
  <2> QED BY <2>1, <2>2, <2>3, <2>4
<1> QED BY <1>1, <1>2, <1>3, <1>4 DEF Forks

(* A process of a zombie is no longer news, so that a zombie is never      *)
(* reported again.                                                         *)
LEMMA ZombiesOverStep ==
    ASSUME "reuse" \notin Env, IInv, PidsInv, ZombiesOver, [Next]_vars
    PROVE  ZombiesOver'
<1>0. /\ Listed \subseteq JobId /\ TypeOK
      /\ proc \in [ProcId -> ProcRecord] /\ owner \in [ProcId -> JobId \union {None}]
  BY ListedLemma DEF IInv, TypeOK
<1> SUFFICES ASSUME NEW k \in Listed', "ZOMBIE" \in job'[k].flags, NEW p \in ProcId,
                    owner'[p] = k
             PROVE  proc'[p].state \in {"exited", "signalled"}
  BY DEF ZombiesOver, Procs, Over
<1>1. CASE Reap
  <2>1. UNCHANGED owner
    BY <1>1 DEF Reap, procvars
  <2>2. PICK c \in news :
              \/ Listed' = Listed /\ UNCHANGED <<job, proc>>
              \/ /\ owner[c] \in Listed
                 /\ proc' = [proc EXCEPT ![c] = Reported(c)]
                 /\ Checked(owner[c], proc')
    BY <1>1, ReapsSelf
  <2>3. CASE Listed' = Listed /\ UNCHANGED <<job, proc>>
    BY <2>1, <2>3 DEF ZombiesOver, Procs, Over
  <2>4. CASE /\ owner[c] \in Listed
             /\ proc' = [proc EXCEPT ![c] = Reported(c)]
             /\ Checked(owner[c], proc')
    <3>0. c \in ProcId
      BY DEF IInv, TypeOK
    <3>1. "ZOMBIE" \notin job[owner[c]].flags
      BY <2>4, <3>0 DEF PidsInv, ZombiesOver, Procs
    <3>2. Listed' \subseteq Listed
      BY <2>4 DEF Checked, Removed
    <3>3. CASE k = owner[c]
      <4>1. Unwatched(k, proc') /\ \A r \in Procs(k) : proc'[r].state # "running"
        <5>1. \/ UNCHANGED job
              \/ \E num : Closed(k, proc', num, job[k].flags)
              \/ Unwatched(k, proc') /\ \A r \in Procs(k) : proc'[r].state # "running"
          BY <2>4, <3>3 DEF Checked
        <5> QED BY <3>1, <3>3, <5>1 DEF Closed
      <4>2. \A r \in Procs(k) : proc'[r].state # "stopped"
        BY <4>1 DEF Unwatched, JobState
      <4>3. p \in Procs(k)
        BY <2>1 DEF Procs
      <4>4. proc'[p].state \in State
        <5>1. proc' \in [ProcId -> ProcRecord]
          BY <1>1, ReapedLemma
        <5> QED BY <5>1 DEF ProcRecord
      <4> QED BY <4>1, <4>2, <4>3, <4>4 DEF State
    <3>4. CASE k # owner[c]
      <4>1. job'[k] = job[k]
        BY <1>0, <2>4, <3>2, <3>4 DEF Checked, Closed
      <4>2. p # c /\ proc'[p] = proc[p]
        BY <1>0, <2>1, <2>4, <3>4
      <4> QED BY <2>1, <3>2, <4>1, <4>2 DEF ZombiesOver, Procs, Over
    <3> QED BY <3>3, <3>4
  <2> QED BY <2>2, <2>3, <2>4
<1>2. CASE ~Reap
  <2>1. k \in Listed /\ "ZOMBIE" \in job[k].flags
    BY <1>2, ZombieLemma
  <2>2. proc'[p] = proc[p] /\ owner'[p] = owner[p]
    <3>1. CASE ExchildFirst
      <4>1. PICK j \in JobId, n \in JobId, flags \in KindFlags, q \in FreePid :
                q \in Pid /\ Begun(j, n, flags, q)
        BY <3>1, BegunLemma
      <4>2. /\ j \notin Listed /\ nprocs + 1 \in ProcId
            /\ owner' = [owner EXCEPT ![nprocs + 1] = j]
            /\ proc' = [proc EXCEPT ![nprocs + 1] = NoProc]
        BY <4>1 DEF Begun
      <4> QED BY <1>0, <2>1, <4>2
    <3>2. CASE ExchildNext
      <4>1. PICK q \in FreePid : q \in Pid /\ Forked(last_job, job, q)
        BY <3>2, NextForkedLemma
      <4>2. /\ nprocs + 1 \in ProcId
            /\ owner' = [owner EXCEPT ![nprocs + 1] = last_job]
            /\ proc' = [proc EXCEPT ![nprocs + 1] = NoProc]
        BY <4>1 DEF Forked
      <4>3. k # last_job
        BY <2>1, <3>2, NextForkedLemma DEF IInv, StartInv, JobInv
      <4> QED BY <1>0, <4>2, <4>3
    <3>3. CASE Subshell
      BY <3>3 DEF Subshell
    <3>4. CASE J_resume
      <4>1. PICK j \in Listed, bg \in BOOLEAN : Resumes(j, bg)
        BY <3>4, ResumesLemma
      <4>2. UNCHANGED owner
        BY <3>4 DEF J_resume, procvars
      <4>3. proc' = [r \in ProcId |-> IF r \in StoppedProcs(j) THEN NoProc ELSE proc[r]]
        BY <4>1 DEF Resumes
      <4>4. proc[p].state # "stopped"
        BY <2>1, <4>2 DEF ZombiesOver, Procs, Over
      <4> QED BY <4>2, <4>3, <4>4 DEF StoppedProcs
    <3>5. CASE ~J_resume /\ ~Forks
      BY <1>2, <3>5, MarksLemma
    <3> QED BY <3>1, <3>2, <3>3, <3>4, <3>5 DEF Forks
  <2> QED BY <2>1, <2>2 DEF ZombiesOver, Procs, Over
<1> QED BY <1>1, <1>2

(* The zombies nzombie is about.                                           *)
Zombies == {j \in Listed : job[j].own /\ "ZOMBIE" \in job[j].flags}

(* There are finitely many, so that they can be counted.                   *)
LEMMA ZombiesFinite ==
    ASSUME TypeOK
    PROVE  IsFiniteSet(Zombies) /\ Cardinality(Zombies) \in Nat
<1>1. Zombies \subseteq 1..MaxJobs
  BY ListedLemma DEF Zombies, JobId
<1>2. IsFiniteSet(1..MaxJobs)
  BY FS_Interval, BoundsAssumption
<1> QED BY <1>1, <1>2, FS_Subset, FS_CardinalityType

(* nzombie follows the removal of a job, and its becoming a zombie.        *)
LEMMA CountRemoved ==
    ASSUME TypeOK, nzombie = Cardinality(Zombies), NEW j \in Listed,
           Zombies' = Zombies \ {j},
           nzombie' = IF "ZOMBIE" \in job[j].flags /\ job[j].own
                      THEN nzombie - 1 ELSE nzombie
    PROVE  nzombie' = Cardinality(Zombies')
<1>1. CASE j \in Zombies
  <2>1. Cardinality(Zombies \ {j}) = Cardinality(Zombies) - 1
    BY <1>1, ZombiesFinite, FS_RemoveElement
  <2> QED BY <1>1, <2>1 DEF Zombies
<1>2. CASE j \notin Zombies
  <2>1. Zombies \ {j} = Zombies
    BY <1>2
  <2>2. nzombie' = nzombie
    BY <1>2 DEF Zombies
  <2> QED BY <2>1, <2>2
<1> QED BY <1>1, <1>2

(* Every step keeps the count: zombies are made by check_job() only, and   *)
(* each way a job leaves the list takes a zombie off.                      *)
LEMMA CountStep ==
    ASSUME "reuse" \notin Env, IInv, PidsInv, ZombiesOver, ZombiesCounted, [Next]_vars
    PROVE  ZombiesCounted'
<1>0. TypeOK /\ Listed \subseteq JobId /\ nzombie = Cardinality(Zombies)
  BY ListedLemma DEF IInv, ZombiesCounted, Zombies
<1> SUFFICES nzombie' = Cardinality(Zombies')
  BY DEF ZombiesCounted, Zombies
<1>1. CASE Reap
  <2>1. UNCHANGED owner
    BY <1>1 DEF Reap, procvars
  <2>2. PICK c \in news :
              \/ Listed' = Listed /\ UNCHANGED <<job, nzombie>>
              \/ /\ owner[c] \in Listed
                 /\ Checked(owner[c], proc')
    BY <1>1, ReapsSelf
  <2>3. CASE Listed' = Listed /\ UNCHANGED <<job, nzombie>>
    <3>1. Zombies' = Zombies
      BY <2>3 DEF Zombies
    <3> QED BY <1>0, <2>3, <3>1
  <2>4. CASE owner[c] \in Listed /\ Checked(owner[c], proc')
    <3> DEFINE j == owner[c]
    <3>0. c \in ProcId /\ kern[c] # "none"
      BY DEF IInv, TypeOK, PidsInv
    <3>1. "ZOMBIE" \notin job[j].flags /\ job[j].own /\ j \in JobId /\ j \in Listed
      BY <1>0, <2>4, <3>0 DEF PidsInv, ZombiesOver, Procs
    <3>2. Checked(j, proc')
      BY <2>4
    <3> HIDE DEF j
    <3>3. CASE UNCHANGED <<job, job_list, last_job, async_job, nzombie>> /\ Listed' = Listed
      <4>1. Zombies' = Zombies
        BY <3>3 DEF Zombies
      <4> QED BY <1>0, <3>3, <4>1
    <3>4. CASE Removed(job, j) /\ Closed(j, proc', job[j].num, job[j].flags)
      <4>1. Listed' = Listed \ {j}
        BY <3>4 DEF Removed
      <4>2. \A k \in Listed' : job'[k] = job[k]
        BY <1>0, <3>4, <4>1 DEF Closed
      <4>3. Zombies' = Zombies \ {j}
        BY <4>1, <4>2 DEF Zombies
      <4>4. nzombie' = IF "ZOMBIE" \in job[j].flags /\ job[j].own
                       THEN nzombie - 1 ELSE nzombie
        BY <3>4 DEF Removed
      <4> QED BY <1>0, <3>1, <4>3, <4>4, CountRemoved
    <3>5. CASE /\ Closed(j, proc', -1, job[j].flags \union {"ZOMBIE"})
               /\ nzombie' = nzombie + 1 /\ Listed' = Listed
      <4>1. job'[j].own /\ "ZOMBIE" \in job'[j].flags
        BY <3>1, <3>5 DEF Closed
      <4>2. \A k \in Listed : k # j => job'[k] = job[k]
        BY <1>0, <3>5 DEF Closed
      <4>3. Zombies' = Zombies \union {j}
        BY <3>1, <3>5, <4>1, <4>2 DEF Zombies
      <4>4. j \notin Zombies
        BY <3>1 DEF Zombies
      <4>5. Cardinality(Zombies \union {j}) = Cardinality(Zombies) + 1
        BY <1>0, <4>4, ZombiesFinite, FS_AddElement
      <4> QED BY <1>0, <3>5, <4>3, <4>5
    <3>6. CASE /\ Closed(j, proc', job[j].num, job[j].flags)
               /\ nzombie' = nzombie /\ Listed' = Listed
      <4>1. \A k \in Listed : job'[k].flags = job[k].flags /\ job'[k].own = job[k].own
        BY <1>0, <3>6 DEF Closed
      <4>2. Zombies' = Zombies
        BY <3>6, <4>1 DEF Zombies
      <4> QED BY <1>0, <3>6, <4>2
    <3> QED BY <3>2, <3>3, <3>4, <3>5, <3>6 DEF Checked
  <2> QED BY <2>2, <2>3, <2>4
<1>2. CASE Subshell
  <2>1. nzombie' = 0 /\ Listed' = Listed
    BY <1>2 DEF Subshell, Listed
  <2>2. Zombies' = {}
    BY <1>0, <1>2, <2>1, SubshellMarks DEF Zombies
  <2> QED BY <2>1, <2>2, FS_EmptySet
<1>3. CASE ~Reap /\ ~Subshell
  <2>1. \A k \in Listed' : /\ "ZOMBIE" \in job'[k].flags <=>
                                  k \in Listed /\ "ZOMBIE" \in job[k].flags
                           /\ k \in Listed => job'[k].own = job[k].own
    BY <1>3, ZombieLemma, OwnLemma
  <2>2. Zombies' = Zombies \intersect Listed'
    BY <2>1 DEF Zombies
  <2>3. CASE ExchildFirst
    <3>1. \E j : Listed' = Listed \union {j}
      <4>1. PICK j \in JobId, n \in JobId, flags \in KindFlags, q \in FreePid :
                Begun(j, n, flags, q)
        BY <2>3, BegunLemma
      <4> QED BY <4>1 DEF Begun
    <3>2. Zombies' = Zombies
      BY <2>2, <3>1 DEF Zombies
    <3>3. nzombie' = nzombie
      BY <2>3 DEF ExchildFirst
    <3> QED BY <1>0, <3>2, <3>3
  <2>4. CASE SetAsync
    <3>1. CASE Unknown /\ async_job \in Listed
      <4>1. /\ Listed' = Listed \ {async_job}
            /\ nzombie' = IF job[async_job].own THEN nzombie - 1 ELSE nzombie
        BY <2>4, <3>1, SetAsyncList
      <4>2. "ZOMBIE" \in job[async_job].flags
        BY <3>1 DEF Unknown, AsyncZombie
      <4>3. Zombies' = Zombies \ {async_job}
        BY <2>2, <4>1 DEF Zombies
      <4>4. nzombie' = IF "ZOMBIE" \in job[async_job].flags /\ job[async_job].own
                       THEN nzombie - 1 ELSE nzombie
        BY <4>1, <4>2
      <4> QED BY <1>0, <3>1, <4>3, <4>4, CountRemoved
    <3>2. CASE ~(Unknown /\ async_job \in Listed)
      <4>1. Listed' = Listed /\ nzombie' = nzombie
        BY <2>4, <3>2, SetAsyncList
      <4>2. Zombies' = Zombies
        BY <2>2, <4>1 DEF Zombies
      <4> QED BY <1>0, <4>1, <4>2
    <3> QED BY <3>1, <3>2
  <2>5. CASE ~ExchildFirst /\ ~SetAsync
    <3>1. CASE \E j \in JobId : Unlisted(j)
      <4>1. PICK j \in JobId : Unlisted(j)
        BY <3>1
      <4>2. /\ j \in Listed /\ Listed' = Listed \ {j}
            /\ nzombie' = IF "ZOMBIE" \in job[j].flags /\ job[j].own
                          THEN nzombie - 1 ELSE nzombie
        BY <4>1 DEF Unlisted, Removed
      <4>3. Zombies' = Zombies \ {j}
        BY <2>2, <4>2 DEF Zombies
      <4> QED BY <1>0, <4>2, <4>3, CountRemoved
    <3>2. CASE Unchanged
      <4>1. Zombies' = Zombies
        BY <2>2, <3>2 DEF Zombies, Unchanged
      <4>2. nzombie' = nzombie
        <5>1. CASE TrimZombies /\ OldZombies = {} /\ nzombie' # nzombie
          <6>1. /\ nzombie > ChildMax
                /\ "ZOMBIE" \notin job[async_job].flags \/ nzombie # 1
            BY <3>2, <5>1 DEF TrimZombies, listvars
          <6>2. Zombies \subseteq {async_job}
            BY <5>1 DEF OldZombies, Zombies
          <6>3. Zombies # {}
            <7>1. nzombie # 0
              BY <1>0, <6>1, BoundsAssumption, ZombiesFinite
            <7> QED BY <1>0, <7>1, FS_EmptySet
          <6>4. Zombies = {async_job}
            BY <6>2, <6>3
          <6>5. Cardinality({async_job}) = 1
            BY FS_Singleton
          <6> QED BY <1>0, <6>1, <6>4, <6>5 DEF Zombies
        <5> QED BY <1>3, <3>2, <5>1 DEF Unchanged
      <4> QED BY <1>0, <4>1, <4>2
    <3> QED BY <1>3, <2>5, <3>1, <3>2, ListLemma
  <2> QED BY <2>3, <2>4, <2>5
<1> QED BY <1>1, <1>2, <1>3

(* nzombie is the number of zombies of this shell, so that child_max bounds*)
(* those kept, as long as the kernel does not give a process id that is    *)
(* still listed to a new process.                                          *)
THEOREM ZombiesAreCounted == "reuse" \notin Env => (Spec => []ZombiesCounted)
<1> SUFFICES ASSUME "reuse" \notin Env PROVE Spec => []ZombiesCounted
  OBVIOUS
<1> DEFINE Inv == PidsInv /\ ZombiesOver /\ ZombiesCounted
<1>1. Init => Inv
  <2> SUFFICES ASSUME Init PROVE Inv
    OBVIOUS
  <2>1. Listed = {} /\ nzombie = 0 /\ nprocs = 0
    BY DEF Init, Listed, Jobs
  <2>2. \A p \in ProcId : ~(p <= 0)
    BY BoundsAssumption DEF ProcId
  <2>3. PidsInv /\ ZombiesOver
    BY <2>1, <2>2 DEF Init, PidsInv, ZombiesOver, Over, NoProc
  <2>4. Zombies = {}
    BY <2>1 DEF Zombies
  <2>5. ZombiesCounted
    BY <2>1, <2>4, FS_EmptySet DEF ZombiesCounted, Zombies
  <2> QED BY <2>3, <2>5
<1>2. IInv /\ Inv /\ [Next]_vars => Inv'
  BY PidsStep, ZombiesOverStep, CountStep
<1>3. Inv => ZombiesCounted
  OBVIOUS
<1> HIDE DEF Inv
<1> QED BY <1>1, <1>2, <1>3, Invariance, PTL DEF Spec

-----------------------------------------------------------------------------
(* The terminal.                                                           *)

(* A job comes to the foreground when it is started and by `fg'.           *)
LEMMA FgLemma ==
    ASSUME IInv, [Next]_vars
    PROVE  \A k \in Listed' : "FG" \in job'[k].flags =>
               \/ k \in Listed /\ "FG" \in job[k].flags
               \/ ExchildFirst /\ k = last_job'
               \/ J_resume /\ k = wj' /\ pc' = "wenter" /\ cont' = "resume"
<1>0. Listed \subseteq JobId
  BY ListedLemma DEF IInv
<1>1. CASE ExchildFirst
  <2>1. PICK j \in JobId, n \in JobId, flags \in KindFlags, q \in FreePid :
                q \in Pid /\ Begun(j, n, flags, q)
    BY <1>1, BegunLemma
  <2>2. /\ Listed' = Listed \union {j} /\ last_job' = j /\ j \notin Listed
        /\ \A i \in JobId : i # j => job'[i] = job[i]
    BY <2>1 DEF Begun
  <2> QED BY <1>0, <1>1, <2>2
<1>2. CASE Reap
  <2>1. PICK c \in news : Reaps(c)
    BY <1>2, ReapedLemma
  <2>2. \/ UNCHANGED job /\ Listed' = Listed
        \/ \E j \in Listed : \E pr : Checked(j, pr)
    BY <2>1 DEF Reaps
  <2>3. ASSUME NEW j \in Listed, NEW pr, Checked(j, pr)
        PROVE  /\ Listed' \subseteq Listed
               /\ \A k \in Listed : "FG" \in job'[k].flags => "FG" \in job[k].flags
    <3>1. Listed' \subseteq Listed
      BY <2>3 DEF Checked, Removed
    <3>2. \/ UNCHANGED job
          \/ \E num : \/ Closed(j, pr, num, job[j].flags)
                      \/ Closed(j, pr, num, job[j].flags \union {"ZOMBIE"})
      BY <2>3 DEF Checked
    <3> QED BY <1>0, <3>1, <3>2 DEF Closed
  <2> QED BY <2>2, <2>3
<1>3. CASE ~Reap /\ ~ExchildFirst
  <2>1. Listed' \subseteq Listed
    <3>1. CASE SetAsync
      BY <3>1, SetAsyncList
    <3>2. CASE ~SetAsync
      BY <1>3, <3>2, ListLemma DEF Unchanged, Unlisted, Removed
    <3> QED BY <3>1, <3>2
  <2>2. CASE ExchildNext
    BY <1>0, <2>1, <2>2, NextForkedLemma DEF Forked
  <2>3. CASE J_resume
    <3>1. PICK j \in Listed, bg \in BOOLEAN : Resumes(j, bg)
      BY <2>3, ResumesLemma
    <3>2. \A k \in Listed : k # j => job'[k] = job[k]
      BY <1>0, <3>1 DEF Resumes
    <3>3. wj' = j /\ (~bg => pc' = "wenter" /\ cont' = "resume")
      BY <3>1 DEF Resumes
    <3>4. bg => job'[j].flags = job[j].flags
      BY <3>1 DEF Resumes, ResumedFlags
    <3> QED BY <2>1, <2>3, <3>2, <3>3, <3>4
  <2>4. CASE Subshell
    BY <1>0, <2>1, <2>4, SubshellMarks DEF IInv
  <2>5. CASE ~J_resume /\ ~Forks
    BY <1>0, <1>3, <2>1, <2>5, MarksLemma DEF Marked
  <2> QED BY <1>3, <2>2, <2>3, <2>4, <2>5 DEF Forks
<1> QED BY <1>1, <1>2, <1>3

(* The steps while a job is started or waited for.                         *)
Busy == pc \in {"pipe", "lastproc", "wenter", "susp", "woke"}

(* Few steps are possible then.                                            *)
LEMMA BusySteps ==
    ASSUME IInv, [Next]_vars, Busy,
           Env \intersect {"forkfail", "pipefail", "signal"} = {}
    PROVE  \/ ExchildNext \/ LastProcess \/ Woken \/ WaitjReturns \/ Reap
           \/ /\ UNCHANGED <<job_list, job, ttypgrp, monitor, last_job, wj, cont,
                             pend>>
              /\ pc' = pc \/ (InWait /\ InWait')
<1>1. CASE HandlerHolds \/ HandlerStarts \/ HandlerReturns
  BY <1>1 DEF HandlerHolds, HandlerStarts, HandlerReturns, AfterHandler, Busy,
     InWait, listvars, waitvars, modevars
<1>2. CASE Sigsuspend \/ Child \/ UNCHANGED vars
  BY <1>2 DEF Sigsuspend, Child, Busy, InWait, listvars, waitvars, modevars, vars
<1>3. CASE Command \/ Waitlast \/ Gone
  BY <1>3 DEF Command, ExchildFirst, WaitCommand, J_resume, J_async, J_jobs,
     J_notify, SetMonitor, Subshell, Exit, StartCommand, Busy, Waitlast, Gone
<1>4. CASE Failure \/ Signal
  BY <1>4 DEF Failure, ForkFailsFirst, ForkFailsNext, OpenpipeFails, Signal
<1>5. CASE Startlast \/ SetAsync \/ TrimZombies \/ WaitForAny \/ WaitForOperand
           \/ RemoveMarked \/ MarkedRemoved \/ Runtraps \/ J_exit \/ J_exitNotify
  BY <1>5 DEF Startlast, SetAsync, TrimZombies, WaitForAny, WaitForOperand, Busy,
     RemoveMarked, MarkedRemoved, Runtraps, J_exit, J_exitNotify
<1> QED BY <1>1, <1>2, <1>3, <1>4, <1>5 DEF Next, Handler, Continue

(* Who gives the terminal away.                                            *)
LEMMA TtyLemma ==
    ASSUME [Next]_vars, ~Busy, ~ExchildFirst, ~J_resume, ttypgrp = ShellPgrp
    PROVE  ttypgrp' = ShellPgrp
<1>1. CASE Handler \/ Signal \/ Child \/ UNCHANGED vars \/ Waitlast \/ Gone
  BY <1>1 DEF Handler, HandlerHolds, HandlerStarts, HandlerReturns, Reap, Signal,
     Child, vars, Waitlast, Gone
<1>2. CASE Continue
  BY <1>2 DEF Continue, ExchildNext, LastProcess, Startlast, SetAsync, TrimZombies,
     WaitForAny, WaitForOperand, Sigsuspend, Woken, WaitjReturns, RemoveMarked,
     MarkedRemoved, Runtraps, J_exit, J_exitNotify, Busy
<1>3. CASE Command
  BY <1>3 DEF Command, WaitCommand, J_async, J_jobs,
     J_notify, SetMonitor, Exit, Subshell
<1>4. CASE Failure
  BY <1>4 DEF Failure, ForkFailsFirst, ForkFailsNext, OpenpipeFails
<1> QED BY <1>1, <1>2, <1>3, <1>4 DEF Next

(* Nothing but a signal makes the shell exit.                              *)
LEMMA PendLemma ==
    ASSUME [Next]_vars, "signal" \notin Env, pend # "fatal"
    PROVE  pend' # "fatal"
<1>1. CASE Handler \/ Signal \/ Child \/ UNCHANGED vars \/ Waitlast \/ Gone
  BY <1>1 DEF Handler, HandlerHolds, HandlerStarts, HandlerReturns, Reap, Signal,
     Child, vars, Waitlast, Gone
<1>2. CASE Continue
  BY <1>2 DEF Continue, ExchildNext, LastProcess, Startlast, SetAsync, TrimZombies,
     WaitForAny, WaitForOperand, Sigsuspend, Woken, WaitjReturns, RemoveMarked,
     MarkedRemoved, Runtraps, J_exit, J_exitNotify
<1>3. CASE Command
  BY <1>3 DEF Command, ExchildFirst, WaitCommand, J_resume, J_async, J_jobs,
     J_notify, SetMonitor, Exit, Subshell
<1>4. CASE Failure
  BY <1>4 DEF Failure, ForkFailsFirst, ForkFailsNext, OpenpipeFails
<1> QED BY <1>1, <1>2, <1>3, <1>4 DEF Next

(* Every step keeps TtyInv: the terminal is given to the job that comes to *)
(* the foreground, and j_waitj() takes it back.                            *)
LEMMA TtyStep ==
    ASSUME Env \intersect {"forkfail", "pipefail", "signal"} = {},
           IInv, IInv', TtyInv, [Next]_vars
    PROVE  TtyInv'
<1>0. /\ Listed \subseteq JobId /\ Listed' \subseteq JobId /\ TypeOK
      /\ ttypgrp \in Pid \union {ShellPgrp} /\ pend' # "fatal"
  <2>1. TypeOK /\ TypeOK'
    BY DEF IInv
  <2> QED BY <2>1, ListedLemma, PendLemma DEF TypeOK, Listed, Jobs, TtyInv
<1>1. CASE ~Busy
  <2>1. /\ \A j \in Listed : "FG" \notin job[j].flags
        /\ ttypgrp = ShellPgrp
    BY <1>1 DEF TtyInv, Foreground, Busy
  <2>2. CASE ExchildFirst
    <3>1. PICK j \in JobId, n \in JobId, flags \in KindFlags, q \in FreePid :
                q \in Pid /\ Begun(j, n, flags, q)
      BY <2>2, BegunLemma
    <3>2. /\ Listed' = Listed \union {j} /\ last_job' = j
          /\ job'[j].flags = flags
          /\ pc' \in IF "XXCOM" \in flags THEN {"pipe", "comsub"}
                     ELSE {"pipe", "lastproc"}
      BY <3>1 DEF Begun
    <3>3. monitor' = monitor
      BY <2>2 DEF ExchildFirst, StartCommand
    <3>4. ~({"FG", "XXCOM"} \subseteq flags)
      BY DEF KindFlags
    <3>5. \A k \in Listed' : "FG" \in job'[k].flags => Foreground(k)'
      BY <2>1, <2>2, <3>2, <3>4, FgLemma DEF J_resume, ExchildFirst, Foreground
    <3>6. ttypgrp' # ShellPgrp => /\ monitor /\ "FG" \in flags
                                  /\ job'[j].pgrp = ttypgrp'
      BY <2>1, <3>1 DEF Begun
    <3> QED BY <1>0, <3>2, <3>3, <3>4, <3>5, <3>6 DEF TtyInv
  <2>3. CASE J_resume
    <3>1. PICK j \in Listed, bg \in BOOLEAN : Resumes(j, bg)
      BY <2>3, ResumesLemma
    <3>2. monitor /\ monitor' = monitor
      BY <2>3 DEF J_resume, StartCommand
    <3>3. ~ExchildFirst
      BY <2>3, <3>1 DEF ExchildFirst, Resumes, waitvars, IInv, WaitInv, StartCommand, JobId, None
    <3>4. \A k \in Listed' : "FG" \in job'[k].flags => Foreground(k)'
      BY <2>1, <3>3, FgLemma DEF Foreground
    <3>5. pc' # "pipe"
      BY <3>1 DEF Resumes
    <3>6. CASE bg
      <4>1. ttypgrp' = ttypgrp
        BY <3>1, <3>6 DEF Resumes
      <4> QED BY <1>0, <2>1, <3>4, <3>5, <4>1 DEF TtyInv, ShellPgrp
    <3>7. CASE ~bg
      <4>1. /\ ttypgrp' \in {job[j].pgrp, ttypgrp} /\ Listed' = Listed
            /\ job'[j].pgrp = job[j].pgrp
            /\ job'[j].flags = ResumedFlags(j, bg) \union {"WAITING"}
        BY <3>1, <3>7 DEF Resumes
      <4>2. "FG" \in job'[j].flags
        BY <3>7, <4>1 DEF ResumedFlags
      <4> QED BY <1>0, <2>1, <3>2, <3>4, <3>5, <4>1, <4>2 DEF TtyInv, ShellPgrp
    <3> QED BY <3>6, <3>7
  <2>4. CASE ~ExchildFirst /\ ~J_resume
    <3>1. \A j \in Listed' : "FG" \notin job'[j].flags
      BY <2>1, <2>4, FgLemma
    <3>2. ttypgrp' = ShellPgrp
      BY <1>1, <2>1, <2>4, TtyLemma
    <3>3. pc' = "pipe" => last_job' \in Listed'
      BY DEF IInv, StartInv, LastInv
    <3> QED BY <1>0, <3>1, <3>2, <3>3 DEF TtyInv, ShellPgrp
  <2> QED BY <2>2, <2>3, <2>4
<1>2. CASE Busy
  <2>1. \A k \in Listed' : "FG" \in job'[k].flags =>
               k \in Listed /\ "FG" \in job[k].flags
    BY <1>2, FgLemma DEF Busy, ExchildFirst, J_resume, StartCommand
  <2>2. CASE ExchildNext
    <3>1. PICK q \in FreePid : q \in Pid /\ Forked(last_job, job, q)
      BY <2>2, NextForkedLemma
    <3>2. /\ last_job \in Listed /\ last_job \in JobId /\ Listed' = Listed
          /\ pc = "pipe" /\ last_job' = last_job /\ monitor' = monitor
      BY <2>2, NextForkedLemma DEF listvars, modevars
    <3>3. /\ job'[last_job].flags = job[last_job].flags
          /\ \A k \in JobId : k # last_job => job'[k] = job[k]
      BY <3>1 DEF Forked
    <3>4. pc' \in {"pipe", "lastproc"} \/ "XXCOM" \in job[last_job].flags
      BY <2>2 DEF ExchildNext, NextPc
    <3>5. \A k \in Listed' : "FG" \in job'[k].flags => Foreground(k)'
      BY <2>1, <3>2, <3>4 DEF TtyInv, Foreground
    <3>6. CASE ttypgrp' = ttypgrp /\ job'[last_job].pgrp = job[last_job].pgrp
      BY <1>0, <3>2, <3>3, <3>5, <3>6 DEF TtyInv, ShellPgrp
    <3>7. CASE Leads(last_job, job) /\ "FG" \in job[last_job].flags
      <4>1. ttypgrp' = q /\ job'[last_job].pgrp = q /\ monitor
        BY <3>1, <3>7 DEF Forked, Leads
      <4> QED BY <1>0, <3>2, <3>3, <3>5, <3>7, <4>1 DEF TtyInv
    <3>8. CASE Leads(last_job, job) /\ "FG" \notin job[last_job].flags
      <4>1. ttypgrp' = ttypgrp
        BY <3>1, <3>8 DEF Forked
      <4>2. ttypgrp = ShellPgrp
        BY <3>2, <3>8 DEF TtyInv, Foreground
      <4> QED BY <1>0, <3>2, <3>3, <3>5, <4>1, <4>2 DEF TtyInv, ShellPgrp
    <3> QED BY <3>1, <3>6, <3>7, <3>8 DEF Forked
  <2>3. CASE LastProcess
    <3>1. /\ last_job \in Listed /\ pc = "lastproc" /\ wj' = last_job
          /\ UNCHANGED <<job_list, last_job, monitor, ttypgrp>>
          /\ IF "FG" \in job[last_job].flags THEN pc' = "wenter" /\ cont' = "fg"
             ELSE pc' = "setasync"
      BY <2>3 DEF LastProcess, IInv, StartInv, LastInv, listvars, modevars
    <3>2. \A k \in Listed : "FG" \in job[k].flags => k = last_job
      BY <3>1 DEF TtyInv, Foreground
    <3>3. \A k \in Listed' : "FG" \in job'[k].flags => Foreground(k)'
      BY <2>1, <3>1, <3>2 DEF Foreground
    <3>4. Listed' = Listed
      BY <3>1 DEF Listed
    <3>5. /\ job'[last_job].pgrp = job[last_job].pgrp
          /\ "FG" \in job[last_job].flags => "FG" \in job'[last_job].flags
      <4>1. last_job \in JobId
        BY <1>0, <3>1
      <4>2. CASE "FG" \in job[last_job].flags
        <5>1. StartJob(Waiting(job, last_job, "fg"), last_job)
          BY <2>3, <4>2 DEF LastProcess
        <5>2. /\ Marked(last_job)
              /\ job'[last_job].flags = job[last_job].flags \union {"STARTED"}
                  \union (IF Waiting(job, last_job, "fg") = job THEN {}
                          ELSE WaitFlags("fg"))
          BY <1>0, <4>1, <5>1, StartMarks
        <5> QED BY <4>2, <5>2 DEF Marked, FlagsOnly
      <4>3. CASE "FG" \notin job[last_job].flags
        <5>1. StartJob(job, last_job)
          BY <2>3, <4>3 DEF LastProcess
        <5>2. Marked(last_job)
          BY <1>0, <4>1, <5>1, StartMarks
        <5> QED BY <4>3, <5>2 DEF Marked, FlagsOnly
      <4> QED BY <4>2, <4>3
    <3>6. ttypgrp' # ShellPgrp => \E j \in Listed' : "FG" \in job'[j].flags
                                                  /\ job'[j].pgrp = ttypgrp'
      BY <3>1, <3>2, <3>4, <3>5 DEF TtyInv
    <3> QED BY <1>0, <3>1, <3>3, <3>6 DEF TtyInv, ShellPgrp
  <2>4. CASE Woken
    <3>1. UNCHANGED <<job_list, ttypgrp, monitor>> /\ InWait
      BY <2>4 DEF Woken, listvars, modevars, InWait
    <3>2. Listed' = Listed
      BY <3>1 DEF Listed
    <3>3. CASE UNCHANGED <<job, waitvars>> /\ pc' = "wenter"
      <4>1. \A k \in Listed : Foreground(k) => Foreground(k)'
        BY <3>1, <3>3 DEF Foreground, InWait, waitvars
      <4> QED BY <1>0, <3>1, <3>2, <3>3, <4>1 DEF TtyInv, ShellPgrp
    <3>4. CASE ~(UNCHANGED <<job, waitvars>> /\ pc' = "wenter")
      <4>1. Interruptible /\ pc' \in {"more", "ready"}
        BY <2>4, <3>4 DEF Woken, TtyInv, AfterOperand
      <4>2. \A k \in Listed : "FG" \notin job[k].flags
        BY <3>1, <4>1 DEF TtyInv, Foreground, Interruptible, InWait
      <4> QED BY <1>0, <2>1, <3>1, <3>2, <4>1, <4>2 DEF TtyInv, ShellPgrp
    <3> QED BY <3>3, <3>4
  <2>5. CASE WaitjReturns
    <3>1. /\ pc = "wenter" /\ wj \in Listed /\ pc' # "pipe"
          /\ ttypgrp' = IF Reclaims(wj) THEN ShellPgrp ELSE ttypgrp
      BY <2>5 DEF WaitjReturns, IInv, WaitInv, AfterOperand
    <3>2. job'[wj].flags = job[wj].flags \ {"WAITING", "W_ASYNC", "FG"}
      <4>1. TakenOff(wj, {"WAITING", "W_ASYNC", "FG"})
        BY <2>5 DEF WaitjReturns, TakenOff
      <4> QED BY <1>0, <3>1, <4>1, UnwaitingMarks
    <3>3. \A k \in Listed : "FG" \in job[k].flags => k = wj
      BY <3>1 DEF TtyInv, Foreground
    <3>4. \A k \in Listed' : "FG" \notin job'[k].flags
      BY <2>1, <3>2, <3>3
    <3>5. ttypgrp' = ShellPgrp
      <4>1. CASE ttypgrp # ShellPgrp
        <5>1. "FG" \in job[wj].flags /\ monitor /\ job[wj].pgrp = ttypgrp
          BY <3>3, <4>1 DEF TtyInv
        <5>2. ttypgrp # 0
          BY <1>0, <4>1, BoundsAssumption DEF Pid
        <5> QED BY <3>1, <5>1, <5>2 DEF Reclaims
      <4>2. CASE ttypgrp = ShellPgrp
        BY <3>1, <4>2
      <4> QED BY <4>1, <4>2
    <3> QED BY <1>0, <3>1, <3>4, <3>5 DEF TtyInv, ShellPgrp
  <2>6. CASE Reap
    <3>1. /\ pc = "susp" /\ UNCHANGED <<pc, wj, cont, monitor, ttypgrp>>
          /\ wj \in Listed /\ "WAITING" \in job[wj].flags
      BY <1>2, <2>6 DEF Reap, IInv, HandlerInv, WaitInv, Busy, waitvars, modevars
    <3>2. \A k \in Listed' : "FG" \in job'[k].flags => Foreground(k)'
      BY <2>1, <3>1 DEF TtyInv, Foreground
    <3>3. wj \in Listed' /\ job'[wj].pgrp = job[wj].pgrp
          /\ ("FG" \in job[wj].flags => "FG" \in job'[wj].flags)
      <4>0. wj \in Listed'
        BY <3>1 DEF IInv, WaitInv
      <4>1. PICK c \in news : Reaps(c)
        BY <2>6, ReapedLemma
      <4>2. \/ UNCHANGED job
            \/ \E j \in Listed : \E pr : Checked(j, pr)
        BY <4>1 DEF Reaps
      <4>3. ASSUME NEW j \in Listed, NEW pr, Checked(j, pr)
            PROVE  /\ job'[wj].pgrp = job[wj].pgrp
                   /\ "FG" \in job[wj].flags => "FG" \in job'[wj].flags
        <5>1. \/ UNCHANGED job
              \/ \E num : \/ Closed(j, pr, num, job[j].flags)
                          \/ Closed(j, pr, num, job[j].flags \union {"ZOMBIE"})
          BY <4>3 DEF Checked
        <5> QED BY <1>0, <3>1, <5>1 DEF Closed
      <4> QED BY <4>0, <4>2, <4>3
    <3>4. \A k \in Listed : "FG" \in job[k].flags => k = wj
      BY <3>1 DEF TtyInv, Foreground
    <3>5. ttypgrp' # ShellPgrp =>
            monitor' /\ \E j \in Listed' : "FG" \in job'[j].flags
                                            /\ job'[j].pgrp = ttypgrp'
      BY <3>1, <3>3, <3>4 DEF TtyInv
    <3> QED BY <1>0, <3>1, <3>2, <3>5 DEF TtyInv, ShellPgrp
  <2>7. CASE /\ UNCHANGED <<job_list, job, ttypgrp, monitor, last_job, wj, cont,
                             pend>>
             /\ pc' = pc \/ (InWait /\ InWait')
    <3>1. \A k \in Listed : Foreground(k) => Foreground(k)'
      BY <2>7 DEF Foreground, InWait
    <3>2. Listed' = Listed /\ (pc' = "pipe" => pc = "pipe")
      BY <2>7 DEF Listed, InWait
    <3> QED BY <1>0, <2>7, <3>1, <3>2 DEF TtyInv, ShellPgrp
  <2> QED BY <1>2, <2>2, <2>3, <2>4, <2>5, <2>6, <2>7, BusySteps
<1> QED BY <1>1, <1>2

(* A shell whose job control is never on does not touch the terminal.      *)
LEMMA NoControlStep ==
    ASSUME "toggle" \notin Env, IInv, ~monitor, ttypgrp = ShellPgrp, [Next]_vars
    PROVE  ~monitor' /\ ttypgrp' = ShellPgrp
<1>1. ~monitor'
  BY MonitorLemma
<1> SUFFICES ttypgrp' = ShellPgrp
  BY <1>1
<1>2. CASE ExchildFirst
  <2>1. PICK j \in JobId, n \in JobId, flags \in KindFlags, q \in FreePid :
            Begun(j, n, flags, q)
    BY <1>2, BegunLemma
  <2> QED BY <2>1 DEF Begun
<1>3. CASE ExchildNext
  BY <1>3, NextForkedLemma DEF Forked, Leads
<1>4. CASE WaitjReturns
  BY <1>4 DEF WaitjReturns
<1>5. CASE Busy /\ ~ExchildNext /\ ~WaitjReturns
  <2>1. CASE Handler \/ Signal \/ Child \/ UNCHANGED vars \/ Waitlast \/ Gone
    BY <2>1 DEF Handler, HandlerHolds, HandlerStarts, HandlerReturns, Reap, Signal,
       Child, vars, Waitlast, Gone
  <2>2. CASE Continue
    BY <1>5, <2>2 DEF Continue, LastProcess, Startlast, SetAsync, TrimZombies,
       WaitForAny, WaitForOperand, Sigsuspend, Woken, RemoveMarked,
       MarkedRemoved, Runtraps, J_exit, J_exitNotify
  <2>3. CASE Command
    BY <1>5, <2>3 DEF Command, ExchildFirst, WaitCommand, J_resume, J_async, J_jobs,
       J_notify, SetMonitor, Exit, Subshell, StartCommand, Busy
  <2>4. CASE Failure
    BY <2>4 DEF Failure, ForkFailsFirst, ForkFailsNext, OpenpipeFails
  <2> QED BY <2>1, <2>2, <2>3, <2>4 DEF Next
<1>6. CASE ~Busy /\ ~ExchildFirst
  BY <1>6, TtyLemma DEF J_resume
<1> QED BY <1>1, <1>2, <1>3, <1>4, <1>5, <1>6 DEF ExchildFirst, StartCommand, Busy

(* The terminal is the shell's or a foreground job's, and the shell's when *)
(* it reads or runs the next command: in a shell without job control, and  *)
(* in one with it as long as starting a pipeline does not fail and no      *)
(* signal cuts a wait short.                                               *)
THEOREM TtyIsOwned ==
    \/ ~Monitor /\ "toggle" \notin Env
    \/ Env \intersect {"forkfail", "pipefail", "signal"} = {}
    => (Spec => []TtyOwner)
<1>1. ASSUME ~Monitor, "toggle" \notin Env PROVE Spec => []TtyOwner
  <2> DEFINE Inv == ~monitor /\ ttypgrp = ShellPgrp
  <2>1. Init => Inv
    BY <1>1 DEF Init
  <2>2. IInv /\ Inv /\ [Next]_vars => Inv'
    BY <1>1, NoControlStep
  <2>3. Inv => TtyOwner
    BY DEF TtyOwner
  <2> HIDE DEF Inv
  <2> QED BY <2>1, <2>2, <2>3, Invariance, PTL DEF Spec
<1>2. ASSUME Env \intersect {"forkfail", "pipefail", "signal"} = {}
      PROVE Spec => []TtyOwner
  <2>1. Init => TtyInv
    BY DEF Init, TtyInv, Listed, Jobs, ShellPgrp
  <2>2. IInv /\ IInv' /\ TtyInv /\ [Next]_vars => TtyInv'
    BY <1>2, TtyStep
  <2>3. TtyInv => TtyOwner
    BY DEF TtyInv, TtyOwner, Foreground
  <2> QED BY <2>1, <2>2, <2>3, Invariance, PTL DEF Spec
<1> QED BY <1>1, <1>2

-----------------------------------------------------------------------------
(* Job numbers.                                                            *)

(* new_job() takes a number no listed job has, and put_job() none else.    *)
LEMMA NumbersStep ==
    ASSUME IInv, JobNumbersUnique, [Next]_vars
    PROVE  JobNumbersUnique'
<1>0. Listed \subseteq JobId
  BY ListedLemma DEF IInv
<1>1. CASE ExchildFirst
  <2>1. PICK j \in JobId, n \in JobId, flags \in KindFlags, q \in FreePid :
                q \in Pid /\ Begun(j, n, flags, q)
    BY <1>1, BegunLemma
  <2>2. /\ Listed' = Listed \union {j} /\ j \notin Listed
        /\ job'[j].num = n
        /\ \A i \in JobId : i # j => job'[i] = job[i]
        /\ \A i \in Listed : job[i].num # n
    BY <2>1 DEF Begun, NewNumber
  <2> QED BY <1>0, <2>2 DEF JobNumbersUnique
<1>2. CASE ~ExchildFirst
  <2>1. Listed' \subseteq Listed
        /\ \A k \in Listed : job'[k].num \in {job[k].num, -1}
    <3>1. CASE Reap
      <4>1. PICK c \in news : Reaps(c)
        BY <3>1, ReapedLemma
      <4>2. \/ UNCHANGED job /\ Listed' = Listed
            \/ \E j \in Listed : \E pr : Checked(j, pr)
        BY <4>1 DEF Reaps
      <4>3. ASSUME NEW j \in Listed, NEW pr, Checked(j, pr)
            PROVE  /\ Listed' \subseteq Listed
                   /\ \A k \in Listed : job'[k].num \in {job[k].num, -1}
        <5>1. Listed' \subseteq Listed
          BY <4>3 DEF Checked, Removed
        <5>2. \/ UNCHANGED job
              \/ \E flags : \/ Closed(j, pr, job[j].num, flags)
                            \/ Closed(j, pr, -1, flags)
          BY <4>3 DEF Checked
        <5> QED BY <1>0, <5>1, <5>2 DEF Closed
      <4> QED BY <4>2, <4>3
    <3>2. CASE ~Reap
      <4>1. Listed' \subseteq Listed
        <5>1. CASE SetAsync
          BY <5>1, SetAsyncList
        <5>2. CASE ~SetAsync
          BY <1>2, <3>2, <5>2, ListLemma DEF Unchanged, Unlisted, Removed
        <5> QED BY <5>1, <5>2
      <4>2. CASE ExchildNext
        BY <1>0, <4>1, <4>2, NextForkedLemma DEF Forked
      <4>3. CASE Subshell
        BY <1>0, <4>1, <4>3, SubshellMarks DEF IInv
      <4>4. CASE J_resume
        <5>1. PICK j \in Listed, bg \in BOOLEAN : Resumes(j, bg)
          BY <4>4, ResumesLemma
        <5> QED BY <1>0, <4>1, <5>1 DEF Resumes
      <4>5. CASE ~J_resume /\ ~Forks
        BY <1>0, <3>2, <4>1, <4>5, MarksLemma DEF Marked, FlagsOnly
      <4> QED BY <1>2, <4>2, <4>3, <4>4, <4>5 DEF Forks
    <3> QED BY <3>1, <3>2
  <2> QED BY <2>1 DEF JobNumbersUnique
<1> QED BY <1>1, <1>2

(* No two listed jobs have the same %n, whatever happens.                  *)
THEOREM NumbersAreUnique == Spec => []JobNumbersUnique
<1>1. Init => JobNumbersUnique
  BY DEF Init, JobNumbersUnique, Listed, Jobs
<1>2. IInv /\ JobNumbersUnique /\ [Next]_vars => JobNumbersUnique'
  BY NumbersStep
<1> QED BY <1>1, <1>2, Invariance, PTL DEF Spec

-----------------------------------------------------------------------------
(* The state of a job.                                                     *)

(* Only the handler itself is running after HandlerStarts.                 *)
LEMMA HandlingLemma ==
    ASSUME IInv, [Next]_vars, hnd'
    PROVE  HandlerStarts \/ (hnd /\ ~ExchildFirst)
<1>1. CASE Handler
  BY <1>1 DEF Handler, HandlerHolds, HandlerReturns, Reap, ExchildFirst,
     StartCommand
<1>2. CASE Signal \/ Child \/ UNCHANGED vars \/ Waitlast \/ Gone
  BY <1>2 DEF Signal, Child, vars, Waitlast, Gone, ExchildFirst, StartCommand
<1>3. CASE Continue
  BY <1>3 DEF Continue, ExchildNext, LastProcess, Startlast, SetAsync, TrimZombies,
     WaitForAny, WaitForOperand, Sigsuspend, Woken, WaitjReturns, RemoveMarked,
     MarkedRemoved, Runtraps, J_exit, J_exitNotify, ExchildFirst, StartCommand
<1>4. CASE Command
  BY <1>4 DEF Command, ExchildFirst, WaitCommand, J_resume, J_async, J_jobs,
     J_notify, SetMonitor, Exit, Subshell, StartCommand
<1>5. CASE Failure
  BY <1>5 DEF Failure, ForkFailsFirst, ForkFailsNext, OpenpipeFails, ExchildFirst,
     StartCommand
<1> QED BY <1>1, <1>2, <1>3, <1>4, <1>5 DEF Next

(* A step that changes neither what is recorded of a job's processes nor   *)
(* the job, but for its flags.                                             *)
LEMMA FrameLemma ==
    ASSUME NEW k \in Listed, JobOk(k),
           job'[k].state = job[k].state, job'[k].status = job[k].status,
           job'[k].last = job[k].last,
           "STARTED" \in job[k].flags => "STARTED" \in job'[k].flags,
           \A p \in ProcId : owner'[p] = k <=> owner[p] = k,
           \A p \in Procs(k) : proc'[p] = proc[p] /\ kern'[p] # "none",
           job[k].last \in ProcId
    PROVE  JobOk(k)'
<1>1. Procs(k)' = Procs(k)
  BY DEF Procs
<1>2. job[k].last \in Procs(k)
  BY DEF JobOk, Procs
<1>3. JobState(k, proc)' = JobState(k, proc)
  BY <1>1 DEF JobState
<1>4. Finished(k)' <=> Finished(k)
  BY DEF Finished
<1>5. owner'[job'[k].last] = k
  BY <1>2 DEF Procs
<1>6. \A p \in Procs(k)' : p <= job'[k].last /\ kern'[p] # "none"
  BY <1>1 DEF JobOk
<1>7. "STARTED" \notin job'[k].flags =>
           /\ job'[k].state = "running"
           /\ \A p \in Procs(k)' : proc'[p].state = "running"
  BY <1>1 DEF JobOk
<1>8. CASE job[k].state = "running"
  BY <1>1, <1>5, <1>6, <1>7, <1>8 DEF JobOk
<1>9. CASE job[k].state # "running"
  <2>1. \A p \in Procs(k)' : proc'[p].state # "running"
    BY <1>1, <1>9 DEF JobOk
  <2>2. job'[k].state = JobState(k, proc)'
    BY <1>3, <1>9 DEF JobOk
  <2>3. Finished(k)' => job'[k].status = proc'[job'[k].last].status
    BY <1>2, <1>4, <1>9 DEF JobOk
  <2> QED BY <1>5, <1>6, <1>7, <1>9, <2>1, <2>2, <2>3 DEF JobOk
<1> QED BY <1>8, <1>9

(* A process is linked into a job none of whose processes was reaped.      *)
LEMMA NewOkLemma ==
    ASSUME IInv, PidsInv, NEW j \in JobId, NEW q, NewProcess(j, q),
           job'[j].last = nprocs + 1, job'[j].state = "running",
           \A p \in Procs(j) : proc[p].state = "running" /\ kern[p] # "none"
    PROVE  /\ JobOk(j)'
           /\ \A p \in ProcId : \A k \in JobId : k # j /\ owner[p] = k =>
                  owner'[p] = k /\ proc'[p] = proc[p] /\ kern'[p] = kern[p]
           /\ \A p \in ProcId : \A k \in JobId : k # j /\ owner'[p] = k => owner[p] = k
<1>1. /\ nprocs \in Nat /\ owner \in [ProcId -> JobId \union {None}]
      /\ kern \in [ProcId -> KernState] /\ proc \in [ProcId -> ProcRecord]
  BY BoundsAssumption DEF IInv, TypeOK
<1>2. /\ nprocs + 1 \in ProcId
      /\ owner' = [owner EXCEPT ![nprocs + 1] = j]
      /\ proc' = [proc EXCEPT ![nprocs + 1] = NoProc]
      /\ kern' = [kern EXCEPT ![nprocs + 1] = "run"]
  BY DEF NewProcess
<1>3. \A p \in ProcId : p > nprocs => owner[p] = None
  <2> TAKE p \in ProcId
  <2>1. p \in Int /\ (p > nprocs <=> ~(p <= nprocs))
    BY <1>1 DEF ProcId
  <2> QED BY <2>1 DEF PidsInv
<1>4. None \notin JobId /\ nprocs + 1 > nprocs
  BY <1>1 DEF None, JobId
<1>5. owner[nprocs + 1] = None
  BY <1>2, <1>3, <1>4
<1>6. Procs(j)' = Procs(j) \union {nprocs + 1}
  BY <1>1, <1>2 DEF Procs
<1>7. \A p \in Procs(j)' : /\ proc'[p].state = "running" /\ kern'[p] # "none"
                           /\ p <= nprocs + 1
  <2>1. \A p \in Procs(j) : p <= nprocs + 1 /\ p # nprocs + 1 /\ p \in ProcId
    <3> TAKE p \in Procs(j)
    <3>1. p \in ProcId /\ owner[p] # None
      BY <1>4 DEF Procs
    <3>2. ~(p > nprocs) /\ p \in Int
      BY <1>3, <3>1 DEF ProcId
    <3> QED BY <1>1, <3>1, <3>2
  <2>2. nprocs + 1 <= nprocs + 1
    BY <1>1
  <2>3. proc'[nprocs + 1].state = "running" /\ kern'[nprocs + 1] # "none"
    BY <1>1, <1>2 DEF NoProc
  <2>4. \A p \in Procs(j) : proc'[p] = proc[p] /\ kern'[p] = kern[p]
    BY <1>1, <1>2, <2>1
  <2> QED BY <1>6, <2>1, <2>2, <2>3, <2>4
<1>8. nprocs + 1 \in Procs(j)' /\ owner'[nprocs + 1] = j
  BY <1>1, <1>2, <1>6
<1>9. JobOk(j)'
  BY <1>7, <1>8 DEF JobOk
<1> QED BY <1>1, <1>2, <1>4, <1>5, <1>9

(* The handler records what it is told of a started job and brings the     *)
(* state of the job in line.                                               *)
LEMMA ReapOkLemma ==
    ASSUME IInv, NEW c \in ProcId, NEW j \in Listed, owner[c] = j, JobOk(j),
           "STARTED" \in job[j].flags, UNCHANGED <<owner, kern>>,
           proc' = [proc EXCEPT ![c] = Reported(c)], Checked(j, proc'),
           j \in Listed'
    PROVE  JobOk(j)'
<1>1. proc \in [ProcId -> ProcRecord] /\ job[j].last \in ProcId
  BY DEF IInv, TypeOK, JobInv
<1>2. Procs(j)' = Procs(j)
  BY DEF Procs
<1>3. \A pr : JobState(j, pr)' = JobState(j, pr)'
  OBVIOUS
<1>4. JobState(j, proc)' = JobState(j, proc')
  BY <1>2 DEF JobState
<1>5. c \in Procs(j) /\ \A p \in Procs(j) : p # c => proc'[p] = proc[p]
  BY <1>1 DEF Procs
<1>6. proc'[c].state # "running"
  BY <1>1 DEF Reported
<1>7. CASE /\ \E p \in Procs(j) : proc'[p].state = "running"
           /\ UNCHANGED job
  <2>1. job[j].state = "running"
    BY <1>5, <1>6, <1>7 DEF JobOk
  <2> QED BY <1>2, <1>7, <2>1 DEF JobOk
<1>8. CASE /\ \A p \in Procs(j) : proc'[p].state # "running"
           /\ \E num, flags : Closed(j, proc', num, flags)
                              /\ "STARTED" \in flags
  <2>1. /\ job'[j].state = JobState(j, proc')
        /\ job'[j].status = proc'[job[j].last].status
        /\ job'[j].last = job[j].last /\ "STARTED" \in job'[j].flags
    BY <1>8 DEF Closed
  <2>2. job'[j].state # "running"
    BY <2>1 DEF JobState
  <2> QED BY <1>2, <1>4, <1>8, <2>1, <2>2 DEF JobOk
<1>9. "STARTED" \in job[j].flags \union {"ZOMBIE"}
  OBVIOUS
<1>10. ~Removed(job, j)
  BY DEF Removed
<1> QED BY <1>7, <1>8, <1>9, <1>10 DEF Checked

(* Every step keeps StatesInv: check_job() brings the state of a job in    *)
(* line when its last running process ends, j_resume() when it continues   *)
(* them.                                                                   *)
LEMMA StatesStep ==
    ASSUME "reuse" \notin Env, IInv, IInv', PidsInv, StatesInv, [Next]_vars
    PROVE  StatesInv'
<1>0. /\ Listed \subseteq JobId /\ Listed' \subseteq JobId /\ TypeOK
      /\ kern \in [ProcId -> KernState] /\ proc \in [ProcId -> ProcRecord]
      /\ news \subseteq ProcId /\ owner \in [ProcId -> JobId \union {None}]
      /\ \A k \in Listed : job[k].last \in ProcId
      /\ njobs \in Nat /\ nprocs \in Nat
  <2>1. TypeOK /\ TypeOK'
    BY DEF IInv
  <2> QED BY <2>1, ListedLemma, BoundsAssumption DEF TypeOK, Listed, Jobs, IInv, JobInv
<1>1. hnd' => ~PartlyStarted'
  <2>1. CASE HandlerStarts
    BY <2>1 DEF HandlerStarts, PartlyStarted, listvars, Listed
  <2>2. CASE hnd /\ ~ExchildFirst
    <3>1. \A k \in Listed : job[k].own => "STARTED" \in job[k].flags
      BY <2>2 DEF StatesInv, PartlyStarted
    <3>2. ~Subshell
      BY <2>2 DEF Subshell
    <3>3. \A k \in Listed' : /\ k \in Listed /\ job'[k].own = job[k].own
                             /\ "STARTED" \in job[k].flags =>
                                   "STARTED" \in job'[k].flags
      BY <2>2, <3>2, OwnLemma, StartedLemma
    <3> QED BY <3>1, <3>3 DEF PartlyStarted
  <2> QED BY <2>1, <2>2, HandlingLemma
<1> DEFINE procsok == \A p \in ProcId :
               /\ owner'[p] <= njobs'
               /\ proc'[p].state \in {"exited", "signalled"} /\ kern'[p] # "none" =>
                      proc'[p] = Reported(p)'
           jobsok == \A k \in Listed' : job'[k].own => JobOk(k)'
<1>2. ASSUME procsok, jobsok PROVE StatesInv'
  BY <1>1, <1>2 DEF StatesInv, Over
<1>3. \A p \in ProcId : kern'[p] = kern[p] => Reported(p)' = Reported(p)
  BY DEF Reported
<1>4. \A p \in ProcId : owner[p] \in Int
  BY <1>0 DEF JobId, None
<1> HIDE DEF procsok, jobsok
<1>5. CASE ExchildFirst
  <2>1. PICK j \in JobId, n \in JobId, flags \in KindFlags, q \in FreePid :
                q \in Pid /\ Begun(j, n, flags, q)
    BY <1>5, BegunLemma
  <2>2. /\ Listed' = Listed \union {j} /\ j \notin Listed
        /\ \A k \in JobId : k # j => job'[k] = job[k]
        /\ job'[j].own /\ NewProcess(j, q) /\ njobs' = j /\ j = njobs + 1
        /\ job'[j].last = nprocs + 1 /\ job'[j].state = "running"
    BY <2>1 DEF Begun, NewProcess
  <2>3. Procs(j) = {}
    BY <1>0, <1>4, <2>2 DEF StatesInv, Procs
  <2>4. /\ JobOk(j)'
        /\ \A p \in ProcId : \A k \in JobId : k # j /\ owner[p] = k =>
               owner'[p] = k /\ proc'[p] = proc[p] /\ kern'[p] = kern[p]
        /\ \A p \in ProcId : \A k \in JobId : k # j /\ owner'[p] = k => owner[p] = k
    BY <2>2, <2>3, NewOkLemma
  <2>5. ASSUME NEW k \in Listed, job[k].own PROVE JobOk(k)'
    <3>1. k # j /\ k \in JobId /\ job'[k] = job[k] /\ JobOk(k)
      BY <1>0, <2>2, <2>5 DEF StatesInv
    <3>2. \A p \in ProcId : owner'[p] = k <=> owner[p] = k
      BY <2>4, <3>1
    <3>3. \A p \in Procs(k) : proc'[p] = proc[p] /\ kern'[p] # "none"
      BY <2>4, <3>1 DEF Procs, JobOk
    <3> QED BY <1>0, <3>1, <3>2, <3>3, FrameLemma
  <2>6. jobsok
    BY <1>0, <2>2, <2>4, <2>5 DEF jobsok
  <2>7. procsok
    <3>1. ASSUME NEW p \in ProcId
          PROVE  /\ owner'[p] <= njobs'
                 /\ proc'[p].state \in {"exited", "signalled"} /\ kern'[p] # "none" =>
                      proc'[p] = Reported(p)'
      <4>1. CASE p = nprocs + 1
        BY <1>0, <2>2, <4>1 DEF NewProcess, NoProc
      <4>2. CASE p # nprocs + 1
        <5>1. owner'[p] = owner[p] /\ proc'[p] = proc[p] /\ kern'[p] = kern[p]
          BY <1>0, <2>2, <4>2 DEF NewProcess
        <5>2. owner'[p] <= njobs'
          BY <1>0, <1>4, <2>2, <5>1 DEF StatesInv
        <5> QED BY <1>3, <5>1, <5>2 DEF StatesInv, Over
      <4> QED BY <4>1, <4>2
    <3> QED BY <3>1 DEF procsok
  <2> QED BY <1>2, <2>6, <2>7
<1>6. CASE ExchildNext
  <2>0. PICK j \in JobId : j = last_job
    BY <1>6, NextForkedLemma
  <2>1. PICK q \in FreePid : q \in Pid /\ Forked(j, job, q)
    BY <1>6, <2>0, NextForkedLemma
  <2>2. /\ NewProcess(j, q) /\ job'[j].own = job[j].own
        /\ job'[j].last = nprocs + 1 /\ job'[j].state = job[j].state
        /\ \A k \in JobId : k # j => job'[k] = job[k]
    BY <2>1 DEF Forked, NewProcess
  <2>3. /\ j \in JobId /\ j \in Listed /\ Listed' = Listed /\ njobs' = njobs
        /\ job[j].own /\ "STARTED" \notin job[j].flags
    BY <1>6, <2>0, NextForkedLemma DEF IInv, StartInv
  <2>4. /\ job[j].state = "running"
        /\ \A p \in Procs(j) : proc[p].state = "running" /\ kern[p] # "none"
    BY <2>3 DEF StatesInv, JobOk
  <2>5. /\ JobOk(j)'
        /\ \A p \in ProcId : \A k \in JobId : k # j /\ owner[p] = k =>
               owner'[p] = k /\ proc'[p] = proc[p] /\ kern'[p] = kern[p]
        /\ \A p \in ProcId : \A k \in JobId : k # j /\ owner'[p] = k => owner[p] = k
    BY <2>2, <2>3, <2>4, NewOkLemma
  <2>6. ASSUME NEW k \in Listed, job[k].own, k # j PROVE JobOk(k)'
    <3>1. k # j /\ k \in JobId /\ job'[k] = job[k] /\ JobOk(k)
      BY <1>0, <2>2, <2>6 DEF StatesInv
    <3>2. \A p \in ProcId : owner'[p] = k <=> owner[p] = k
      BY <2>5, <3>1
    <3>3. \A p \in Procs(k) : proc'[p] = proc[p] /\ kern'[p] # "none"
      BY <2>5, <3>1 DEF Procs, JobOk
    <3> QED BY <1>0, <3>1, <3>2, <3>3, FrameLemma
  <2>7. jobsok
    BY <1>0, <2>2, <2>3, <2>5, <2>6 DEF jobsok
  <2>8. procsok
    <3>1. ASSUME NEW p \in ProcId
          PROVE  /\ owner'[p] <= njobs'
                 /\ proc'[p].state \in {"exited", "signalled"} /\ kern'[p] # "none" =>
                      proc'[p] = Reported(p)'
      <4>1. CASE p = nprocs + 1
        <5>1. owner'[p] = j /\ proc'[p] = NoProc
          BY <1>0, <2>2, <4>1 DEF NewProcess
        <5>2. j <= njobs
          BY <2>3 DEF IInv, JobInv
        <5> QED BY <2>3, <5>1, <5>2 DEF NoProc
      <4>2. CASE p # nprocs + 1
        <5>1. owner'[p] = owner[p] /\ proc'[p] = proc[p] /\ kern'[p] = kern[p]
          BY <1>0, <2>2, <4>2 DEF NewProcess
        <5> QED BY <1>3, <2>3, <5>1 DEF StatesInv, Over
      <4> QED BY <4>1, <4>2
    <3> QED BY <3>1 DEF procsok
  <2> QED BY <1>2, <2>7, <2>8
<1>7. CASE Subshell
  <2>1. /\ kern' = [p \in ProcId |-> "none"] /\ owner' = owner /\ njobs' = njobs + 1
        /\ Listed' = Listed
    BY <1>7 DEF Subshell, Listed
  <2>2. jobsok
    BY <1>0, <1>7, <2>1, SubshellMarks DEF jobsok
  <2>3. procsok
    BY <1>0, <1>4, <2>1 DEF procsok, StatesInv
  <2> QED BY <1>2, <2>2, <2>3
<1>8. CASE ~Forks
  <2>0. /\ \A k \in Listed' : k \in Listed /\ job'[k].own = job[k].own
        /\ \A k \in Listed : "STARTED" \in job[k].flags => "STARTED" \in job'[k].flags
    BY <1>8, OwnLemma, StartedLemma DEF Forks
  <2>1. owner' = owner /\ njobs' \in {njobs, njobs + 1}
    <3>1. CASE Reap
      BY <3>1 DEF Reap, procvars
    <3>2. CASE J_resume
      BY <3>2 DEF J_resume, procvars
    <3>3. CASE ForkFailsFirst
      BY <3>3 DEF ForkFailsFirst
    <3>4. CASE Handler /\ ~Reap
      BY <3>4 DEF Handler, HandlerHolds, HandlerStarts, HandlerReturns, procvars
    <3>5. CASE Continue /\ ~ExchildNext
      BY <3>5 DEF Continue, LastProcess, Startlast, SetAsync, TrimZombies,
         WaitForAny, WaitForOperand, Sigsuspend, Woken, WaitjReturns, RemoveMarked,
         MarkedRemoved, Runtraps, J_exit, J_exitNotify, procvars
    <3>6. CASE Command /\ ~ExchildFirst /\ ~Subshell /\ ~J_resume
      BY <3>6 DEF Command, WaitCommand, J_async, J_jobs, J_notify, SetMonitor, Exit,
         procvars
    <3>7. CASE ForkFailsNext \/ OpenpipeFails \/ Waitlast \/ Child \/ Signal
               \/ UNCHANGED vars
      BY <3>7 DEF ForkFailsNext, OpenpipeFails, Waitlast, Child, Signal, vars, procvars
    <3> QED BY <1>8, <3>1, <3>2, <3>3, <3>4, <3>5, <3>6, <3>7
            DEF Next, Failure, Gone, Forks
  <2>2. \A p \in ProcId : owner'[p] <= njobs'
    BY <1>0, <1>4, <2>1 DEF StatesInv
  <2>3. CASE Reap
    <3>1. /\ kern' = kern /\ hnd
      BY <2>3 DEF Reap
    <3>2. PICK c \in news :
              \/ Listed' = Listed /\ UNCHANGED <<job, proc>>
              \/ /\ owner[c] \in Listed
                 /\ proc' = [proc EXCEPT ![c] = Reported(c)]
                 /\ Checked(owner[c], proc')
      BY <2>3, ReapsSelf
    <3>3. CASE Listed' = Listed /\ UNCHANGED <<job, proc>>
      <4>1. procsok
        BY <1>3, <2>2, <3>1, <3>3 DEF procsok, StatesInv, Over
      <4>2. ASSUME NEW k \in Listed, job[k].own PROVE JobOk(k)'
        <5>1. JobOk(k)
          BY <4>2 DEF StatesInv
        <5>2. \A p \in Procs(k) : kern'[p] # "none"
          BY <3>1, <5>1 DEF JobOk
        <5> QED BY <1>0, <2>1, <3>3, <5>1, <5>2, FrameLemma
      <4> QED BY <1>2, <3>3, <4>1, <4>2 DEF jobsok
    <3>4. CASE /\ owner[c] \in Listed
               /\ proc' = [proc EXCEPT ![c] = Reported(c)]
               /\ Checked(owner[c], proc')
      <4>0. c \in ProcId /\ kern[c] # "none"
        BY <1>0 DEF PidsInv
      <4>1. procsok
        <5>1. \A p \in ProcId : proc'[p] = IF p = c THEN Reported(c) ELSE proc[p]
          BY <1>0, <3>4
        <5> QED BY <1>3, <2>2, <3>1, <5>1 DEF procsok, StatesInv, Over
      <4>2. job[owner[c]].own /\ "STARTED" \in job[owner[c]].flags
        BY <3>1, <3>4, <4>0 DEF PidsInv, StatesInv, PartlyStarted
      <4>3. ASSUME NEW k \in Listed', job[k].own PROVE JobOk(k)'
        <5>1. k \in Listed /\ JobOk(k)
          BY <2>0, <4>3 DEF StatesInv
        <5>2. CASE k = owner[c]
          BY <2>1, <3>1, <3>4, <4>0, <4>2, <5>1, <5>2, ReapOkLemma
        <5>3. CASE k # owner[c]
          <6>1. job'[k] = job[k]
            BY <1>0, <3>4, <5>1, <5>3 DEF Checked, Closed
          <6>2. \A p \in Procs(k) : proc'[p] = proc[p] /\ kern'[p] # "none"
            BY <1>0, <3>1, <3>4, <5>1, <5>3 DEF Procs, JobOk
          <6> QED BY <1>0, <2>1, <5>1, <6>1, <6>2, FrameLemma
        <5> QED BY <5>2, <5>3
      <4> QED BY <1>2, <2>0, <4>1, <4>3 DEF jobsok
    <3> QED BY <3>2, <3>3, <3>4
  <2>4. CASE J_resume
    <3>1. PICK j \in Listed, bg \in BOOLEAN : Resumes(j, bg)
      BY <2>4, ResumesLemma
    <3>2. /\ proc' = [p \in ProcId |-> IF p \in StoppedProcs(j) THEN NoProc ELSE proc[p]]
          /\ kern' = [p \in ProcId |-> IF p \in WokenProcs(j) THEN "run" ELSE kern[p]]
          /\ \A k \in JobId : k # j => job'[k] = job[k]
          /\ job'[j].state = ResumedState(j) /\ job'[j].status = job[j].status
          /\ job'[j].last = job[j].last
      BY <3>1 DEF Resumes
    <3>3. procsok
      <4>1. ASSUME NEW p \in ProcId, proc'[p].state \in {"exited", "signalled"},
                   kern'[p] # "none"
            PROVE  proc'[p] = Reported(p)'
        <5>1. proc'[p] = proc[p]
          BY <3>2, <4>1 DEF NoProc
        <5>2. kern[p] # "stop"
          BY <4>1, <5>1 DEF PidsInv, Over
        <5>3. kern'[p] = kern[p]
          BY <3>2, <5>2 DEF WokenProcs
        <5> QED BY <1>3, <4>1, <5>1, <5>3 DEF StatesInv, Over
      <4> QED BY <2>2, <4>1 DEF procsok
    <3>4. ASSUME NEW k \in Listed, job[k].own PROVE JobOk(k)'
      <4>1. JobOk(k)
        BY <3>4 DEF StatesInv
      <4>2. \A p \in Procs(k) : kern'[p] # "none"
        BY <3>2, <4>1 DEF JobOk, Procs
      <4>3. CASE k # j \/ StoppedProcs(j) = {}
        <5>1. \A p \in Procs(k) : proc'[p] = proc[p]
          BY <3>2, <4>3 DEF StoppedProcs, Procs
        <5>2. /\ job'[k].state = job[k].state /\ job'[k].status = job[k].status
              /\ job'[k].last = job[k].last
          BY <1>0, <3>2, <4>3 DEF ResumedState
        <5> QED BY <1>0, <2>0, <2>1, <4>1, <4>2, <5>1, <5>2, FrameLemma
      <4>4. CASE k = j /\ StoppedProcs(j) # {}
        <5>1. job'[j].state = "running"
          BY <3>2, <4>4 DEF ResumedState
        <5>2. Procs(j)' = Procs(j)
          BY <2>1 DEF Procs
        <5>3. \E p \in Procs(j) : proc'[p].state = "running"
          BY <3>2, <4>4 DEF StoppedProcs, Procs, NoProc
        <5>4. \A p \in Procs(j) : p <= job'[j].last /\ kern'[p] # "none"
          BY <3>2, <4>1, <4>2, <4>4 DEF JobOk
        <5>5. owner'[job'[j].last] = j
          BY <2>1, <3>2, <4>1, <4>4 DEF JobOk
        <5>6. "STARTED" \notin job'[j].flags =>
                  \A p \in Procs(j) : proc'[p].state = "running"
          BY <2>0, <3>2, <4>1, <4>4 DEF JobOk, Procs, NoProc
        <5> QED BY <4>4, <5>1, <5>2, <5>3, <5>4, <5>5, <5>6 DEF JobOk
      <4> QED BY <4>3, <4>4
    <3> QED BY <1>2, <2>0, <3>3, <3>4 DEF jobsok
  <2>5. CASE ~Reap /\ ~J_resume
    <3>1. proc' = proc /\ \A k \in JobId : Marked(k)
      BY <1>8, <2>5, MarksLemma
    <3>2. \A p \in ProcId : \/ kern'[p] = kern[p]
                            \/ kern[p] \in {"run", "stop"} /\ kern'[p] # "none"
      <4>1. CASE Child \/ ForkFailsNext \/ J_exit
        <5>1. PICK S \in SUBSET ProcId, k \in {"run", "stop", "exit", "kill"} : Sent(S, k)
          BY <4>1, SentLemma
        <5> QED BY <5>1 DEF Sent
      <4>2. CASE ~(Child \/ ForkFailsNext \/ J_exit)
        BY <1>8, <2>5, <4>2, KernLemma
      <4> QED BY <4>1, <4>2
    <3>3. procsok
      BY <1>3, <2>2, <3>1, <3>2 DEF procsok, StatesInv, Over, PidsInv
    <3>4. ASSUME NEW k \in Listed, job[k].own PROVE JobOk(k)'
      <4>1. JobOk(k)
        BY <3>4 DEF StatesInv
      <4>2. \A p \in Procs(k) : kern'[p] # "none"
        BY <3>2, <4>1 DEF JobOk, Procs
      <4>3. /\ job'[k].state = job[k].state /\ job'[k].status = job[k].status
            /\ job'[k].last = job[k].last
        BY <1>0, <3>1 DEF Marked, FlagsOnly
      <4> QED BY <1>0, <2>0, <2>1, <3>1, <4>1, <4>2, <4>3, FrameLemma
    <3> QED BY <1>2, <2>0, <3>3, <3>4 DEF jobsok
  <2> QED BY <2>3, <2>4, <2>5
<1> QED BY <1>5, <1>6, <1>7, <1>8 DEF Forks

(* The recorded states and statuses are those the kernel reports.          *)
LEMMA AgreeLemma == ASSUME IInv, StatesInv PROVE JobStateAgrees
<1> SUFFICES ASSUME NEW j \in Listed, job[j].own, "STARTED" \in job[j].flags,
                    job[j].state # "running"
             PROVE  LET states == {proc[p].state : p \in Procs(j)}
                    IN  /\ "running" \notin states
                        /\ job[j].state = IF "stopped" \in states THEN "stopped"
                                          ELSE IF "signalled" \in states
                                          THEN "signalled" ELSE "exited"
                        /\ Finished(j) =>
                             \E p \in Procs(j) :
                                 /\ \A q \in Procs(j) : q <= p
                                 /\ job[j].status = Reported(p).status
  BY DEF JobStateAgrees, StatesInv, JobOk
<1> DEFINE states == {proc[p].state : p \in Procs(j)}
           p == job[j].last
<1>1. /\ \A q \in Procs(j) : q <= p /\ kern[q] # "none" /\ proc[q].state # "running"
      /\ job[j].state = JobState(j, proc) /\ owner[p] = j
      /\ Finished(j) => job[j].status = proc[p].status
  BY DEF StatesInv, JobOk
<1>2. p \in ProcId /\ p \in Procs(j) /\ proc \in [ProcId -> ProcRecord]
  BY <1>1 DEF IInv, TypeOK, JobInv, Procs
<1>3. "running" \notin states
  BY <1>1
<1>4. job[j].state = IF "stopped" \in states THEN "stopped"
                     ELSE IF "signalled" \in states THEN "signalled" ELSE "exited"
  BY <1>1 DEF JobState
<1>5. ASSUME Finished(j)
      PROVE  /\ \A q \in Procs(j) : q <= p
             /\ job[j].status = Reported(p).status
  <2>1. proc[p].state # "stopped" /\ proc[p].state # "running"
    BY <1>1, <1>2, <1>4, <1>5 DEF Finished
  <2>2. proc[p].state \in State
    BY <1>2 DEF ProcRecord
  <2>3. Over(p) /\ kern[p] # "none"
    BY <1>1, <1>2, <2>1, <2>2 DEF Over, State
  <2>4. proc[p] = Reported(p)
    BY <1>2, <2>3 DEF StatesInv
  <2> QED BY <1>1, <1>5, <2>4
<1> HIDE DEF p, states
<1>6. Finished(j) => \E r \in Procs(j) : /\ \A q \in Procs(j) : q <= r
                                         /\ job[j].status = Reported(r).status
  BY <1>2, <1>5
<1> QED BY <1>3, <1>4, <1>6 DEF states

(* What JobStateAgrees needs holds of the initial state.                   *)
LEMMA StatesInit == ASSUME Init PROVE StatesInv /\ PidsInv /\ ZombiesOver /\ ZombiesCounted
<1>1. Listed = {} /\ nzombie = 0 /\ nprocs = 0
  BY DEF Init, Listed, Jobs
<1>2. \A p \in ProcId : ~(p <= 0)
  BY BoundsAssumption DEF ProcId
<1>3. PidsInv /\ ZombiesOver
  BY <1>1, <1>2 DEF Init, PidsInv, ZombiesOver, Over, NoProc
<1>4. Zombies = {}
  BY <1>1 DEF Zombies
<1>5. ZombiesCounted
  BY <1>1, <1>4, FS_EmptySet DEF ZombiesCounted, Zombies
<1>6. StatesInv
  BY <1>1 DEF Init, StatesInv, Over, NoProc, None
<1> QED BY <1>3, <1>5, <1>6

(* check_job(): a started job of ours counts as running exactly while one  *)
(* of its processes does; otherwise it has the state and the exit status   *)
(* that waitpid() reported, provided no process id is used twice.          *)
THEOREM StatesAgree == "reuse" \notin Env => (Spec => []JobStateAgrees)
<1> SUFFICES ASSUME "reuse" \notin Env PROVE Spec => []JobStateAgrees
  OBVIOUS
<1> DEFINE Inv == PidsInv /\ StatesInv
<1>1. Init => Inv
  BY StatesInit
<1>2. IInv /\ IInv' /\ Inv /\ [Next]_vars => Inv'
  BY PidsStep, StatesStep
<1>3. IInv /\ Inv => JobStateAgrees
  BY AgreeLemma
<1> HIDE DEF Inv
<1> QED BY <1>1, <1>2, <1>3, Invariance, PTL DEF Spec

-----------------------------------------------------------------------------
(* No internal error.                                                      *)

(* A job is being started.                                                 *)
Starting == pc \in {"pipe", "lastproc", "comsub"}

(* While a job is being started it stays last_job, unless fork() fails and *)
(* the job is removed: the handler does not touch a job that is not        *)
(* started.                                                                *)
LEMMA StartingLemma ==
    ASSUME IInv, [Next]_vars, Starting, "pipefail" \notin Env
    PROVE  \/ Starting' /\ last_job' = last_job
           \/ last_job \notin Listed'
           \/ last_job \in JobId /\ "STARTED" \in job'[last_job].flags
<1>0. last_job \in JobId /\ "STARTED" \notin job[last_job].flags /\ TypeOK
  BY DEF Starting, IInv, TypeOK, StartInv
<1>1. CASE HandlerHolds \/ HandlerStarts \/ HandlerReturns
  BY <1>1 DEF HandlerHolds, HandlerStarts, HandlerReturns, AfterHandler, listvars,
     Starting
<1>2. CASE Reap
  BY <1>2 DEF Reap, IInv, HandlerInv, Starting
<1>3. CASE ExchildNext
  BY <1>3, NextForkedLemma DEF Starting, listvars
<1>4. CASE LastProcess
  <2>1. StartJob(Waiting(job, last_job, "fg"), last_job) \/ StartJob(job, last_job)
    BY <1>4 DEF LastProcess
  <2> QED BY <1>0, <2>1, StartMarks
<1>5. CASE Startlast
  <2>1. StartJob(Waiting(job, last_job, "xxcom"), last_job)
    BY <1>0, <1>5 DEF Startlast, JobId, None
  <2> QED BY <1>0, <2>1, StartMarks
<1>6. CASE ForkFailsNext
  <2>1. last_job \in Listed /\ RemoveJob(job_list, job, last_job)
    BY <1>6 DEF ForkFailsNext, IInv, LastInv
  <2>2. job_list \in Seq(JobId) /\ NoRepeats(job_list) /\ Jobs(job_list) = Listed /\ LastInv
    BY DEF IInv, TypeOK, Listed
  <2>3. Listed' = Listed \ {last_job}
    BY <1>0, <2>1, <2>2, RemoveLemma
  <2> QED BY <2>3
<1>7. CASE Child \/ Signal \/ UNCHANGED vars
  BY <1>7 DEF Child, Signal, listvars, vars, Starting
<1>8. CASE Command \/ ForkFailsFirst \/ OpenpipeFails \/ Waitlast \/ Gone
  BY <1>8 DEF Command, ExchildFirst, WaitCommand, J_resume, J_async, J_jobs,
     J_notify, SetMonitor, Subshell, Exit, StartCommand, Starting,
     ForkFailsFirst, OpenpipeFails, Gone, Waitlast, vars
<1>9. CASE Continue /\ ~ExchildNext /\ ~LastProcess /\ ~Startlast
  BY <1>9 DEF Continue, SetAsync, TrimZombies, Starting,
     WaitForAny, WaitForOperand, RemoveMarked, Sigsuspend, Woken, WaitjReturns,
     MarkedRemoved, Runtraps, J_exit, J_exitNotify
<1> QED BY <1>1, <1>2, <1>3, <1>4, <1>5, <1>6, <1>7, <1>8, <1>9
        DEF Next, Handler, Failure

(* While a $() job's output is read the job stays, and stays marked.       *)
LEMMA ReadOnLemma ==
    ASSUME IInv, StartedInv, [Next]_vars, pc = "reading", pc' = "reading"
    PROVE  last_job' = last_job /\ "WAITING" \in job'[last_job].flags
<1>0. /\ last_job # None /\ "WAITING" \in job[last_job].flags
      /\ last_job \in Listed /\ last_job \in JobId
  BY ListedLemma DEF StartedInv, IInv, LastInv
<1>1. CASE HandlerHolds \/ HandlerStarts \/ HandlerReturns
  BY <1>0, <1>1 DEF HandlerHolds, HandlerStarts, HandlerReturns, listvars
<1>2. CASE Reap
  <2>1. PICK c \in news : Reaps(c)
    BY <1>2, ReapedLemma
  <2>2. \/ UNCHANGED <<job, last_job>>
        \/ \E j \in Listed : \E pr : Checked(j, pr)
    BY <2>1 DEF Reaps, KeepList
  <2>3. ASSUME NEW j \in Listed, NEW pr, Checked(j, pr)
        PROVE  last_job' = last_job /\ "WAITING" \in job'[last_job].flags
    <3>1. \/ UNCHANGED job
          \/ \E num : \/ Closed(j, pr, num, job[j].flags)
                      \/ Closed(j, pr, num, job[j].flags \union {"ZOMBIE"})
      BY <2>3 DEF Checked
    <3>2. "WAITING" \in job'[last_job].flags
      BY <1>0, <3>1 DEF Closed
    <3>3. \/ last_job' = last_job
          \/ "WAITING" \notin job[j].flags /\ Removed(job, j)
      BY <2>3 DEF Checked
    <3>4. last_job' = last_job
      BY <1>0, <3>3 DEF Removed
    <3> QED BY <3>2, <3>4
  <2> QED BY <1>0, <2>2, <2>3
<1>3. CASE Child \/ Signal \/ UNCHANGED vars
  BY <1>0, <1>3 DEF Child, Signal, listvars, vars
<1>4. CASE Command \/ Failure \/ Gone \/ Waitlast
  BY <1>0, <1>4 DEF Command, ExchildFirst, WaitCommand, J_resume, J_async, J_jobs,
     J_notify, SetMonitor, Subshell, Exit, StartCommand, Waitlast,
     Failure, ForkFailsFirst, ForkFailsNext, OpenpipeFails, Gone, vars
<1>5. CASE Continue
  BY <1>5 DEF Continue, ExchildNext, LastProcess, Startlast, SetAsync, TrimZombies,
     WaitForAny, WaitForOperand, RemoveMarked, Sigsuspend, Woken, WaitjReturns,
     MarkedRemoved, Runtraps, J_exit, J_exitNotify
<1> QED BY <1>1, <1>2, <1>3, <1>4, <1>5 DEF Next, Handler

(* startlast() marks the $() job as waited for.                            *)
LEMMA ReadMarked ==
    ASSUME IInv, Startlast, last_job' = last_job
    PROVE  last_job # None /\ "WAITING" \in job'[last_job].flags
<1>1. last_job \in JobId /\ last_job # None /\ job \in [JobId -> JobRecord]
  BY DEF Startlast, IInv, TypeOK, StartInv
<1> DEFINE F == job[last_job].flags \union {"WAITING"}
           jb == [job EXCEPT ![last_job].flags = F]
<1>2. Waiting(job, last_job, "xxcom") = jb
  BY DEF Waiting, WaitFlags
<1>3. jb[last_job].flags = F /\ jb \in [JobId -> JobRecord]
  <2>1. F \in SUBSET JobFlag
    BY <1>1 DEF JobRecord, JobFlag
  <2> HIDE DEF F
  <2>2. [job[last_job] EXCEPT !.flags = F] \in JobRecord
    BY <1>1, <2>1 DEF JobRecord
  <2>3. [job[last_job] EXCEPT !.flags = F].flags = F
    BY <1>1 DEF JobRecord
  <2> QED BY <1>1, <2>2, <2>3
<1>4. job' = [jb EXCEPT ![last_job].flags = @ \union {"STARTED"}]
  BY <1>1, <1>2 DEF Startlast, StartJob
<1> HIDE DEF jb
<1>5. job'[last_job].flags = jb[last_job].flags \union {"STARTED"}
  BY <1>1, <1>3, <1>4 DEF JobRecord
<1> QED BY <1>1, <1>3, <1>5

(* Every step keeps StartedInv: a job is not started only from exchild()   *)
(* to j_startjob(), and the handler removes no job marked as waited for.   *)
LEMMA StartedStep ==
    ASSUME "pipefail" \notin Env, IInv, StartedInv, [Next]_vars
    PROVE  StartedInv'
<1>1. ASSUME NEW k \in Listed', "STARTED" \notin job'[k].flags
      PROVE  Starting' /\ k = last_job'
  <2>1. CASE k \in Listed
    <3>1. Starting /\ k = last_job
      BY <1>1, <2>1, StartedLemma DEF StartedInv, Starting
    <3> QED BY <1>1, <3>1, StartingLemma
  <2>2. CASE k \notin Listed
    <3>1. ~Subshell
      BY <1>1, <2>2 DEF Subshell, Listed
    <3>2. ExchildFirst
      BY <1>1, <2>2, <3>1, OwnLemma
    <3>3. PICK j \in JobId, n \in JobId, flags \in KindFlags, q \in FreePid :
                  q \in Pid /\ Begun(j, n, flags, q)
      BY <3>2, BegunLemma
    <3>4. /\ Listed' = Listed \union {j} /\ last_job' = j
          /\ pc' \in {"pipe", "lastproc", "comsub"}
      BY <3>3 DEF Begun
    <3> QED BY <1>1, <2>2, <3>4 DEF Starting
  <2> QED BY <2>1, <2>2
<1>2. ASSUME pc' = "reading"
      PROVE  last_job' # None /\ "WAITING" \in job'[last_job'].flags
  <2>1. CASE pc = "reading"
    BY <1>2, <2>1, ReadOnLemma DEF StartedInv
  <2>2. CASE pc # "reading"
    BY <1>2, <2>2, EnterReading, ReadMarked
  <2> QED BY <2>1, <2>2
<1> QED BY <1>1, <1>2 DEF StartedInv, Starting

(* Every internal_errorf() of jobs.c is behind a condition that the        *)
(* invariants exclude.                                                     *)
LEMMA ErrorStep ==
    ASSUME "reuse" \notin Env, IInv, AsyncInv, PidsInv, ZombiesCounted, StatesInv,
           StartedInv, [Next]_vars
    PROVE  ierr' = ierr
<1>0. /\ TypeOK /\ LastInv /\ job_list \in Seq(JobId) /\ NoRepeats(job_list)
      /\ Jobs(job_list) = Listed /\ Listed \subseteq JobId
  BY ListedLemma DEF IInv, TypeOK, Listed
<1>1. CASE Reap
  <2>1. PICK c \in news :
              \/ ierr' = ierr
              \/ owner[c] \in Listed /\ Checked(owner[c], proc')
    BY <1>1, ReapsSelf
  <2>2. c \in ProcId /\ kern[c] # "none"
    BY DEF IInv, TypeOK, PidsInv
  <2>3. owner[c] \in Listed => "STARTED" \in job[owner[c]].flags
    BY <1>1, <2>2 DEF PidsInv, StatesInv, PartlyStarted, Reap
  <2> QED BY <2>1, <2>3 DEF Checked, Removed
<1>2. CASE ForkFailsNext
  <2>1. last_job \in Listed /\ RemoveJob(job_list, job, last_job)
    BY <1>2 DEF ForkFailsNext, IInv, LastInv
  <2> QED BY <1>0, <2>1, RemoveLemma
<1>3. CASE Waitlast
  <2>1. last_job \in Listed /\ last_job # None
    BY <1>3 DEF Waitlast, IInv, LastInv, StartedInv
  <2>2. "STARTED" \in job[last_job].flags
    BY <1>3, <2>1 DEF Waitlast, StartedInv
  <2> QED BY <1>3, <2>1, <2>2 DEF Waitlast
<1>4. CASE SetAsync
  <2>1. wj \in Listed /\ pc = "setasync"
    BY <1>4 DEF SetAsync, IInv, WaitInv, AsyncInv, WaitedJobListed
  <2>2. "STARTED" \in job[wj].flags
    BY <2>1 DEF StartedInv
  <2>3. Unknown => async_job \in Listed
    BY DEF Unknown, AsyncZombie, AsyncInv, NoDangling
  <2>4. ierr \in BOOLEAN
    BY <1>0 DEF TypeOK
  <2> QED BY <1>4, <2>2, <2>3, <2>4 DEF SetAsync
<1>5. CASE TrimZombies
  <2>1. CASE \E j \in OldZombies : RemoveJob(job_list, job, j)
    <3>1. PICK j \in OldZombies : RemoveJob(job_list, job, j)
      BY <2>1
    <3>2. j \in Listed
      BY DEF OldZombies
    <3> QED BY <1>0, <3>1, <3>2, RemoveLemma
  <2>2. CASE UNCHANGED ierr
    BY <2>2
  <2>3. CASE /\ nzombie > ChildMax /\ OldZombies = {}
             /\ ierr' = (ierr \/ "ZOMBIE" \notin job[async_job].flags \/ nzombie # 1)
    <3>1. nzombie = Cardinality(Zombies)
      BY DEF ZombiesCounted, Zombies
    <3>2. Zombies \subseteq {async_job}
      BY <2>3 DEF OldZombies, Zombies
    <3>3. Zombies # {}
      <4>1. nzombie # 0
        BY <1>0, <2>3, <3>1, BoundsAssumption, ZombiesFinite
      <4> QED BY <3>1, <4>1, FS_EmptySet
    <3>4. Zombies = {async_job}
      BY <3>2, <3>3
    <3>5. Cardinality({async_job}) = 1
      BY FS_Singleton
    <3>6. nzombie = 1 /\ "ZOMBIE" \in job[async_job].flags
      BY <3>1, <3>4, <3>5 DEF Zombies
    <3>7. ierr \in BOOLEAN
      BY <1>0 DEF TypeOK
    <3> QED BY <2>3, <3>6, <3>7
  <2> QED BY <1>5, <2>1, <2>2, <2>3 DEF TrimZombies
<1>6. CASE WaitjReturns
  <2>1. wj \in Listed
    BY <1>6 DEF WaitjReturns, IInv, WaitInv
  <2>2. RemoveJob(job_list, job', wj) \/ KeepList(job_list)
    BY <1>6 DEF WaitjReturns
  <2> QED BY <1>0, <2>1, <2>2, RemoveLemma DEF KeepList
<1>7. CASE RemoveMarked
  <2>1. PICK i \in ToRemove : RemoveJob(job_list, job, job_list[i])
    BY <1>7 DEF RemoveMarked
  <2>2. job_list[i] \in Listed
    BY <1>0, ListedLemma DEF ToRemove
  <2> QED BY <1>0, <2>1, <2>2, RemoveLemma
<1>8. CASE Handler /\ ~Reap
  BY <1>8 DEF Handler, HandlerHolds, HandlerStarts, HandlerReturns
<1>9. CASE Continue /\ ~SetAsync /\ ~TrimZombies /\ ~WaitjReturns /\ ~RemoveMarked
  BY <1>9 DEF Continue, ExchildNext, LastProcess, Startlast, WaitForAny,
     WaitForOperand, Sigsuspend, Woken, MarkedRemoved, Runtraps, J_exit,
     J_exitNotify
<1>10. CASE Command
  BY <1>10 DEF Command, ExchildFirst, WaitCommand, J_resume, J_async, J_jobs,
     J_notify, SetMonitor, Subshell, Exit
<1>11. CASE ForkFailsFirst \/ OpenpipeFails \/ Child \/ Signal \/ Gone \/ UNCHANGED vars
  BY <1>11 DEF ForkFailsFirst, OpenpipeFails, Child, Signal, Gone, vars
<1> QED BY <1>1, <1>2, <1>3, <1>4, <1>5, <1>6, <1>7, <1>8, <1>9, <1>10, <1>11
        DEF Next, Failure

(* put_job(), remove_job() and check_job(): no internal error is reached,  *)
(* states and statuses are those of the processes, and the numbers that    *)
(* name jobs are different, unless a pipe cannot be opened, FMONITOR is    *)
(* changed, or the kernel uses a process id again that is still listed.    *)
THEOREM JobsAreSound ==
    Env \intersect {"toggle", "reuse", "pipefail"} = {} => (Spec => []JobsSound)
<1> SUFFICES ASSUME Env \intersect {"toggle", "reuse", "pipefail"} = {}
             PROVE  Spec => []JobsSound
  OBVIOUS
<1>0. "toggle" \notin Env /\ "reuse" \notin Env /\ "pipefail" \notin Env
  OBVIOUS
<1> DEFINE Inv == StartedInv /\ NoInternalError
           Others == PidsInv /\ ZombiesOver /\ ZombiesCounted /\ StatesInv
<1>1. Init => Inv
  BY DEF Init, StartedInv, NoInternalError, Listed, Jobs
<1>2. Init => Others
  BY StatesInit
<1>3. IInv /\ IInv' /\ Others /\ [Next]_vars => Others'
  BY <1>0, PidsStep, ZombiesOverStep, CountStep, StatesStep
<1>4. Spec => []AsyncInv
  BY <1>0, AsyncInvariance
<1>5. IInv /\ AsyncInv /\ Others /\ Inv /\ [Next]_vars => Inv'
  BY <1>0, StartedStep, ErrorStep DEF NoInternalError
<1>6. Spec => []JobStateAgrees /\ []JobNumbersUnique
  BY <1>0, StatesAgree, NumbersAreUnique, PTL
<1>7. Inv /\ JobStateAgrees /\ JobNumbersUnique => JobsSound
  BY DEF JobsSound
<1> HIDE DEF Inv, Others
<1> QED BY <1>1, <1>2, <1>3, <1>4, <1>5, <1>6, <1>7, Invariance, PTL DEF Spec

-----------------------------------------------------------------------------
(* What becomes of a finished job.                                         *)

(* No step but those of fork(), check_job() and j_resume(), the start of a *)
(* job and the end of a wait changes a job but for four flags that it may  *)
(* be given.                                                               *)
Steady(k) == /\ FlagsOnly(k) /\ job[k].flags \subseteq job'[k].flags
             /\ job'[k].flags \subseteq
                    job[k].flags \union {"WAITING", "W_ASYNC", "KNOWN", "REMOVE"}
             /\ "KNOWN" \in job'[k].flags =>
                    "KNOWN" \in job[k].flags \/ k = async_job
Restless == \/ Forks \/ Reap \/ J_resume \/ LastProcess \/ Startlast
            \/ Woken \/ WaitjReturns
LEMMA SteadyLemma ==
    ASSUME IInv, [Next]_vars, ~Restless
    PROVE  \A k \in JobId : Steady(k)
<1>0. TypeOK
  BY DEF IInv
<1>1. ASSUME UNCHANGED job PROVE \A k \in JobId : Steady(k)
  BY <1>1 DEF Steady, FlagsOnly
<1>2. CASE \/ HandlerHolds \/ HandlerStarts \/ HandlerReturns \/ SetAsync
           \/ TrimZombies \/ Sigsuspend \/ RemoveMarked \/ MarkedRemoved
           \/ Runtraps \/ J_exit
  BY <1>1, <1>2 DEF HandlerHolds, HandlerStarts, HandlerReturns, SetAsync,
     TrimZombies, Sigsuspend, RemoveMarked, MarkedRemoved, Runtraps, J_exit
<1>3. CASE \/ WaitCommand \/ SetMonitor \/ Exit \/ ForkFailsFirst
           \/ ForkFailsNext \/ OpenpipeFails \/ Child \/ Signal \/ UNCHANGED vars
  BY <1>1, <1>3 DEF WaitCommand, SetMonitor, Exit, ForkFailsFirst,
     ForkFailsNext, OpenpipeFails, Child, Signal, vars
<1>4. CASE WaitForAny \/ WaitForOperand \/ Waitlast
  <2>1. UNCHANGED job \/ \E j, c : job' = Waiting(job, j, c)
    BY <1>4 DEF WaitForAny, WaitForOperand, Waitlast, BeginWaitj
  <2>2. ASSUME NEW j, NEW c, job' = Waiting(job, j, c), NEW k \in JobId
        PROVE  Steady(k)
    <3>1. /\ Marked(k) /\ (k # j => job'[k] = job[k])
          /\ j \in JobId => job'[j].flags = job[j].flags \union WaitFlags(c)
      BY <1>0, <2>2, WaitingMarks
    <3> QED BY <3>1 DEF Steady, Marked, WaitFlags
  <2> QED BY <1>1, <2>1, <2>2
<1>5. CASE J_async
  <2> DEFINE F == job[async_job].flags \union {"KNOWN"}
  <2>1. job' = [job EXCEPT ![async_job].flags = F]
    BY <1>5 DEF J_async
  <2>2. /\ F \subseteq job[async_job].flags
                  \union {"STARTED", "WAITING", "W_ASYNC", "KNOWN", "REMOVE"}
        /\ job[async_job].flags \ {"WAITING", "W_ASYNC", "FG"} \subseteq F
    OBVIOUS
  <2> HIDE DEF F
  <2>3. /\ \A k \in JobId : Marked(k) /\ (k # async_job => job'[k] = job[k])
        /\ async_job \in JobId => job'[async_job].flags = F
    BY <1>0, <2>1, <2>2, AssignFlags
  <2> QED BY <2>3 DEF Steady, Marked, F
<1>6. CASE J_jobs \/ J_notify \/ J_exitNotify
  <2>1. PICK S : MarkForRemoval(S)
    BY <1>6 DEF J_jobs, J_notify, J_exitNotify
  <2> QED BY <1>0, <2>1, RemovalMarks DEF Steady, Marked
<1> QED BY <1>2, <1>3, <1>4, <1>5, <1>6
        DEF Restless, Forks, Next, Handler, Continue, Command, Failure, Gone

(* Without signals nothing is flagged but, under job control, the ^C that  *)
(* a foreground job died of.                                               *)
LEMMA UnsignalledLemma ==
    ASSUME [Next]_vars, "signal" \notin Env, ~monitor, pend = "none"
    PROVE  pend' = "none"
<1>1. CASE Handler \/ Signal \/ Child \/ UNCHANGED vars \/ Waitlast \/ Gone
  BY <1>1 DEF Handler, HandlerHolds, HandlerStarts, HandlerReturns, Reap, Signal,
     Child, vars, Waitlast, Gone
<1>2. CASE Continue
  BY <1>2 DEF Continue, ExchildNext, LastProcess, Startlast, SetAsync, TrimZombies,
     WaitForAny, WaitForOperand, Sigsuspend, Woken, WaitjReturns, RemoveMarked,
     MarkedRemoved, Runtraps, J_exit, J_exitNotify
<1>3. CASE Command
  BY <1>3 DEF Command, ExchildFirst, WaitCommand, J_resume, J_async, J_jobs,
     J_notify, SetMonitor, Exit, Subshell
<1>4. CASE Failure
  BY <1>4 DEF Failure, ForkFailsFirst, ForkFailsNext, OpenpipeFails
<1> QED BY <1>1, <1>2, <1>3, <1>4 DEF Next

(* A finished job is kept for someone; one in the foreground is waited for.*)
Accounted(k) ==
    /\ job[k].own /\ Finished(k) =>
           "ZOMBIE" \in job[k].flags \/ "WAITING" \in job[k].flags
    /\ "FG" \in job[k].flags /\ "STARTED" \in job[k].flags =>
           "WAITING" \in job[k].flags

(* Every step keeps AccountInv: the handler disposes of a job that nobody  *)
(* waits for, and j_waitj() of the one it has waited for.                  *)
LEMMA AccountStep ==
    ASSUME Env \intersect {"signal", "toggle"} = {}, IInv, AccountInv, [Next]_vars
    PROVE  AccountInv'
<1>0. /\ Listed \subseteq JobId /\ TypeOK /\ "signal" \notin Env
      /\ ~monitor /\ pend = "none" /\ \A k \in Listed : Accounted(k)
  BY ListedLemma DEF IInv, AccountInv, FinishedAccounted, Accounted
<1>1. ~monitor' /\ pend' = "none"
  BY <1>0, MonitorLemma, UnsignalledLemma
<1>2. ASSUME \A k \in Listed' : Accounted(k)' PROVE AccountInv'
  BY <1>1, <1>2 DEF AccountInv, FinishedAccounted, Accounted
<1>3. ASSUME NEW k \in Listed, job'[k] = job[k] PROVE Accounted(k)'
  BY <1>0, <1>3 DEF Accounted, Finished
<1>4. CASE ExchildFirst
  <2>1. PICK j \in JobId, n \in JobId, flags \in KindFlags, q \in FreePid :
                q \in Pid /\ Begun(j, n, flags, q)
    BY <1>4, BegunLemma
  <2>2. /\ j \notin Listed /\ Listed' = Listed \union {j}
        /\ job'[j].flags = flags /\ job'[j].state = "running"
        /\ \A k \in JobId : k # j => job'[k] = job[k]
    BY <2>1 DEF Begun
  <2>3. "STARTED" \notin flags
    BY DEF KindFlags
  <2>4. Accounted(j)'
    BY <2>2, <2>3 DEF Accounted, Finished
  <2> QED BY <1>0, <1>2, <1>3, <2>2, <2>4
<1>5. CASE ExchildNext
  <2>0. PICK j \in JobId : j = last_job
    BY <1>5, NextForkedLemma
  <2>1. PICK q \in FreePid : q \in Pid /\ Forked(j, job, q)
    BY <1>5, <2>0, NextForkedLemma
  <2>2. j \in Listed /\ Listed' = Listed
    BY <1>5, <2>0, NextForkedLemma
  <2>3. /\ job'[j].flags = job[j].flags
        /\ job'[j].state = job[j].state
        /\ job'[j].own = job[j].own
        /\ \A k \in JobId : k # j => job'[k] = job[k]
    BY <2>1 DEF Forked
  <2>4. Accounted(j)'
    BY <1>0, <2>2, <2>3 DEF Accounted, Finished
  <2> QED BY <1>0, <1>2, <1>3, <2>2, <2>3, <2>4
<1>6. CASE Subshell
  <2>1. Listed' = Listed
    BY <1>6 DEF Subshell, Listed
  <2>2. \A k \in Listed : Accounted(k)'
    BY <1>0, <1>6, SubshellMarks DEF Accounted
  <2> QED BY <1>2, <2>1, <2>2
<1>7. CASE Reap
  <2>1. PICK c \in news : Reaps(c)
    BY <1>7, ReapedLemma
  <2>2. \/ UNCHANGED job /\ Listed' = Listed
        \/ \E j \in Listed : \E pr : Checked(j, pr)
    BY <2>1 DEF Reaps
  <2>3. ASSUME NEW j \in Listed, NEW pr, Checked(j, pr), NEW k \in Listed'
        PROVE  Accounted(k)'
    <3>1. CASE UNCHANGED job /\ Listed' = Listed
      BY <1>3, <2>3, <3>1
    <3>2. CASE Removed(job, j) /\ Closed(j, pr, job[j].num, job[j].flags)
      <4>1. k \in Listed /\ k # j /\ job'[k] = job[k]
        BY <1>0, <2>3, <3>2 DEF Removed, Closed
      <4> QED BY <1>3, <4>1
    <3>3. CASE /\ Listed' = Listed
               /\ Closed(j, pr, -1, job[j].flags \union {"ZOMBIE"})
      <4>1. k # j => Accounted(k)'
        BY <1>0, <1>3, <2>3, <3>3 DEF Closed
      <4>2. job'[j].flags = job[j].flags \union {"ZOMBIE"}
        BY <3>3 DEF Closed
      <4>3. Accounted(j)'
        BY <1>0, <4>2 DEF Accounted
      <4> QED BY <4>1, <4>3
    <3>4. CASE /\ Listed' = Listed /\ "STARTED" \in job[j].flags
               /\ ~Unwatched(j, pr) /\ Closed(j, pr, job[j].num, job[j].flags)
      <4>1. k # j => Accounted(k)'
        BY <1>0, <1>3, <2>3, <3>4 DEF Closed
      <4>2. job'[j].flags = job[j].flags /\ job'[j].state = JobState(j, pr)
        BY <3>4 DEF Closed
      <4>3. JobState(j, pr) = "stopped" \/ "WAITING" \in job[j].flags
                                        \/ "FG" \in job[j].flags
        BY <1>0, <3>4 DEF Unwatched, Watched
      <4>4. JobState(j, pr) = "stopped" \/ "WAITING" \in job[j].flags
        BY <1>0, <3>4, <4>3 DEF Accounted
      <4>5. Accounted(j)'
        BY <1>0, <4>2, <4>4 DEF Accounted, Finished
      <4> QED BY <4>1, <4>5
    <3> QED BY <2>3, <3>1, <3>2, <3>3, <3>4 DEF Checked
  <2> QED BY <1>2, <1>3, <2>2, <2>3
<1>8. CASE LastProcess
  <2>1. last_job \in JobId /\ last_job \in Listed /\ Listed' = Listed
    BY <1>0, <1>8 DEF LastProcess, IInv, LastInv, StartInv, listvars, Listed
  <2>2. PICK j \in JobId : j = last_job /\ j \in Listed
    BY <2>1
  <2>3. CASE "FG" \in job[j].flags
    <3>1. StartJob(Waiting(job, j, "fg"), j)
      BY <1>8, <2>2, <2>3 DEF LastProcess
    <3>2. Waiting(job, j, "fg") = job => "WAITING" \in job[j].flags
      BY <1>0 DEF Waiting, WaitFlags, TypeOK, JobRecord
    <3>3. /\ \A k \in JobId : k # j => job'[k] = job[k]
          /\ Marked(j) /\ "WAITING" \in job'[j].flags
      BY <1>0, <3>1, <3>2, StartMarks DEF WaitFlags
    <3>4. Accounted(j)'
      BY <3>3 DEF Accounted
    <3> QED BY <1>0, <1>2, <1>3, <2>1, <3>3, <3>4
  <2>4. CASE "FG" \notin job[j].flags
    <3>1. StartJob(job, j)
      BY <1>8, <2>2, <2>4 DEF LastProcess
    <3>2. /\ \A k \in JobId : k # j => job'[k] = job[k]
          /\ Marked(j) /\ job'[j].flags = job[j].flags \union {"STARTED"}
      BY <1>0, <3>1, StartMarks
    <3>3. Accounted(j)'
      BY <1>0, <2>2, <2>4, <3>2 DEF Accounted, Marked, FlagsOnly, Finished
    <3> QED BY <1>0, <1>2, <1>3, <2>1, <3>2, <3>3
  <2> QED BY <2>3, <2>4
<1>9. CASE Startlast
  <2>1. last_job \in JobId /\ last_job # None /\ Listed' = Listed
    BY <1>0, <1>9 DEF Startlast, IInv, LastInv, StartInv, listvars, Listed
  <2>2. PICK j \in JobId : j = last_job
    BY <2>1
  <2>3. StartJob(Waiting(job, j, "xxcom"), j)
    BY <1>9, <2>1, <2>2 DEF Startlast
  <2>4. Waiting(job, j, "xxcom") = job => "WAITING" \in job[j].flags
    BY <1>0 DEF Waiting, WaitFlags, TypeOK, JobRecord
  <2>5. /\ \A k \in JobId : k # j => job'[k] = job[k]
        /\ "WAITING" \in job'[j].flags
    BY <1>0, <2>3, <2>4, StartMarks DEF WaitFlags
  <2>6. Accounted(j)'
    BY <2>5 DEF Accounted
  <2> QED BY <1>0, <1>2, <1>3, <2>1, <2>5, <2>6
<1>10. CASE Woken
  <2>1. UNCHANGED job /\ Listed' = Listed
    BY <1>0, <1>10 DEF Woken, listvars, Listed
  <2> QED BY <1>2, <1>3, <2>1
<1>11. CASE WaitjReturns
  <2>1. wj \in Listed /\ wj \in JobId
    BY <1>0, <1>11 DEF WaitjReturns, IInv, WaitInv
  <2>2. TakenOff(wj, {"WAITING", "W_ASYNC", "FG"})
    BY <1>11 DEF WaitjReturns, TakenOff
  <2>3. \A k \in JobId : k # wj => job'[k] = job[k]
    BY <1>0, <2>2, UnwaitingMarks
  <2>4. RemoveJob(job_list, job', wj)
    BY <1>0, <1>11 DEF WaitjReturns, MustWait
  <2>5. Listed' = Listed \ {wj}
    BY <1>0, <2>1, <2>4, RemoveLemma DEF IInv, TypeOK, Listed
  <2> QED BY <1>0, <1>2, <1>3, <2>3, <2>5
<1>12. CASE J_resume
  BY <1>0, <1>12 DEF J_resume
<1>13. CASE ~Restless
  <2>1. Listed' \subseteq Listed
    <3>1. CASE SetAsync
      BY <3>1, SetAsyncList
    <3>2. CASE ~SetAsync
      BY <1>13, <3>2, ListLemma DEF Unchanged, Unlisted, Removed, Restless, Forks
    <3> QED BY <3>1, <3>2
  <2>2. \A k \in Listed : Steady(k)
    BY <1>0, <1>13, SteadyLemma
  <2>3. ASSUME NEW k \in Listed PROVE Accounted(k)'
    BY <1>0, <2>2, <2>3 DEF Accounted, Steady, FlagsOnly, Finished
  <2> QED BY <1>2, <2>1, <2>3
<1> QED BY <1>4, <1>5, <1>6, <1>7, <1>8, <1>9, <1>10, <1>11, <1>12, <1>13
        DEF Restless, Forks

(* check_job() in a shell without job control and signals: a finished job  *)
(* is kept only for someone who waits, or as a zombie that is counted.     *)
THEOREM FinishedAreAccounted ==
    ~Monitor /\ Env \intersect {"signal", "toggle"} = {} =>
        (Spec => []FinishedAccounted)
<1> SUFFICES ASSUME ~Monitor, Env \intersect {"signal", "toggle"} = {}
             PROVE  Spec => []FinishedAccounted
  OBVIOUS
<1>1. Init => AccountInv
  BY DEF Init, AccountInv, FinishedAccounted, Listed, Jobs
<1>2. IInv /\ AccountInv /\ [Next]_vars => AccountInv'
  BY AccountStep
<1>3. AccountInv => FinishedAccounted
  BY DEF AccountInv
<1> QED BY <1>1, <1>2, <1>3, Invariance, PTL DEF Spec

-----------------------------------------------------------------------------
(* What the built-ins promise.                                             *)

(* j_waitj() and j_set_async() are called for jobs of the list.            *)
LEMMA WjLemma ==
    ASSUME IInv, [Next]_vars
    PROVE  wj' \in {wj, None} \/ wj' \in Listed
<1>1. CASE Handler \/ Failure \/ Child \/ Signal \/ Gone \/ UNCHANGED vars
  BY <1>1 DEF Handler, HandlerHolds, HandlerStarts, HandlerReturns, Reap, Failure,
     ForkFailsFirst, ForkFailsNext, OpenpipeFails, Child, Signal, Gone, vars, waitvars
<1>2. CASE LastProcess \/ Waitlast
  BY <1>2 DEF LastProcess, Waitlast, IInv, LastInv, StartInv, waitvars
<1>3. CASE WaitForAny
  <2>1. \/ wj' = wj
        \/ \E i \in DOMAIN job_list : wj' = job_list[i]
    BY <1>3 DEF WaitForAny, BeginWaitj, OwnRunning, waitvars
  <2> QED BY <2>1, ListedLemma DEF IInv
<1>4. CASE WaitForOperand \/ J_resume
  BY <1>4 DEF WaitForOperand, BeginWaitj, J_resume
<1>5. CASE \/ ExchildNext \/ Startlast \/ SetAsync \/ TrimZombies \/ Sigsuspend
           \/ Woken \/ WaitjReturns \/ RemoveMarked \/ MarkedRemoved \/ Runtraps
           \/ J_exit \/ J_exitNotify
  BY <1>5 DEF ExchildNext, Startlast, SetAsync, TrimZombies, Sigsuspend, Woken,
     WaitjReturns, RemoveMarked, MarkedRemoved, Runtraps, J_exit, J_exitNotify,
     waitvars
<1>6. CASE Command /\ ~J_resume
  BY <1>6 DEF Command, ExchildFirst, WaitCommand, J_async, J_jobs, J_notify,
     SetMonitor, Subshell, Exit, waitvars
<1> QED BY <1>1, <1>2, <1>3, <1>4, <1>5, <1>6 DEF Next, Continue

(* $! is set by j_set_async() alone.                                       *)
LEMMA AsyncLemma ==
    ASSUME IInv, [Next]_vars, ~SetAsync
    PROVE  async_job' \in {async_job, None}
<1>1. CASE ExchildFirst
  BY <1>1 DEF ExchildFirst
<1>2. CASE Reap
  <2>1. PICK c \in news : Reaps(c)
    BY <1>2, ReapedLemma
  <2>2. \/ UNCHANGED async_job
        \/ \E j \in Listed : \E pr : Checked(j, pr)
    BY <2>1 DEF Reaps, KeepList
  <2> QED BY <2>2 DEF Checked, Removed
<1>3. CASE ~ExchildFirst /\ ~Reap
  BY <1>3, ListLemma DEF Unchanged, Unlisted, Removed
<1> QED BY <1>1, <1>2, <1>3

(* njobs only grows.                                                       *)
LEMMA NjobsLemma ==
    ASSUME IInv, [Next]_vars
    PROVE  njobs' \in {njobs, njobs + 1}
<1>1. CASE Handler \/ Signal \/ Child \/ UNCHANGED vars \/ Waitlast \/ Gone
  BY <1>1 DEF Handler, HandlerHolds, HandlerStarts, HandlerReturns, Reap, Signal,
     Child, vars, Waitlast, Gone, procvars
<1>2. CASE Continue
  BY <1>2 DEF Continue, ExchildNext, LastProcess, Startlast, SetAsync, TrimZombies,
     WaitForAny, WaitForOperand, Sigsuspend, Woken, WaitjReturns, RemoveMarked,
     MarkedRemoved, Runtraps, J_exit, J_exitNotify, procvars
<1>3. CASE Command
  BY <1>3 DEF Command, ExchildFirst, WaitCommand, J_resume, J_async, J_jobs,
     J_notify, SetMonitor, Exit, Subshell, procvars
<1>4. CASE Failure
  BY <1>4 DEF Failure, ForkFailsFirst, ForkFailsNext, OpenpipeFails, procvars
<1> QED BY <1>1, <1>2, <1>3, <1>4 DEF Next

(* What the flags of a job say of $!: how they may change.                 *)
Dates(k) == /\ "STARTED" \in job[k].flags => "STARTED" \in job'[k].flags
            /\ "KNOWN" \in job'[k].flags =>
                   "KNOWN" \in job[k].flags \/ k = async_job
LEMMA DatesLemma ==
    ASSUME IInv, [Next]_vars, ~ExchildFirst
    PROVE  \A k \in JobId : Dates(k)
<1>0. Listed \subseteq JobId /\ TypeOK
  BY ListedLemma DEF IInv
<1>1. CASE ~Restless
  BY <1>1, SteadyLemma DEF Steady, Dates
<1>2. CASE ExchildNext
  <2>1. PICK q \in FreePid : Forked(last_job, job, q)
    BY <1>2, NextForkedLemma
  <2> QED BY <2>1 DEF Forked, Dates
<1>3. CASE Subshell
  BY <1>0, <1>3, SubshellMarks DEF Dates
<1>4. CASE Reap
  <2>1. PICK c \in news : Reaps(c)
    BY <1>4, ReapedLemma
  <2>2. UNCHANGED job \/ \E j \in Listed : \E pr : Checked(j, pr)
    BY <2>1 DEF Reaps
  <2>3. ASSUME NEW j \in Listed, NEW pr, Checked(j, pr)
        PROVE  \A k \in JobId : Dates(k)
    <3>1. \/ UNCHANGED job
          \/ \E num : \/ Closed(j, pr, num, job[j].flags)
                      \/ Closed(j, pr, num, job[j].flags \union {"ZOMBIE"})
      BY <2>3 DEF Checked
    <3> QED BY <3>1 DEF Closed, Dates
  <2> QED BY <2>2, <2>3 DEF Dates
<1>5. CASE J_resume
  <2>1. PICK j \in Listed, bg \in BOOLEAN : Resumes(j, bg)
    BY <1>5, ResumesLemma
  <2>2. \A k \in JobId : k # j => job'[k] = job[k]
    BY <2>1 DEF Resumes
  <2>3. job'[j].flags \subseteq job[j].flags \union {"FG", "WAITING"}
        /\ job[j].flags \ {"KNOWN"} \subseteq job'[j].flags
    BY <2>1 DEF Resumes, ResumedFlags
  <2> QED BY <2>2, <2>3 DEF Dates
<1>6. CASE LastProcess \/ Startlast
  <2>1. last_job \in JobId
    BY <1>6 DEF LastProcess, Startlast, IInv, TypeOK, StartInv
  <2>2. PICK j \in JobId : j = last_job
    BY <2>1
  <2>3. PICK c : StartJob(Waiting(job, j, c), j) \/ StartJob(job, j)
    BY <1>6, <2>1, <2>2 DEF LastProcess, Startlast, JobId, None
  <2>4. /\ \A k \in JobId : k # j => job'[k] = job[k]
        /\ job[j].flags \subseteq job'[j].flags
        /\ job'[j].flags \subseteq
               job[j].flags \union {"STARTED", "WAITING", "W_ASYNC"}
    BY <1>0, <2>3, StartMarks DEF WaitFlags
  <2> QED BY <2>4 DEF Dates
<1>7. CASE Woken \/ WaitjReturns
  <2>1. UNCHANGED job \/ \E S \in SUBSET {"WAITING", "W_ASYNC", "FG"} :
                              TakenOff(wj, S)
    BY <1>7 DEF Woken, WaitjReturns, NotWaiting, TakenOff
  <2>2. ASSUME NEW S \in SUBSET {"WAITING", "W_ASYNC", "FG"}, TakenOff(wj, S)
        PROVE  \A k \in JobId : Dates(k)
    <3>1. /\ \A k \in JobId : k # wj => job'[k] = job[k]
          /\ wj \in JobId => job'[wj].flags = job[wj].flags \ S
      BY <1>0, <2>2, UnwaitingMarks
    <3> QED BY <3>1 DEF Dates
  <2> QED BY <2>1, <2>2 DEF Dates
<1> QED BY <1>1, <1>2, <1>3, <1>4, <1>5, <1>6, <1>7 DEF Restless, Forks

(* Every step keeps KnownInv: j_set_async() takes started jobs only, and   *)
(* j_async() marks none but theirs.                                        *)
LEMMA KnownStep ==
    ASSUME IInv, KnownInv, [Next]_vars
    PROVE  KnownInv'
<1>0. /\ Listed \subseteq JobId /\ njobs \in Nat /\ njobs' \in {njobs, njobs + 1}
      /\ \A j \in Listed : j <= njobs
      /\ JobId \subseteq Nat /\ None = 0 /\ None \notin JobId
      /\ async_job \in JobId \union {None} /\ wj \in JobId \union {None}
  <2>1. TypeOK /\ JobInv /\ Listed \subseteq JobId
    BY ListedLemma DEF IInv
  <2>2. njobs \in Nat /\ JobId \subseteq Nat /\ None = 0 /\ None \notin JobId
    BY <2>1, BoundsAssumption DEF TypeOK, JobId, None
  <2>3. \A j \in Listed : j <= njobs
    BY <2>1 DEF JobInv
  <2>4. async_job \in JobId \union {None} /\ wj \in JobId \union {None}
    BY <2>1 DEF TypeOK
  <2> QED BY <2>1, <2>2, <2>3, <2>4, NjobsLemma
<1>1. wj' <= njobs'
  <2>1. wj' \in Int /\ wj' <= njobs
    <3>1. CASE wj' = wj
      BY <1>0, <3>1 DEF KnownInv
    <3>2. CASE wj' = None
      BY <1>0, <3>2
    <3>3. CASE wj' \in Listed
      BY <1>0, <3>3
    <3> QED BY <3>1, <3>2, <3>3, WjLemma
  <2> QED BY <1>0, <2>1
<1>2. CASE ExchildFirst
  <2>1. PICK j \in JobId, n \in JobId, flags \in KindFlags, q \in FreePid :
                q \in Pid /\ Begun(j, n, flags, q)
    BY <1>2, BegunLemma
  <2>2. /\ j = njobs + 1 /\ njobs' = j /\ job'[j].flags = flags
        /\ \A k \in JobId : k # j => job'[k] = job[k]
    BY <2>1 DEF Begun
  <2>3. async_job' = async_job /\ "KNOWN" \notin flags
    BY <1>2 DEF ExchildFirst, KindFlags
  <2>4. async_job # j /\ async_job <= njobs'
    BY <1>0, <2>2 DEF KnownInv
  <2> QED BY <1>0, <1>1, <2>2, <2>3, <2>4 DEF KnownInv
<1>3. CASE ~ExchildFirst
  <2>1. \A k \in JobId : Dates(k)
    BY <1>3, DatesLemma
  <2>2. \/ async_job' \in {async_job, None}
        \/ UNCHANGED job /\ async_job' = wj /\ "STARTED" \in job[wj].flags
    <3>1. CASE SetAsync
      BY <3>1 DEF SetAsync
    <3>2. CASE ~SetAsync
      BY <3>2, AsyncLemma
    <3> QED BY <3>1, <3>2
  <2>3. async_job' <= njobs'
    <3>1. async_job <= njobs /\ wj <= njobs
      BY DEF KnownInv
    <3>2. async_job' \in {async_job, None, wj}
      BY <2>2
    <3> QED BY <1>0, <3>1, <3>2
  <2>4. async_job' # None => "STARTED" \in job'[async_job'].flags
    BY <1>0, <2>1, <2>2 DEF KnownInv, Dates
  <2>5. \A k \in JobId : "KNOWN" \in job'[k].flags => "STARTED" \in job'[k].flags
    BY <1>0, <2>1 DEF KnownInv, Dates
  <2> QED BY <1>1, <2>3, <2>4, <2>5 DEF KnownInv
<1> QED BY <1>2, <1>3

(* A job whose $! was asked for leaves the list in three places.           *)
LEMMA KeepsKnownStep ==
    ASSUME ~Notify, IInv, KnownInv, [Next]_vars
    PROVE  KeepsKnown
<1>0. /\ Listed \subseteq JobId /\ TypeOK /\ LastInv /\ job_list \in Seq(JobId)
      /\ NoRepeats(job_list) /\ Jobs(job_list) = Listed /\ Jobs(job_list') = Listed'
  BY ListedLemma DEF IInv, TypeOK, Listed
<1> SUFFICES ASSUME NEW j \in Listed, "KNOWN" \in job[j].flags, j \notin Listed'
             PROVE  wj = j \/ "REMOVE" \in job[j].flags \/ pc = "trim"
  BY <1>0 DEF KeepsKnown
<1>1. CASE Reap
  <2>1. PICK c \in news : Reaps(c)
    BY <1>1, ReapedLemma
  <2>2. Listed' = Listed \/ \E i \in Listed : \E pr : Checked(i, pr)
    BY <2>1 DEF Reaps
  <2>3. Listed' = Listed \/ \E i \in Listed : Removed(job, i) /\ Forgotten(i)
    BY <2>2 DEF Checked
  <2> QED BY <2>3 DEF Removed, Forgotten
<1>2. CASE SetAsync
  <2>1. Listed' = IF Unknown /\ async_job \in Listed THEN Listed \ {async_job}
                  ELSE Listed
    BY <1>2, SetAsyncList
  <2> QED BY <2>1 DEF Unknown
<1>3. CASE ForkFailsNext
  <2>1. /\ last_job \in Listed /\ RemoveJob(job_list, job, last_job)
        /\ "STARTED" \notin job[last_job].flags
    BY <1>3 DEF ForkFailsNext, IInv, LastInv, StartInv
  <2>2. Listed' = Listed \ {last_job}
    BY <1>0, <2>1, RemoveLemma
  <2> QED BY <1>0, <2>1, <2>2 DEF KnownInv
<1>4. CASE TrimZombies
  BY <1>4 DEF TrimZombies
<1>5. CASE RemoveMarked
  <2>1. PICK i \in ToRemove : RemoveJob(job_list, job, job_list[i])
    BY <1>5 DEF RemoveMarked
  <2>2. job_list[i] \in Listed /\ "REMOVE" \in job[job_list[i]].flags
    BY <1>0, ListedLemma DEF ToRemove
  <2>3. Listed' = Listed \ {job_list[i]}
    BY <1>0, <2>1, <2>2, RemoveLemma
  <2> QED BY <2>2, <2>3
<1>6. CASE WaitjReturns
  <2>1. wj \in Listed
    BY <1>6 DEF WaitjReturns, IInv, WaitInv
  <2>2. RemoveJob(job_list, job', wj) \/ job_list' = job_list
    BY <1>6 DEF WaitjReturns, KeepList
  <2>3. Listed' = Listed \ {wj} \/ Listed' = Listed
    BY <1>0, <2>1, <2>2, RemoveLemma DEF Listed
  <2> QED BY <2>3
<1>7. CASE ExchildFirst
  <2>1. PICK i \in JobId, n \in JobId, flags \in KindFlags, q \in FreePid :
                q \in Pid /\ Begun(i, n, flags, q)
    BY <1>7, BegunLemma
  <2> QED BY <2>1 DEF Begun
<1>8. CASE ~Removes /\ ~ExchildFirst
  BY <1>8, KeptLemma DEF Unchanged
<1> QED BY <1>1, <1>2, <1>3, <1>4, <1>5, <1>6, <1>7, <1>8 DEF Removes

(* Who has begun to exit exits.                                            *)
Ending == pc \in {"exiting", "byebye", "gone"}
LEMMA EndingLemma ==
    ASSUME [Next]_vars, Ending
    PROVE  Ending'
<1>1. CASE Handler \/ Signal \/ Child \/ UNCHANGED vars \/ Waitlast \/ Gone
  BY <1>1 DEF Handler, HandlerHolds, HandlerStarts, HandlerReturns, AfterHandler,
     Reap, Signal, Child, vars, Waitlast, Gone, Ending
<1>2. CASE Continue
  BY <1>2 DEF Continue, ExchildNext, LastProcess, Startlast, SetAsync, TrimZombies,
     WaitForAny, WaitForOperand, Sigsuspend, Woken, WaitjReturns, RemoveMarked,
     MarkedRemoved, Runtraps, J_exit, J_exitNotify, Ending
<1>3. CASE Command
  BY <1>3 DEF Command, ExchildFirst, WaitCommand, J_resume, J_async, J_jobs,
     J_notify, SetMonitor, Exit, Subshell, StartCommand, Ending
<1>4. CASE Failure
  BY <1>4 DEF Failure, ForkFailsFirst, ForkFailsNext, OpenpipeFails, StartCommand,
     Ending
<1> QED BY <1>1, <1>2, <1>3, <1>4 DEF Next

(* Every step keeps StopInv: j_resume() records that its processes go on.  *)
Halted(p) == proc[p].state = "stopped" /\ kern[p] = "run"
LEMMA StopStep ==
    ASSUME Env \intersect {"reuse", "extcont"} = {}, IInv, PidsInv, StopInv,
           [Next]_vars
    PROVE  StopInv'
<1>0. /\ "reuse" \notin Env /\ "extcont" \notin Env
      /\ kern \in [ProcId -> KernState] /\ proc \in [ProcId -> ProcRecord]
      /\ news \subseteq ProcId
  BY DEF IInv, TypeOK
<1>1. CASE Ending \/ J_exit
  <2>1. Ending'
    BY <1>1, EndingLemma DEF J_exit, Ending
  <2> QED BY <2>1 DEF Ending, StopInv
<1>2. CASE ~Ending /\ ~J_exit
  <2>0. \A p \in ProcId : ~Halted(p)
    BY <1>2 DEF StopInv, Ending, Halted
  <2> SUFFICES ASSUME NEW p \in ProcId PROVE ~Halted(p)'
    BY DEF StopInv, Halted
  <2>1. ASSUME proc'[p] = proc[p], kern'[p] = kern[p] \/ kern'[p] # "run"
        PROVE  ~Halted(p)'
    BY <2>0, <2>1 DEF Halted
  <2>2. CASE ExchildFirst \/ ExchildNext
    <3>1. \E j, q : NewProcess(j, q)
      <4>1. CASE ExchildFirst
        <5>1. PICK j \in JobId, n \in JobId, flags \in KindFlags, q \in FreePid :
                  Begun(j, n, flags, q)
          BY <4>1, BegunLemma
        <5>2. NewProcess(j, q)
          BY <5>1 DEF Begun, NewProcess
        <5> QED BY <5>2
      <4>2. CASE ExchildNext
        <5>1. PICK q \in FreePid : Forked(last_job, job, q)
          BY <4>2, NextForkedLemma
        <5>2. NewProcess(last_job, q)
          BY <5>1 DEF Forked, NewProcess
        <5> QED BY <5>2
      <4> QED BY <2>2, <4>1, <4>2
    <3>2. /\ proc' = [proc EXCEPT ![nprocs + 1] = NoProc]
          /\ kern' = [kern EXCEPT ![nprocs + 1] = "run"]
      BY <3>1 DEF NewProcess
    <3>3. CASE p = nprocs + 1
      BY <1>0, <3>2, <3>3 DEF NoProc, Halted
    <3>4. CASE p # nprocs + 1
      BY <1>0, <2>1, <3>2, <3>4
    <3> QED BY <3>3, <3>4
  <2>3. CASE Subshell
    BY <2>3 DEF Subshell, Halted
  <2>4. CASE Reap
    <3>1. PICK c \in news : UNCHANGED proc \/ proc' = [proc EXCEPT ![c] = Reported(c)]
      BY <1>0, <2>4, ReapsSelf
    <3>2. kern' = kern /\ kern[c] # "run"
      BY <1>0, <2>4 DEF Reap, PidsInv
    <3>3. CASE p = c
      BY <2>1, <3>1, <3>2, <3>3 DEF Halted
    <3>4. CASE p # c
      BY <1>0, <2>1, <3>1, <3>2, <3>4
    <3> QED BY <3>3, <3>4
  <2>5. CASE J_resume
    <3>1. PICK j \in Listed, bg \in BOOLEAN : Resumes(j, bg)
      BY <2>5, ResumesLemma
    <3>2. /\ proc'[p] = IF p \in StoppedProcs(j) THEN NoProc ELSE proc[p]
          /\ kern'[p] = IF p \in WokenProcs(j) THEN "run" ELSE kern[p]
      BY <3>1 DEF Resumes
    <3>3. CASE p \in StoppedProcs(j)
      BY <3>2, <3>3 DEF NoProc, Halted
    <3>4. CASE p \in WokenProcs(j) /\ p \notin StoppedProcs(j)
      BY <3>2, <3>4 DEF WokenProcs, StoppedProcs, Halted
    <3>5. CASE p \notin WokenProcs(j) /\ p \notin StoppedProcs(j)
      BY <2>1, <3>2, <3>5
    <3> QED BY <3>3, <3>4, <3>5
  <2>6. CASE ForkFailsNext
    BY <2>1, <2>6 DEF ForkFailsNext
  <2>7. CASE Child
    <3>1. PICK c \in ProcId : ChildDies(c) \/ ChildStops(c)
      BY <1>0, <2>7 DEF Child, ChildContinues
    <3>2. \E k \in {"exit", "kill", "stop"} : kern' = [kern EXCEPT ![c] = k]
      BY <3>1 DEF ChildDies, ChildStops, Changed
    <3>3. proc' = proc
      BY <2>7 DEF Child
    <3> QED BY <1>0, <2>1, <3>2, <3>3
  <2>8. CASE ~Forks /\ ~Reap /\ ~J_resume /\ ~ForkFailsNext /\ ~Child
    BY <1>2, <2>1, <2>8, MarksLemma, KernLemma
  <2> QED BY <2>2, <2>3, <2>4, <2>5, <2>6, <2>7, <2>8 DEF Forks
<1> QED BY <1>1, <1>2

(* `wait' ends from the head of its loop when it finds no job of ours that *)
(* is running, and none is: what is recorded of the processes is true.     *)
LEMMA EndsWaitAllStep ==
    ASSUME IInv, PidsInv, StatesInv, StopInv, [Next]_vars
    PROVE  EndsWaitAll
<1> SUFFICES ASSUME pc = "all", pc' = "ready", NEW j \in Listed, job[j].own,
                    NEW p \in Procs(j)
             PROVE  kern[p] # "run"
  BY DEF EndsWaitAll
<1>1. WaitForAny
  <2>1. CASE Handler \/ Signal \/ Child \/ UNCHANGED vars \/ Waitlast \/ Gone
    BY <2>1 DEF Handler, HandlerHolds, HandlerStarts, HandlerReturns, AfterHandler,
       Reap, Signal, Child, vars, Waitlast, Gone
  <2>2. CASE Continue
    BY <2>2 DEF Continue, ExchildNext, LastProcess, Startlast, SetAsync,
       TrimZombies, WaitForOperand, Sigsuspend, Woken, WaitjReturns, RemoveMarked,
       MarkedRemoved, Runtraps, J_exit, J_exitNotify
  <2>3. CASE Command
    BY <2>3 DEF Command, ExchildFirst, WaitCommand, J_resume, J_async, J_jobs,
       J_notify, SetMonitor, Exit, Subshell, StartCommand
  <2>4. CASE Failure
    BY <2>4 DEF Failure, ForkFailsFirst, ForkFailsNext, OpenpipeFails, StartCommand
  <2> QED BY <2>1, <2>2, <2>3, <2>4 DEF Next
<1>2. OwnRunning = {}
  BY <1>1 DEF WaitForAny, BeginWaitj
<1>3. job[j].state # "running"
  BY <1>2 DEF OwnRunning, Listed, Jobs
<1>4. p \in ProcId /\ proc[p].state # "running"
  BY <1>3 DEF StatesInv, JobOk, Procs
<1>5. proc[p].state \in State
  <2>1. proc[p] \in ProcRecord
    BY <1>4 DEF IInv, TypeOK
  <2> QED BY <2>1 DEF ProcRecord
<1>6. CASE proc[p].state = "stopped"
  BY <1>4, <1>6 DEF StopInv
<1>7. CASE Over(p)
  BY <1>4, <1>7 DEF PidsInv
<1> QED BY <1>4, <1>5, <1>6, <1>7 DEF State, Over

(* j_set_async(), check_job() and c_wait(): without `set -o notify' the    *)
(* status of a job whose $! was asked for is forgotten only after a wait, a*)
(* listing or beyond child_max; and unless others continue the shell's     *)
(* children, or a process id is used again, a `wait' without operands that *)
(* is not interrupted ends only when no process of a job of ours runs.     *)
THEOREM PromisesAreKept ==
    ~Notify /\ Env \intersect {"reuse", "extcont"} = {} => (Spec => PromisesKept)
<1> SUFFICES ASSUME ~Notify, Env \intersect {"reuse", "extcont"} = {}
             PROVE  Spec => PromisesKept
  OBVIOUS
<1> DEFINE Inv == PidsInv /\ StatesInv /\ StopInv /\ KnownInv
<1>1. Init => Inv
  <2>1. Init => KnownInv
    <3>1. Init => /\ async_job = 0 /\ wj = 0 /\ njobs = 0
                  /\ \A j \in JobId : job[j] = NoJob
      BY DEF Init, None
    <3> QED BY <3>1 DEF KnownInv, NoJob, None
  <2>2. Init => StopInv
    BY DEF Init, StopInv
  <2> QED BY <2>1, <2>2, StatesInit
<1>2. IInv /\ IInv' /\ Inv /\ [Next]_vars => Inv'
  BY PidsStep, StatesStep, StopStep, KnownStep
<1>3. IInv /\ Inv /\ [Next]_vars => KeepsKnown /\ EndsWaitAll
  BY KeepsKnownStep, EndsWaitAllStep
<1> HIDE DEF Inv
<1> QED BY <1>1, <1>2, <1>3, Invariance, PTL DEF Spec, PromisesKept

=============================================================================
