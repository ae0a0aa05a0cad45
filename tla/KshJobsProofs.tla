---------------------------- MODULE KshJobsProofs ----------------------------
(***************************************************************************)
(* Theorems about KshJobList and KshJobs, for every number of jobs and     *)
(* processes, every child_max and every environment: what the operations   *)
(* on the job list do to a list without repetitions; the data of jobs.c    *)
(* keeps its types and IInv; and no SIGCHLD is lost.  KshJobsSafety goes   *)
(* on from IInv.                                                           *)
(***************************************************************************)
EXTENDS KshJobs, SequenceTheorems, TLAPS

-----------------------------------------------------------------------------
(* The job list as a sequence.                                             *)

(* The pieces that RemoveAt and InsertAt cut a list into.                  *)
LEMMA PieceLemma ==
    ASSUME NEW S, NEW L \in Seq(S), NEW a \in 1..(Len(L) + 1),
           NEW b \in (a - 1)..Len(L)
    PROVE  /\ SubSeq(L, a, b) \in Seq(S)
           /\ Len(SubSeq(L, a, b)) = b - a + 1
           /\ \A k \in 1..(b - a + 1) : SubSeq(L, a, b)[k] = L[a + k - 1]
<1>1. \A k \in a..b : L[k] \in S
  OBVIOUS
<1> QED BY <1>1, SubSeqProperties

(* Their concatenation.                                                    *)
LEMMA JoinLemma ==
    ASSUME NEW S, NEW A \in Seq(S), NEW B \in Seq(S)
    PROVE  /\ A \o B \in Seq(S)
           /\ Len(A \o B) = Len(A) + Len(B)
           /\ DOMAIN (A \o B) = 1..(Len(A) + Len(B))
<1>1. A \o B \in Seq(S) /\ Len(A \o B) = Len(A) + Len(B)
  BY ConcatProperties
<1>2. DOMAIN (A \o B) = 1..(Len(A) + Len(B))
  BY <1>1, LenProperties
<1> QED BY <1>1, <1>2

(* Unlinking a job (remove_job, put_job) takes out that job and no other.  *)
LEMMA WithoutLemma ==
    ASSUME NEW S, NEW L \in Seq(S), NoRepeats(L), NEW j \in Jobs(L)
    PROVE  /\ Without(L, j) \in Seq(S)
           /\ NoRepeats(Without(L, j))
           /\ Jobs(Without(L, j)) = Jobs(L) \ {j}
<1> DEFINE i == Index(L, j)
           A == SubSeq(L, 1, i - 1)
           B == SubSeq(L, i + 1, Len(L))
           M == A \o B
<1>1. i \in DOMAIN L /\ L[i] = j
  BY DEF Jobs, Index
<1>2. Without(L, j) = M
  BY DEF Without, RemoveAt
<1>3. i \in 1..Len(L) /\ Len(L) \in Nat /\ DOMAIN L = 1..Len(L)
  BY <1>1
<1> HIDE DEF i
<1>4. /\ A \in Seq(S) /\ Len(A) = i - 1 /\ \A k \in 1..(i - 1) : A[k] = L[k]
      /\ B \in Seq(S) /\ Len(B) = Len(L) - i
      /\ \A k \in 1..(Len(L) - i) : B[k] = L[k + i]
  <2>1. 1 \in 1..(Len(L) + 1) /\ i - 1 \in (1 - 1)..Len(L)
    BY <1>3
  <2>2. /\ A \in Seq(S) /\ Len(A) = (i - 1) - 1 + 1
        /\ \A k \in 1..((i - 1) - 1 + 1) : A[k] = L[1 + k - 1]
    BY <2>1, PieceLemma, Zenon
  <2>3. i + 1 \in 1..(Len(L) + 1) /\ Len(L) \in ((i + 1) - 1)..Len(L)
    BY <1>3
  <2>4. /\ B \in Seq(S) /\ Len(B) = Len(L) - (i + 1) + 1
        /\ \A k \in 1..(Len(L) - (i + 1) + 1) : B[k] = L[(i + 1) + k - 1]
    BY <2>3, PieceLemma, Zenon
  <2> HIDE DEF A, B
  <2> QED BY <2>2, <2>4, <1>3
<1> HIDE DEF A, B
<1>5. M \in Seq(S) /\ Len(M) = Len(L) - 1 /\ DOMAIN M = 1..(Len(L) - 1)
  <2>1. /\ M \in Seq(S) /\ Len(M) = Len(A) + Len(B)
        /\ DOMAIN M = 1..(Len(A) + Len(B))
    BY <1>4, JoinLemma, Zenon
  <2> HIDE DEF M
  <2> QED BY <2>1, <1>3, <1>4
<1>6. ASSUME NEW k \in 1..(Len(L) - 1)
      PROVE  M[k] = IF k < i THEN L[k] ELSE L[k + 1]
  <2>1. CASE k < i
    BY <2>1, <1>3, <1>4
  <2>2. CASE ~(k < i)
    <3>1. k - Len(A) \in 1..Len(B) /\ (k - Len(A)) + i = k + 1
      BY <2>2, <1>3, <1>4
    <3>2. M[k] = B[k - Len(A)]
      BY <3>1, <1>3, <1>4
    <3> QED BY <3>1, <3>2, <2>2, <1>4
  <2> QED BY <2>1, <2>2
<1> HIDE DEF M
<1>7. NoRepeats(M)
  <2> SUFFICES ASSUME NEW k \in DOMAIN M, NEW m \in DOMAIN M, M[k] = M[m]
               PROVE  k = m
    BY DEF NoRepeats
  <2> DEFINE at(n) == IF n < i THEN n ELSE n + 1
  <2>1. at(k) \in DOMAIN L /\ at(m) \in DOMAIN L
    BY <1>3, <1>5
  <2>2. L[at(k)] = M[k] /\ L[at(m)] = M[m]
    BY <1>5, <1>6
  <2>3. at(k) = at(m)
    BY <2>1, <2>2 DEF NoRepeats
  <2> QED BY <2>3, <1>3, <1>5
<1>8. Jobs(M) \subseteq Jobs(L) \ {j}
  BY <1>1, <1>3, <1>5, <1>6 DEF NoRepeats, Jobs
<1>9. ASSUME NEW k \in DOMAIN L, L[k] # j
      PROVE  L[k] \in Jobs(M)
  <2>1. CASE k < i
    <3>1. k \in DOMAIN M /\ M[k] = L[k]
      BY <2>1, <1>3, <1>5, <1>6
    <3> QED BY <3>1 DEF Jobs
  <2>2. CASE k > i
    <3>1. k - 1 \in DOMAIN M /\ M[k - 1] = L[k]
      BY <2>2, <1>3, <1>5, <1>6
    <3> QED BY <3>1 DEF Jobs
  <2> QED BY <2>1, <2>2, <1>1, <1>3, <1>9
<1>10. Jobs(L) \ {j} \subseteq Jobs(M)
  BY <1>9 DEF Jobs
<1> QED BY <1>2, <1>5, <1>7, <1>8, <1>10

(* Linking a job in (put_job) adds that job and no other.                  *)
LEMMA InsertLemma ==
    ASSUME NEW S, NEW L \in Seq(S), NoRepeats(L), NEW j \in S,
           j \notin Jobs(L), NEW n \in 0..Len(L)
    PROVE  /\ InsertAt(L, n + 1, j) \in Seq(S)
           /\ NoRepeats(InsertAt(L, n + 1, j))
           /\ Jobs(InsertAt(L, n + 1, j)) = Jobs(L) \union {j}
<1> DEFINE A == SubSeq(L, 1, n)
           B == SubSeq(L, n + 1, Len(L))
           C == A \o <<j>>
           M == C \o B
<1>1. InsertAt(L, n + 1, j) = M
  <2>1. (n + 1) - 1 = n
    OBVIOUS
  <2> QED BY <2>1, Zenon DEF InsertAt
<1>2. n \in 0..Len(L) /\ Len(L) \in Nat /\ DOMAIN L = 1..Len(L)
  OBVIOUS
<1>3. /\ A \in Seq(S) /\ Len(A) = n /\ \A k \in 1..n : A[k] = L[k]
      /\ B \in Seq(S) /\ Len(B) = Len(L) - n
      /\ \A k \in 1..(Len(L) - n) : B[k] = L[k + n]
  <2>1. 1 \in 1..(Len(L) + 1) /\ n \in (1 - 1)..Len(L)
    BY <1>2
  <2>2. /\ A \in Seq(S) /\ Len(A) = n - 1 + 1
        /\ \A k \in 1..(n - 1 + 1) : A[k] = L[1 + k - 1]
    BY <2>1, PieceLemma, Zenon
  <2>3. n + 1 \in 1..(Len(L) + 1) /\ Len(L) \in ((n + 1) - 1)..Len(L)
    BY <1>2
  <2>4. /\ B \in Seq(S) /\ Len(B) = Len(L) - (n + 1) + 1
        /\ \A k \in 1..(Len(L) - (n + 1) + 1) : B[k] = L[(n + 1) + k - 1]
    BY <2>3, PieceLemma, Zenon
  <2> HIDE DEF A, B
  <2> QED BY <2>2, <2>4, <1>2
<1> HIDE DEF A, B
<1>4. C \in Seq(S) /\ Len(C) = n + 1 /\ C[n + 1] = j
      /\ \A k \in 1..n : C[k] = L[k]
  BY <1>2, <1>3
<1> HIDE DEF C
<1>5. M \in Seq(S) /\ Len(M) = Len(L) + 1 /\ DOMAIN M = 1..(Len(L) + 1)
  <2>1. /\ M \in Seq(S) /\ Len(M) = Len(C) + Len(B)
        /\ DOMAIN M = 1..(Len(C) + Len(B))
    BY <1>3, <1>4, JoinLemma, Zenon
  <2> HIDE DEF M
  <2> QED BY <2>1, <1>2, <1>3, <1>4
<1>6. ASSUME NEW k \in 1..(Len(L) + 1)
      PROVE  M[k] = IF k <= n THEN L[k]
                    ELSE IF k = n + 1 THEN j ELSE L[k - 1]
  <2>1. k \in 1..(Len(C) + Len(B))
    BY <1>2, <1>3, <1>4
  <2>2. M[k] = IF k <= Len(C) THEN C[k] ELSE B[k - Len(C)]
    BY <2>1, <1>3, <1>4, ConcatProperties
  <2> HIDE DEF M
  <2>3. CASE k <= n
    BY <2>2, <2>3, <1>2, <1>4
  <2>4. CASE k = n + 1
    BY <2>2, <2>4, <1>2, <1>4
  <2>5. CASE k > n + 1
    <3>1. k - Len(C) \in 1..(Len(L) - n) /\ (k - Len(C)) + n = k - 1
      BY <2>5, <1>2, <1>4
    <3>2. M[k] = B[k - Len(C)]
      BY <2>2, <2>5, <1>2, <1>4
    <3>3. B[k - Len(C)] = L[k - 1]
      BY <3>1, <1>3
    <3> QED BY <3>2, <3>3, <2>5, <1>2
  <2> QED BY <2>3, <2>4, <2>5, <1>2
<1> HIDE DEF M
<1>7. NoRepeats(M)
  <2> SUFFICES ASSUME NEW k \in DOMAIN M, NEW m \in DOMAIN M, M[k] = M[m]
               PROVE  k = m
    BY DEF NoRepeats
  <2> DEFINE at(x) == IF x <= n THEN x ELSE x - 1
  <2>1. \A x \in DOMAIN M : x # n + 1 => at(x) \in DOMAIN L /\ L[at(x)] = M[x]
    BY <1>2, <1>5, <1>6
  <2>2. \A x \in DOMAIN M : M[x] = j => x = n + 1
    BY <2>1 DEF Jobs
  <2>3. M[n + 1] = j
    BY <1>2, <1>6
  <2>4. CASE k = n + 1 \/ m = n + 1
    BY <2>2, <2>3, <2>4
  <2>5. CASE k # n + 1 /\ m # n + 1
    <3>1. at(k) = at(m)
      BY <2>1, <2>5 DEF NoRepeats
    <3> QED BY <3>1, <2>5, <1>2, <1>5
  <2> QED BY <2>4, <2>5
<1>8. Jobs(M) \subseteq Jobs(L) \union {j}
  <2> SUFFICES ASSUME NEW k \in DOMAIN M PROVE M[k] \in Jobs(L) \union {j}
    BY DEF Jobs
  <2> DEFINE at == IF k <= n THEN k ELSE k - 1
  <2>1. CASE k = n + 1
    BY <1>2, <1>6, <2>1
  <2>2. CASE k # n + 1
    <3>1. at \in DOMAIN L /\ M[k] = L[at]
      BY <1>2, <1>5, <1>6, <2>2
    <3> QED BY <3>1 DEF Jobs
  <2> QED BY <2>1, <2>2
<1>9. ASSUME NEW k \in DOMAIN L
      PROVE  L[k] \in Jobs(M)
  <2>1. CASE k <= n
    <3>1. k \in DOMAIN M /\ M[k] = L[k]
      BY <2>1, <1>2, <1>5, <1>6
    <3> QED BY <3>1 DEF Jobs
  <2>2. CASE k > n
    <3>1. k + 1 \in DOMAIN M /\ M[k + 1] = L[k]
      BY <2>2, <1>2, <1>5, <1>6
    <3> QED BY <3>1 DEF Jobs
  <2> QED BY <2>1, <2>2, <1>2
<1>10. j \in Jobs(M)
  <2>1. n + 1 \in DOMAIN M /\ M[n + 1] = j
    BY <1>2, <1>5, <1>6
  <2> QED BY <2>1, Zenon DEF Jobs
<1>11. Jobs(L) \union {j} \subseteq Jobs(M)
  BY <1>9, <1>10 DEF Jobs
<1> QED BY <1>1, <1>5, <1>7, <1>8, <1>11

(* A job that is not in the list is not unlinked.                          *)
LEMMA UnlinkedLemma ==
    ASSUME NEW S, NEW L \in Seq(S), NoRepeats(L), NEW j \in S
    PROVE  /\ Without(L, j) \in Seq(S)
           /\ NoRepeats(Without(L, j))
           /\ Jobs(Without(L, j)) = Jobs(L) \ {j}
<1>1. CASE j \in Jobs(L)
  BY <1>1, WithoutLemma
<1>2. CASE j \notin Jobs(L)
  BY <1>2 DEF Without
<1> QED BY <1>1, <1>2

(* put_job(j, PJ_ON_FRONT), for a job of the list or a new one.            *)
LEMMA OnFrontLemma ==
    ASSUME NEW S, NEW L \in Seq(S), NoRepeats(L), NEW j \in S
    PROVE  /\ OnFront(L, j) \in Seq(S)
           /\ NoRepeats(OnFront(L, j))
           /\ Jobs(OnFront(L, j)) = Jobs(L) \union {j}
<1> DEFINE W == Without(L, j)
<1>1. W \in Seq(S) /\ NoRepeats(W) /\ Jobs(W) = Jobs(L) \ {j}
  BY UnlinkedLemma
<1>2. OnFront(L, j) = InsertAt(W, 0 + 1, j)
  <2>1. SubSeq(W, 1, (0 + 1) - 1) = <<>>
    BY SubSeqEmpty
  <2>2. SubSeq(W, 0 + 1, Len(W)) = W
    BY <1>1, SubSeqFull
  <2>3. <<>> \o <<j>> = <<j>>
    BY ConcatEmptySeq
  <2> HIDE DEF W
  <2>4. InsertAt(W, 0 + 1, j) = <<j>> \o W
    BY <2>1, <2>2, <2>3, Zenon DEF InsertAt
  <2> USE DEF W
  <2> QED BY <2>4, Zenon DEF OnFront, Cons
<1> HIDE DEF W
<1>3. 0 \in 0..Len(W) /\ j \notin Jobs(W)
  BY <1>1
<1>4. /\ InsertAt(W, 0 + 1, j) \in Seq(S)
      /\ NoRepeats(InsertAt(W, 0 + 1, j))
      /\ Jobs(InsertAt(W, 0 + 1, j)) = Jobs(W) \union {j}
  BY <1>1, <1>3, InsertLemma
<1> QED BY <1>1, <1>2, <1>4

(* put_job(j, PJ_PAST_STOPPED), wherever the stopped jobs end.             *)
LEMMA PastStoppedLemma ==
    ASSUME NEW S, NEW L \in Seq(S), NoRepeats(L), NEW j \in S, NEW jb, NEW M,
           PastStopped(L, jb, j, M)
    PROVE  /\ M \in Seq(S)
           /\ NoRepeats(M)
           /\ Jobs(M) = Jobs(L) \union {j}
<1> DEFINE W == Without(L, j)
<1>1. W \in Seq(S) /\ NoRepeats(W) /\ Jobs(W) = Jobs(L) \ {j}
  BY UnlinkedLemma
<1>2. PICK n \in 0..Len(W) : M = InsertAt(W, n + 1, j)
  BY Zenon DEF PastStopped
<1> HIDE DEF W
<1>3. j \notin Jobs(W)
  BY <1>1
<1>4. /\ InsertAt(W, n + 1, j) \in Seq(S)
      /\ NoRepeats(InsertAt(W, n + 1, j))
      /\ Jobs(InsertAt(W, n + 1, j)) = Jobs(W) \union {j}
  BY <1>1, <1>3, InsertLemma
<1> QED BY <1>1, <1>2, <1>4

-----------------------------------------------------------------------------
(* The invariant of jobs.c.                                                *)

(* The jobs of job_list have structures in job.                            *)
LEMMA ListedLemma ==
    ASSUME TypeOK
    PROVE  /\ Listed \subseteq JobId
           /\ \A i \in DOMAIN job_list : job_list[i] \in Listed
BY DEF TypeOK, Listed, Jobs

(* What an assignment to j->flags leaves alone.                            *)
LEMMA FlagsLemma ==
    ASSUME TypeOK, NEW j \in JobId, NEW F \in SUBSET JobFlag,
           job' = [job EXCEPT ![j].flags = F]
    PROVE  /\ job' \in [JobId -> JobRecord]
           /\ \A k \in JobId : /\ job'[k].last = job[k].last
                               /\ job'[k].own = job[k].own
                               /\ k # j => job'[k] = job[k]
           /\ job'[j].flags = F
<1> DEFINE r == [job[j] EXCEPT !.flags = F]
<1>1. job \in [JobId -> JobRecord] /\ job[j] \in JobRecord
  BY DEF TypeOK
<1>2. r \in JobRecord /\ r.flags = F /\ r.last = job[j].last /\ r.own = job[j].own
  BY <1>1 DEF JobRecord
<1>3. job' = [job EXCEPT ![j] = r]
  OBVIOUS
<1> HIDE DEF r
<1> QED BY <1>1, <1>2, <1>3

(* A step that changes no job structure.                                   *)
LEMMA QuietLemma ==
    ASSUME IInv, UNCHANGED <<job_list, job>>,
           last_job' \in {last_job, None}, njobs' \in {njobs, njobs + 1}
    PROVE  Listed' = Listed /\ LastInv' /\ JobInv'
<1>1. Listed' = Listed
  BY DEF Listed
<1>2. LastInv'
  BY <1>1 DEF IInv, LastInv
<1>3. JobInv'
  <2>1. njobs \in Nat /\ \A j \in Listed : j \in Nat
    BY ListedLemma, BoundsAssumption DEF IInv, TypeOK, JobId
  <2> QED BY <1>1, <2>1 DEF IInv, JobInv
<1> QED BY <1>1, <1>2, <1>3

(* A step that changes flags only, and marks no job as a zombie.           *)
LEMMA MarkLemma ==
    ASSUME IInv, UNCHANGED <<job_list, njobs>>, last_job' \in {last_job, None},
           \A j \in Listed : /\ job'[j].last \in ProcId
                             /\ "ZOMBIE" \in job'[j].flags =>
                                   /\ "ZOMBIE" \in job[j].flags
                                   /\ "STARTED" \in job'[j].flags
    PROVE  Listed' = Listed /\ LastInv' /\ JobInv'
<1>1. Listed' = Listed
  BY DEF Listed
<1>2. LastInv'
  BY <1>1 DEF IInv, LastInv
<1>3. JobInv'
  BY <1>1 DEF IInv, JobInv
<1> QED BY <1>1, <1>2, <1>3

(* remove_job() of a listed job.                                           *)
Removed(jb, j) ==
    /\ job_list' \in Seq(JobId) /\ NoRepeats(job_list')
    /\ Listed' = Listed \ {j}
    /\ last_job' = IF last_job = j THEN None ELSE last_job
    /\ async_job' = IF async_job = j THEN None ELSE async_job
    /\ nzombie' = IF "ZOMBIE" \in jb[j].flags /\ jb[j].own
                  THEN nzombie - 1 ELSE nzombie
    /\ ierr' = ierr

(* remove_job() of a listed job does just that.                            *)
LEMMA RemoveLemma ==
    ASSUME TypeOK, LastInv, NEW L \in Seq(JobId), NoRepeats(L),
           Jobs(L) = Listed, NEW jb, NEW j \in Listed, RemoveJob(L, jb, j)
    PROVE  /\ Removed(jb, j)
           /\ job_list' \in Seq(JobId) /\ NoRepeats(job_list')
           /\ Listed' = Listed \ {j}
           /\ last_job' \in {last_job, None} /\ async_job' \in {async_job, None}
           /\ nzombie' \in Int /\ ierr' = ierr
           /\ LastInv'
<1>1. /\ job_list' = Without(L, j)
      /\ nzombie' = IF "ZOMBIE" \in jb[j].flags /\ jb[j].own
                    THEN nzombie - 1 ELSE nzombie
      /\ last_job' = IF last_job = j THEN None ELSE last_job
      /\ async_job' = IF async_job = j THEN None ELSE async_job
      /\ ierr' = ierr
  BY DEF RemoveJob
<1>2. job_list' \in Seq(JobId) /\ NoRepeats(job_list')
  BY <1>1, WithoutLemma
<1>3. Listed' = Listed \ {j}
  BY <1>1, WithoutLemma DEF Listed
<1>4. LastInv'
  BY <1>1, <1>3 DEF LastInv
<1>5. nzombie' \in Int
  BY <1>1 DEF TypeOK
<1>6. Removed(jb, j)
  BY <1>1, <1>2, <1>3 DEF Removed
<1> QED BY <1>1, <1>2, <1>3, <1>4, <1>5, <1>6

-----------------------------------------------------------------------------
(* The handler and the kernel.                                             *)

(* A SIGCHLD held back touches no job.                                     *)
LEMMA HandlerHoldsLemma == ASSUME IInv, HandlerHolds PROVE IInv'
<1>1. UNCHANGED <<job_list, job, last_job, async_job, njobs, monitor, wj, hnd>>
  BY DEF HandlerHolds, listvars, procvars, modevars, waitvars
<1>2. Listed' = Listed /\ LastInv' /\ JobInv'
  BY <1>1, QuietLemma, Zenon
<1>3. pc' \in ControlPoint /\ pc' = (IF pc = "susp" THEN "woke" ELSE pc)
  BY DEF HandlerHolds, AfterHandler, IInv, TypeOK, ControlPoint, Blocked
<1>4. TypeOK'
  <2>1. sigchld' \in BOOLEAN /\ held_sigchld' \in BOOLEAN
    BY DEF HandlerHolds
  <2> QED BY <1>3, <2>1 DEF IInv, TypeOK, HandlerHolds, listvars, procvars,
             kernvars, modevars, waitvars
<1>5. StartInv' /\ HandlerInv' /\ WaitInv'
  BY <1>1, <1>2, <1>3 DEF HandlerHolds, IInv, StartInv,
                          HandlerInv, WaitInv
<1> QED BY <1>2, <1>4, <1>5 DEF IInv

(* While the handler runs no job is under construction: the shell is not   *)
(* between the processes of a pipeline.                                    *)
LEMMA HandlerStartsLemma == ASSUME IInv, HandlerStarts PROVE IInv'
<1>1. UNCHANGED <<job_list, job, last_job, async_job, njobs, monitor, wj, pc>>
  BY DEF HandlerStarts, listvars, procvars, modevars, waitvars
<1>2. Listed' = Listed /\ LastInv' /\ JobInv'
  BY <1>1, QuietLemma, Zenon
<1>3. TypeOK'
  <2>1. sigchld' \in BOOLEAN /\ hnd' \in BOOLEAN
    BY DEF HandlerStarts
  <2> QED BY <2>1 DEF IInv, TypeOK, HandlerStarts, listvars, procvars,
             kernvars, modevars, waitvars
<1>4. HandlerInv'
  <2>1. pc \notin {"pipe", "comsub"}
    BY DEF HandlerStarts, PartlyStarted, IInv, LastInv, StartInv
  <2> QED BY <1>1, <2>1 DEF HandlerStarts, Unblocked, HandlerInv
<1>5. StartInv' /\ WaitInv'
  BY <1>1, <1>2 DEF IInv, StartInv, WaitInv
<1> QED BY <1>2, <1>3, <1>4, <1>5 DEF IInv

(* sigsuspend() returns with the handler; the job waited for stays.        *)
LEMMA HandlerReturnsLemma == ASSUME IInv, HandlerReturns PROVE IInv'
<1>1. UNCHANGED <<job_list, job, last_job, async_job, njobs, monitor, wj>>
  BY DEF HandlerReturns, listvars, procvars, modevars, waitvars
<1>2. Listed' = Listed /\ LastInv' /\ JobInv'
  BY <1>1, QuietLemma, Zenon
<1>3. pc' \in ControlPoint /\ pc' = (IF pc = "susp" THEN "woke" ELSE pc)
  BY DEF HandlerReturns, AfterHandler, IInv, TypeOK, ControlPoint, Blocked
<1>4. TypeOK'
  <2>1. hnd' \in BOOLEAN
    BY DEF HandlerReturns
  <2> QED BY <1>3, <2>1 DEF IInv, TypeOK, HandlerReturns, listvars, procvars,
             kernvars, modevars, waitvars
<1>5. StartInv' /\ HandlerInv' /\ WaitInv'
  BY <1>1, <1>2, <1>3 DEF HandlerReturns, IInv, StartInv,
                          HandlerInv, WaitInv
<1> QED BY <1>2, <1>4, <1>5 DEF IInv

(* What children do reaches the job list only through the handler.         *)
LEMMA ChildLemma == ASSUME IInv, Child PROVE IInv'
<1>1. UNCHANGED <<job_list, job, last_job, async_job, njobs, monitor, wj, pc, hnd>>
  BY DEF Child, listvars, procvars, modevars, waitvars
<1>2. Listed' = Listed /\ LastInv' /\ JobInv'
  BY <1>1, QuietLemma, Zenon
<1>3. kern' \in [ProcId -> KernState] /\ news' \subseteq ProcId /\ sigchld' = TRUE
  <2> kern \in [ProcId -> KernState] /\ news \subseteq ProcId
    BY DEF IInv, TypeOK
  <2>1. ASSUME NEW p \in ProcId, ChildDies(p) PROVE <1>3
    BY <2>1 DEF ChildDies, Changed, KernState
  <2>2. ASSUME NEW p \in ProcId, ChildStops(p) PROVE <1>3
    BY <2>2 DEF ChildStops, Changed, KernState
  <2>3. ASSUME NEW p \in ProcId, ChildContinues(p) PROVE <1>3
    BY <2>3 DEF ChildContinues, Changed, KernState
  <2> QED BY <2>1, <2>2, <2>3 DEF Child
<1>4. TypeOK'
  BY <1>3 DEF IInv, TypeOK, Child, listvars, procvars, kernvars, modevars,
              waitvars
<1>5. StartInv' /\ HandlerInv' /\ WaitInv'
  BY <1>1, <1>2 DEF IInv, StartInv, HandlerInv, WaitInv
<1> QED BY <1>2, <1>4, <1>5 DEF IInv

(* trapsig() only flags the signal.                                        *)
LEMMA SignalLemma == ASSUME IInv, Signal PROVE IInv'
<1>1. UNCHANGED <<job_list, job, last_job, async_job, njobs, monitor, wj, hnd>>
  BY DEF Signal, listvars, procvars, modevars, waitvars
<1>2. Listed' = Listed /\ LastInv' /\ JobInv'
  BY <1>1, QuietLemma, Zenon
<1>3. /\ pc' \in ControlPoint
      /\ pc' = (IF pc = "susp" /\ ~hnd THEN "woke" ELSE pc)
  BY DEF Signal, IInv, TypeOK, ControlPoint, Blocked
<1>4. TypeOK'
  <2>1. pend' \in {"none", "trap", "fatal"}
    BY DEF Signal
  <2> QED BY <1>3, <2>1 DEF IInv, TypeOK, Signal, listvars, procvars,
             kernvars, modevars, waitvars
<1>5. StartInv' /\ HandlerInv' /\ WaitInv'
  BY <1>1, <1>2, <1>3 DEF IInv, StartInv, HandlerInv, WaitInv
<1> QED BY <1>2, <1>4, <1>5 DEF IInv

-----------------------------------------------------------------------------
(* What the shell does without touching a job.                             *)

(* The wait goes on with the same job.                                     *)
LEMMA SigsuspendLemma == ASSUME IInv, Sigsuspend PROVE IInv'
<1>1. /\ UNCHANGED <<job_list, job, async_job, wj, hnd>>
      /\ last_job' \in {last_job, None} /\ njobs' \in {njobs, njobs + 1}
  BY DEF Sigsuspend, listvars, procvars, modevars, waitvars
<1>2. Listed' = Listed /\ LastInv' /\ JobInv'
  BY <1>1, QuietLemma, Zenon
<1>3. pc = "wenter" /\ pc' = "susp"
  BY DEF Sigsuspend, IInv, TypeOK
<1>4. pc' \in ControlPoint
  BY <1>3 DEF ControlPoint, Unblocked, Blocked, Stopped, IInv, TypeOK
<1>5. TypeOK'
  BY <1>4 DEF IInv, TypeOK, Sigsuspend, listvars, procvars, kernvars, modevars,
              waitvars
<1>6. StartInv' /\ HandlerInv' /\ WaitInv'
  BY <1>1, <1>2, <1>3 DEF IInv, StartInv,
                          HandlerInv, WaitInv
<1> QED BY <1>2, <1>5, <1>6 DEF IInv

(* The removal loop has ended; FMONITOR is only ever switched off.         *)
LEMMA MarkedRemovedLemma == ASSUME IInv, MarkedRemoved PROVE IInv'
<1>1. /\ UNCHANGED <<job_list, job, async_job, wj, hnd>>
      /\ last_job' \in {last_job, None} /\ njobs' \in {njobs, njobs + 1}
  BY DEF MarkedRemoved, listvars, procvars, waitvars, modevars
<1>2. Listed' = Listed /\ LastInv' /\ JobInv'
  BY <1>1, QuietLemma, Zenon
<1>3. pc \in {"notify", "byebye"} /\ pc' \in {"ready", "gone"}
  BY DEF MarkedRemoved, IInv, TypeOK
<1>4. pc' \in ControlPoint
  BY <1>3 DEF ControlPoint, Unblocked, Blocked, Stopped, IInv, TypeOK
<1>5. TypeOK'
  <2>1. ttypgrp' \in Pid \union {ShellPgrp} /\ monitor' \in BOOLEAN
    BY DEF MarkedRemoved, IInv, TypeOK
  <2> QED BY <1>4, <2>1 DEF IInv, TypeOK, MarkedRemoved, listvars, procvars,
             kernvars, modevars, waitvars
<1>6. StartInv' /\ HandlerInv' /\ WaitInv'
  BY <1>1, <1>2, <1>3 DEF MarkedRemoved, IInv, StartInv,
                          HandlerInv, WaitInv
<1> QED BY <1>2, <1>5, <1>6 DEF IInv

(* No job is being started or waited for when traps run.                   *)
LEMMA RuntrapsLemma == ASSUME IInv, Runtraps PROVE IInv'
<1>1. /\ UNCHANGED <<job_list, job, async_job, wj, hnd>>
      /\ last_job' \in {last_job, None} /\ njobs' \in {njobs, njobs + 1}
  BY DEF Runtraps, listvars, procvars, waitvars, modevars
<1>2. Listed' = Listed /\ LastInv' /\ JobInv'
  BY <1>1, QuietLemma, Zenon
<1>3. pc = "ready" /\ pc' \in {"ready", "exit"}
  BY DEF Runtraps, AfterError, IInv, TypeOK
<1>4. pc' \in ControlPoint
  BY <1>3 DEF ControlPoint, Unblocked, Blocked, Stopped, IInv, TypeOK
<1>5. TypeOK'
  <2>1. pend' = "none"
    BY DEF Runtraps
  <2> QED BY <1>4, <2>1 DEF IInv, TypeOK, Runtraps, listvars, procvars,
             kernvars, modevars, waitvars
<1>6. StartInv' /\ HandlerInv' /\ WaitInv'
  BY <1>1, <1>2, <1>3 DEF Runtraps, IInv, StartInv,
                          HandlerInv, WaitInv
<1> QED BY <1>2, <1>5, <1>6 DEF IInv

(* Hanging up touches the kernel's processes only.                         *)
LEMMA J_exitLemma == ASSUME IInv, J_exit PROVE IInv'
<1>1. /\ UNCHANGED <<job_list, job, async_job, wj, hnd>>
      /\ last_job' \in {last_job, None} /\ njobs' \in {njobs, njobs + 1}
  BY DEF J_exit, listvars, procvars, waitvars, modevars
<1>2. Listed' = Listed /\ LastInv' /\ JobInv'
  BY <1>1, QuietLemma, Zenon
<1>3. pc = "exit" /\ pc' = "exiting"
  BY DEF J_exit, IInv, TypeOK
<1>4. pc' \in ControlPoint
  BY <1>3 DEF ControlPoint, Unblocked, Blocked, Stopped, IInv, TypeOK
<1>5. TypeOK'
  <2>1. kern' \in [ProcId -> KernState]
    BY DEF J_exit, IInv, TypeOK, KernState
  <2>2. news' \subseteq ProcId /\ sigchld' \in BOOLEAN
    BY DEF J_exit, IInv, TypeOK
  <2> QED BY <1>4, <2>1, <2>2 DEF IInv, TypeOK, J_exit, listvars, procvars,
             modevars, waitvars
<1>6. StartInv' /\ HandlerInv' /\ WaitInv'
  BY <1>1, <1>2, <1>3 DEF J_exit, IInv, StartInv,
                          HandlerInv, WaitInv
<1> QED BY <1>2, <1>5, <1>6 DEF IInv

(* c_wait() has not looked a job up yet.                                   *)
LEMMA WaitCommandLemma == ASSUME IInv, WaitCommand PROVE IInv'
<1>1. /\ UNCHANGED <<job_list, job, async_job, wj, hnd>>
      /\ last_job' \in {last_job, None} /\ njobs' \in {njobs, njobs + 1}
  BY DEF WaitCommand, StartCommand, listvars, procvars
<1>2. Listed' = Listed /\ LastInv' /\ JobInv'
  BY <1>1, QuietLemma, Zenon
<1>3. pc = "ready" /\ pc' \in {"all", "more"} /\ ~hnd
  BY DEF WaitCommand, StartCommand, IInv, TypeOK
<1>4. pc' \in ControlPoint
  BY <1>3 DEF ControlPoint, Unblocked, Blocked, Stopped, IInv, TypeOK
<1>5. TypeOK'
  <2>1. cont' \in Caller /\ really_exit' \in BOOLEAN
    BY DEF WaitCommand, StartCommand, Caller, IInv, TypeOK
  <2> QED BY <1>4, <2>1 DEF IInv, TypeOK, WaitCommand, StartCommand, listvars,
             procvars, kernvars
<1>6. StartInv' /\ HandlerInv' /\ WaitInv'
  BY <1>1, <1>2, <1>3 DEF IInv, StartInv,
                          HandlerInv, WaitInv
<1> QED BY <1>2, <1>5, <1>6 DEF IInv

(* Whatever `exit' decides, no job changes.                                *)
LEMMA ExitLemma == ASSUME IInv, Exit PROVE IInv'
<1>1. /\ UNCHANGED <<job_list, job, async_job, wj, hnd>>
      /\ last_job' \in {last_job, None} /\ njobs' \in {njobs, njobs + 1}
  BY DEF Exit, listvars, procvars, waitvars
<1>2. Listed' = Listed /\ LastInv' /\ JobInv'
  BY <1>1, QuietLemma, Zenon
<1>3. pc = "ready" /\ pc' \in {"ready", "exit"} /\ ~hnd
  BY DEF Exit, IInv, TypeOK
<1>4. pc' \in ControlPoint
  BY <1>3 DEF ControlPoint, Unblocked, Blocked, Stopped, IInv, TypeOK
<1>5. TypeOK'
  <2>1. really_exit' \in BOOLEAN
    BY DEF Exit, IInv, TypeOK
  <2> QED BY <1>4, <2>1 DEF IInv, TypeOK, Exit, listvars, procvars,
             kernvars, modevars, waitvars
<1>6. StartInv' /\ HandlerInv' /\ WaitInv'
  BY <1>1, <1>2, <1>3 DEF IInv, StartInv,
                          HandlerInv, WaitInv
<1> QED BY <1>2, <1>5, <1>6 DEF IInv

(* `set -m' and `set +m' change nothing else.                              *)
LEMMA SetMonitorLemma == ASSUME IInv, SetMonitor PROVE IInv'
<1>1. UNCHANGED <<job_list, job, last_job, njobs, wj, hnd, pc>>
  BY DEF SetMonitor, listvars, procvars, waitvars
<1>2. Listed' = Listed /\ LastInv' /\ JobInv'
  BY <1>1, QuietLemma, Zenon
<1>3. TypeOK'
  <2>1. monitor' \in BOOLEAN
    BY DEF SetMonitor
  <2> QED BY <2>1 DEF IInv, TypeOK, SetMonitor, listvars, procvars, kernvars,
             waitvars
<1> QED BY <1>1, <1>2, <1>3 DEF IInv, StartInv, HandlerInv, WaitInv

(* The unwinding leaves the partly started job listed and unmarked.        *)
LEMMA OpenpipeFailsLemma == ASSUME IInv, OpenpipeFails PROVE IInv'
<1>1. /\ UNCHANGED <<job_list, job, async_job, wj, hnd>>
      /\ last_job' \in {last_job, None} /\ njobs' \in {njobs, njobs + 1}
  BY DEF OpenpipeFails, listvars, procvars, waitvars, modevars
<1>2. Listed' = Listed /\ LastInv' /\ JobInv'
  BY <1>1, QuietLemma, Zenon
<1>3. pc = "pipe" /\ pc' \in {"ready", "exit"} /\ ~hnd
  BY DEF OpenpipeFails, AfterError, IInv, TypeOK
<1>4. pc' \in ControlPoint
  BY <1>3 DEF ControlPoint, Unblocked, Blocked, Stopped, IInv, TypeOK
<1>5. TypeOK'
  BY <1>4 DEF IInv, TypeOK, OpenpipeFails, listvars, procvars, kernvars, modevars,
              waitvars
<1>6. StartInv' /\ HandlerInv' /\ WaitInv'
  BY <1>1, <1>2, <1>3 DEF IInv, StartInv,
                          HandlerInv, WaitInv
<1> QED BY <1>2, <1>5, <1>6 DEF IInv

(* The job whose first process failed was never listed.                    *)
LEMMA ForkFailsFirstLemma == ASSUME IInv, ForkFailsFirst PROVE IInv'
<1>1. /\ UNCHANGED <<job_list, job, async_job, wj, hnd>>
      /\ last_job' \in {last_job, None} /\ njobs' \in {njobs, njobs + 1}
  BY DEF ForkFailsFirst, StartCommand, waitvars
<1>2. Listed' = Listed /\ LastInv' /\ JobInv'
  BY <1>1, QuietLemma, Zenon
<1>3. pc = "ready" /\ pc' \in {"ready", "exit"} /\ ~hnd
  BY DEF ForkFailsFirst, StartCommand, AfterError, IInv, TypeOK
<1>4. pc' \in ControlPoint
  BY <1>3 DEF ControlPoint, Unblocked, Blocked, Stopped, IInv, TypeOK
<1>5. TypeOK'
  <2>1. njobs' \in 0..MaxJobs
    BY BoundsAssumption DEF ForkFailsFirst, IInv, TypeOK
  <2>2. last_job' \in JobId \union {None} /\ really_exit' \in BOOLEAN
    BY DEF ForkFailsFirst, StartCommand, IInv, TypeOK
  <2> QED BY <1>4, <2>1, <2>2 DEF IInv, TypeOK, ForkFailsFirst, StartCommand,
             kernvars, waitvars
<1>6. StartInv' /\ HandlerInv' /\ WaitInv'
  BY <1>1, <1>2, <1>3 DEF IInv, StartInv,
                          HandlerInv, WaitInv
<1> QED BY <1>2, <1>5, <1>6 DEF IInv

-----------------------------------------------------------------------------
(* Steps that mark jobs as started, waited for, known or to be removed.    *)

(* Entering j_waitj() for a listed job.                                    *)
LEMMA WaitingLemma ==
    ASSUME IInv, NEW j \in Listed, NEW c, job' = Waiting(job, j, c)
    PROVE  /\ job' \in [JobId -> JobRecord]
           /\ \A k \in JobId : /\ job'[k].last = job[k].last
                               /\ job'[k].own = job[k].own
                               /\ k # j => job'[k] = job[k]
           /\ job'[j].flags = job[j].flags \union WaitFlags(c)
           /\ "WAITING" \in job'[j].flags
           /\ "ZOMBIE" \in job'[j].flags => "ZOMBIE" \in job[j].flags
<1>1. job \in [JobId -> JobRecord] /\ j \in JobId
  BY ListedLemma DEF IInv, TypeOK
<1> DEFINE F == job[j].flags \union WaitFlags(c)
<1>2. F \in SUBSET JobFlag
  BY <1>1 DEF JobRecord, WaitFlags, JobFlag
<1>3. job' = [job EXCEPT ![j].flags = F]
  BY DEF Waiting
<1>4. "WAITING" \in F /\ ("ZOMBIE" \in F => "ZOMBIE" \in job[j].flags)
  BY DEF WaitFlags
<1> HIDE DEF F
<1>5. /\ job' \in [JobId -> JobRecord]
      /\ \A k \in JobId : /\ job'[k].last = job[k].last
                          /\ job'[k].own = job[k].own
                          /\ k # j => job'[k] = job[k]
      /\ job'[j].flags = F
  BY <1>1, <1>2, <1>3, FlagsLemma DEF IInv
<1> QED BY <1>4, <1>5 DEF F

(* The invariant when j_waitj() is entered.                                *)
LEMMA BeginWaitjLemma ==
    ASSUME IInv, NEW j \in Listed, NEW c \in Caller, BeginWaitj(j, c), ~hnd',
           UNCHANGED <<listvars, procvars, monitor>>
    PROVE  /\ Listed' = Listed /\ LastInv' /\ JobInv'
           /\ job' \in [JobId -> JobRecord]
           /\ StartInv' /\ HandlerInv' /\ WaitInv'
<1>1. /\ job' \in [JobId -> JobRecord]
      /\ \A k \in JobId : job'[k].last = job[k].last /\ (k # j => job'[k] = job[k])
      /\ "WAITING" \in job'[j].flags
      /\ job[j].flags \subseteq job'[j].flags
      /\ "ZOMBIE" \in job'[j].flags => "ZOMBIE" \in job[j].flags
  BY WaitingLemma DEF BeginWaitj
<1>2. Listed' = Listed /\ LastInv' /\ JobInv'
  <2>1. UNCHANGED <<job_list, async_job, njobs, last_job, monitor>>
    BY DEF listvars, procvars
  <2>2. \A k \in Listed : /\ job'[k].last \in ProcId
                          /\ "ZOMBIE" \in job'[k].flags =>
                                /\ "ZOMBIE" \in job[k].flags
                                /\ "STARTED" \in job'[k].flags
    BY <1>1, ListedLemma DEF IInv, JobInv
  <2> QED BY <2>1, <2>2, MarkLemma
<1>3. wj' = j /\ pc' = "wenter" /\ j # None
  BY ListedLemma DEF BeginWaitj, IInv, TypeOK, JobId, None
<1> QED BY <1>1, <1>2, <1>3 DEF StartInv, HandlerInv, WaitInv

(* The job found is in the list, and is marked as waited for.              *)
LEMMA WaitForAnyLemma == ASSUME IInv, WaitForAny PROVE IInv'
<1>1. CASE OwnRunning = {} /\ pc' = "ready" /\ UNCHANGED <<job, waitvars>>
  <2>1. UNCHANGED <<job_list, job, last_job, async_job, njobs, monitor, wj, hnd>>
    BY <1>1 DEF WaitForAny, listvars, procvars, modevars, waitvars
  <2>2. Listed' = Listed /\ LastInv' /\ JobInv'
    BY <2>1, QuietLemma, Zenon
  <2>3. pc = "all" /\ pc' = "ready"
    BY <1>1 DEF WaitForAny
  <2>4. pc' \in ControlPoint
    BY <2>3 DEF ControlPoint, Unblocked
  <2>5. TypeOK'
    BY <1>1, <2>4 DEF IInv, TypeOK, WaitForAny, listvars, procvars, kernvars,
                      modevars, waitvars
  <2> QED BY <2>1, <2>2, <2>3, <2>5 DEF IInv, StartInv,
             HandlerInv, WaitInv
<1>2. ASSUME NEW i \in OwnRunning, BeginWaitj(job_list[i], "waitall")
      PROVE  IInv'
  <2>1. job_list[i] \in Listed /\ "waitall" \in Caller
    BY ListedLemma DEF IInv, OwnRunning, Caller
  <2>2. ~hnd' /\ UNCHANGED <<listvars, procvars, monitor>>
    BY DEF WaitForAny, modevars
  <2>3. /\ LastInv' /\ JobInv' /\ job' \in [JobId -> JobRecord]
        /\ StartInv' /\ HandlerInv' /\ WaitInv'
    BY <1>2, <2>1, <2>2, BeginWaitjLemma
  <2>4. pc' \in ControlPoint /\ wj' \in JobId /\ cont' \in Caller
    BY <1>2, <2>1, ListedLemma DEF BeginWaitj, ControlPoint, Blocked, IInv
  <2>5. TypeOK'
    BY <2>3, <2>4 DEF IInv, TypeOK, WaitForAny, listvars, procvars, kernvars,
                      modevars
  <2> QED BY <2>3, <2>5 DEF IInv
<1> QED BY <1>1, <1>2 DEF WaitForAny

(* j_lookup() returns a listed job, which is marked as waited for.         *)
LEMMA WaitForOperandLemma == ASSUME IInv, WaitForOperand PROVE IInv'
<1>1. CASE /\ pc' = AfterOperand(cont)
           /\ cont' = "wait1"
           /\ UNCHANGED <<job, wj>>
  <2>1. UNCHANGED <<job_list, job, last_job, async_job, njobs, monitor, wj, hnd>>
    BY <1>1 DEF WaitForOperand, listvars, procvars, modevars
  <2>2. Listed' = Listed /\ LastInv' /\ JobInv'
    BY <2>1, QuietLemma, Zenon
  <2>3. pc = "more" /\ ~hnd /\ pc' \in {"more", "ready"}
    BY <1>1 DEF WaitForOperand, AfterOperand
  <2>4. pc' \in ControlPoint /\ cont' \in Caller
    BY <1>1, <2>3 DEF ControlPoint, Unblocked, Caller
  <2>5. TypeOK'
    BY <1>1, <2>4 DEF IInv, TypeOK, WaitForOperand, listvars, procvars, kernvars,
                      modevars
  <2> QED BY <2>1, <2>2, <2>3, <2>5 DEF IInv, StartInv,
             HandlerInv, WaitInv
<1>2. ASSUME NEW j \in Listed, BeginWaitj(j, cont)
      PROVE  IInv'
  <2>1. cont \in Caller
    BY DEF IInv, TypeOK
  <2>2. ~hnd' /\ UNCHANGED <<listvars, procvars, monitor>>
    BY DEF WaitForOperand, modevars
  <2>3. /\ LastInv' /\ JobInv' /\ job' \in [JobId -> JobRecord]
        /\ StartInv' /\ HandlerInv' /\ WaitInv'
    BY <1>2, <2>1, <2>2, BeginWaitjLemma
  <2>4. pc' \in ControlPoint /\ wj' \in JobId /\ cont' \in Caller
    BY <1>2, <2>1, ListedLemma DEF BeginWaitj, ControlPoint, Blocked, IInv
  <2>5. TypeOK'
    BY <2>3, <2>4 DEF IInv, TypeOK, WaitForOperand, listvars, procvars, kernvars,
                      modevars
  <2> QED BY <2>3, <2>5 DEF IInv
<1> QED BY <1>1, <1>2 DEF WaitForOperand

(* j_startjob(), of a job that is perhaps marked as waited for.            *)
LEMMA StartJobLemma ==
    ASSUME IInv, NEW j \in Listed, NEW c, NEW jb \in {job, Waiting(job, j, c)},
           StartJob(jb, j)
    PROVE  /\ job' \in [JobId -> JobRecord]
           /\ sigchld' \in BOOLEAN /\ held_sigchld' \in BOOLEAN
           /\ \A k \in JobId : /\ job'[k].last = job[k].last
                               /\ job'[k].own = job[k].own
                               /\ k # j => job'[k] = job[k]
           /\ "STARTED" \in job'[j].flags
           /\ "ZOMBIE" \in job'[j].flags => "ZOMBIE" \in job[j].flags
           /\ jb = Waiting(job, j, c) => "WAITING" \in job'[j].flags
<1>1. job \in [JobId -> JobRecord] /\ j \in JobId
  BY ListedLemma DEF IInv, TypeOK
<1> DEFINE F == jb[j].flags \union {"STARTED"}
<1>2. jb[j].flags \in {job[j].flags, job[j].flags \union WaitFlags(c)}
  <2>1. CASE jb = job
    BY <2>1
  <2>2. CASE jb = Waiting(job, j, c)
    BY <1>1, <2>2 DEF Waiting, JobRecord
  <2> QED BY <2>1, <2>2
<1>3. F \in SUBSET JobFlag
  BY <1>1, <1>2 DEF JobRecord, WaitFlags, JobFlag
<1>4. job' = [job EXCEPT ![j].flags = F]
  BY <1>1 DEF StartJob, Waiting, JobRecord
<1>5. "STARTED" \in F /\ ("ZOMBIE" \in F => "ZOMBIE" \in job[j].flags)
  BY <1>2 DEF WaitFlags
<1>6. jb = Waiting(job, j, c) => "WAITING" \in F
  BY <1>1 DEF WaitFlags, Waiting
<1>7. sigchld' \in BOOLEAN /\ held_sigchld' \in BOOLEAN
  BY DEF StartJob, IInv, TypeOK
<1> HIDE DEF F
<1>8. /\ job' \in [JobId -> JobRecord]
      /\ \A k \in JobId : /\ job'[k].last = job[k].last
                          /\ job'[k].own = job[k].own
                          /\ k # j => job'[k] = job[k]
      /\ job'[j].flags = F
  BY <1>1, <1>3, <1>4, FlagsLemma DEF IInv
<1> QED BY <1>5, <1>6, <1>7, <1>8

(* The job just started is listed, not a zombie, and the last process was  *)
(* forked: SIGCHLD may be handled again.                                   *)
LEMMA LastProcessLemma == ASSUME IInv, LastProcess PROVE IInv'
<1>1. last_job \in Listed /\ last_job # None /\ pc = "lastproc" /\ ~hnd
  BY DEF LastProcess, IInv, StartInv, LastInv, HandlerInv
<1>2. /\ job' \in [JobId -> JobRecord]
      /\ sigchld' \in BOOLEAN /\ held_sigchld' \in BOOLEAN
      /\ \A k \in JobId : /\ job'[k].last = job[k].last
                          /\ k # last_job => job'[k] = job[k]
      /\ "STARTED" \in job'[last_job].flags
      /\ "ZOMBIE" \in job'[last_job].flags => "ZOMBIE" \in job[last_job].flags
      /\ pc' = "wenter" => "WAITING" \in job'[last_job].flags
  <2>1. CASE "FG" \in job[last_job].flags
    BY <1>1, <2>1, StartJobLemma DEF LastProcess
  <2>2. CASE "FG" \notin job[last_job].flags
    BY <1>1, <2>2, StartJobLemma DEF LastProcess
  <2> QED BY <2>1, <2>2
<1>3. UNCHANGED <<job_list, async_job, njobs, last_job, monitor, hnd>>
  BY DEF LastProcess, listvars, procvars, modevars
<1>4. Listed' = Listed /\ LastInv' /\ JobInv'
  <2>1. \A k \in Listed : /\ job'[k].last \in ProcId
                          /\ "ZOMBIE" \in job'[k].flags =>
                                /\ "ZOMBIE" \in job[k].flags
                                /\ "STARTED" \in job'[k].flags
    BY <1>2, ListedLemma DEF IInv, JobInv
  <2> QED BY <1>3, <2>1, MarkLemma
<1>5. /\ pc' \in {"wenter", "setasync"} /\ wj' = last_job
      /\ cont' \in {cont, "fg"}
  BY DEF LastProcess
<1>6. TypeOK'
  <2>1. pc' \in ControlPoint /\ wj' \in JobId /\ cont' \in Caller
    BY <1>1, <1>5, ListedLemma DEF ControlPoint, Blocked, Caller, IInv, TypeOK
  <2> QED BY <1>2, <2>1 DEF IInv, TypeOK, LastProcess, listvars, procvars,
             kernvars, modevars
<1>7. "ZOMBIE" \notin job'[last_job].flags
  BY <1>1, <1>2 DEF IInv, JobInv, StartInv
<1> QED BY <1>1, <1>2, <1>3, <1>4, <1>5, <1>6, <1>7 DEF IInv, 
           StartInv, HandlerInv, WaitInv

(* The $() job becomes started; it was last_job, which is listed.          *)
LEMMA StartlastLemma == ASSUME IInv, Startlast PROVE IInv'
<1>1. last_job \in Listed /\ last_job # None /\ pc = "comsub" /\ ~hnd
  BY DEF Startlast, IInv, StartInv, LastInv
<1>2. /\ job' \in [JobId -> JobRecord]
      /\ sigchld' \in BOOLEAN /\ held_sigchld' \in BOOLEAN
      /\ \A k \in JobId : /\ job'[k].last = job[k].last
                          /\ k # last_job => job'[k] = job[k]
      /\ "STARTED" \in job'[last_job].flags
      /\ "ZOMBIE" \in job'[last_job].flags => "ZOMBIE" \in job[last_job].flags
  BY <1>1, StartJobLemma DEF Startlast
<1>3. UNCHANGED <<job_list, async_job, njobs, last_job, monitor, hnd, wj>>
  BY DEF Startlast, listvars, procvars, modevars, waitvars
<1>4. Listed' = Listed /\ LastInv' /\ JobInv'
  <2>1. \A k \in Listed : /\ job'[k].last \in ProcId
                          /\ "ZOMBIE" \in job'[k].flags =>
                                /\ "ZOMBIE" \in job[k].flags
                                /\ "STARTED" \in job'[k].flags
    BY <1>2, ListedLemma DEF IInv, JobInv
  <2> QED BY <1>3, <2>1, MarkLemma
<1>5. pc' = "reading" /\ pc' \in ControlPoint
  BY DEF Startlast, ControlPoint, Unblocked
<1>6. TypeOK'
  BY <1>2, <1>5 DEF IInv, TypeOK, Startlast, listvars, procvars, kernvars,
                    modevars, waitvars
<1> QED BY <1>1, <1>3, <1>4, <1>5, <1>6 DEF IInv, StartInv,
           HandlerInv, WaitInv

(* waitlast() waits for last_job, which is listed.                         *)
LEMMA WaitlastLemma == ASSUME IInv, Waitlast PROVE IInv'
<1>1. CASE pc' = "ready" /\ ierr' = TRUE /\ UNCHANGED <<job, waitvars>>
  <2>1. UNCHANGED <<job_list, job, last_job, async_job, njobs, monitor, wj, hnd>>
    BY <1>1 DEF Waitlast, listvars, procvars, modevars, waitvars
  <2>2. Listed' = Listed /\ LastInv' /\ JobInv'
    BY <2>1, QuietLemma, Zenon
  <2>3. pc = "reading" /\ pc' = "ready" /\ pc' \in ControlPoint
    BY <1>1 DEF Waitlast, ControlPoint, Unblocked
  <2>4. TypeOK'
    BY <1>1, <2>3 DEF IInv, TypeOK, Waitlast, listvars, procvars, kernvars,
                      modevars, waitvars
  <2> QED BY <2>1, <2>2, <2>3, <2>4 DEF IInv, StartInv,
             HandlerInv, WaitInv
<1>2. CASE /\ last_job # None
           /\ BeginWaitj(last_job, "xxcom")
           /\ UNCHANGED ierr
  <2>1. last_job \in Listed /\ "xxcom" \in Caller
    BY <1>2 DEF IInv, LastInv, Caller
  <2>2. ~hnd' /\ UNCHANGED <<listvars, procvars, monitor>>
    BY DEF Waitlast, modevars
  <2>3. /\ LastInv' /\ JobInv' /\ job' \in [JobId -> JobRecord]
        /\ StartInv' /\ HandlerInv' /\ WaitInv'
    BY <1>2, <2>1, <2>2, BeginWaitjLemma
  <2>4. pc' \in ControlPoint /\ wj' \in JobId /\ cont' \in Caller
    BY <1>2, <2>1, ListedLemma DEF BeginWaitj, ControlPoint, Blocked, IInv
  <2>5. TypeOK'
    BY <1>2, <2>3, <2>4 DEF IInv, TypeOK, Waitlast, listvars, procvars, kernvars,
                            modevars
  <2> QED BY <2>3, <2>5 DEF IInv
<1> QED BY <1>1, <1>2 DEF Waitlast, BeginWaitj

(* The marks go exactly when the wait does.                                *)
LEMMA WokenLemma == ASSUME IInv, Woken PROVE IInv'
<1>1. UNCHANGED <<job_list, async_job, njobs, last_job, monitor, hnd>>
  BY DEF Woken, listvars, procvars, modevars
<1>2. CASE job' = NotWaiting(wj) /\ pc' \in {"exit", "more", "ready"} /\ wj' = None
  <2>1. wj \in Listed /\ wj \in JobId /\ pc = "woke" /\ ~hnd
    BY ListedLemma DEF Woken, IInv, WaitInv, HandlerInv
  <2> DEFINE F == job[wj].flags \ {"WAITING", "W_ASYNC"}
  <2>2. F \in SUBSET JobFlag /\ job' = [job EXCEPT ![wj].flags = F]
    BY <1>2, <2>1 DEF NotWaiting, IInv, TypeOK, JobRecord
  <2>3. ("ZOMBIE" \in F <=> "ZOMBIE" \in job[wj].flags)
        /\ ("STARTED" \in F <=> "STARTED" \in job[wj].flags)
    OBVIOUS
  <2> HIDE DEF F
  <2>4. /\ job' \in [JobId -> JobRecord]
        /\ \A k \in JobId : /\ job'[k].last = job[k].last
                            /\ k # wj => job'[k] = job[k]
        /\ job'[wj].flags = F
    BY <2>1, <2>2, FlagsLemma DEF IInv
  <2>5. Listed' = Listed /\ LastInv' /\ JobInv'
    <3>1. \A k \in Listed : /\ job'[k].last \in ProcId
                            /\ "ZOMBIE" \in job'[k].flags =>
                                  /\ "ZOMBIE" \in job[k].flags
                                  /\ "STARTED" \in job'[k].flags
      BY <2>3, <2>4, ListedLemma DEF IInv, JobInv
    <3> QED BY <1>1, <3>1, MarkLemma
  <2>6. TypeOK'
    <3>1. pc' \in ControlPoint /\ cont' \in Caller
      BY <1>2 DEF Woken, ControlPoint, Unblocked, Blocked, Caller, IInv, TypeOK
    <3> QED BY <1>2, <2>4, <3>1 DEF IInv, TypeOK, Woken, listvars, procvars,
               kernvars, modevars
  <2> QED BY <1>1, <1>2, <2>1, <2>5, <2>6 DEF IInv, StartInv,
             HandlerInv, WaitInv
<1>3. CASE pc' = "wenter" /\ UNCHANGED <<job, waitvars>>
  <2>1. Listed' = Listed /\ LastInv' /\ JobInv' /\ wj' = wj
    BY <1>1, <1>3, QuietLemma DEF waitvars
  <2>2. pc' \in ControlPoint /\ pc = "woke"
    BY <1>3 DEF Woken, ControlPoint, Blocked
  <2>3. TypeOK'
    BY <1>3, <2>2 DEF IInv, TypeOK, Woken, listvars, procvars, kernvars,
                      modevars, waitvars
  <2> QED BY <1>1, <1>3, <2>1, <2>2, <2>3 DEF IInv, StartInv,
             HandlerInv, WaitInv
<1> QED BY <1>2, <1>3 DEF Woken, AfterOperand

(* Only KNOWN is set.                                                      *)
LEMMA J_asyncLemma == ASSUME IInv, J_async PROVE IInv'
<1>1. UNCHANGED <<job_list, async_job, njobs, last_job, monitor, hnd, wj, pc>>
  BY DEF J_async, StartCommand, listvars, procvars, waitvars
<1>2. async_job \in JobId /\ pc = "ready"
  BY DEF J_async, StartCommand, IInv, TypeOK
<1> DEFINE F == job[async_job].flags \union {"KNOWN"}
<1>3. F \in SUBSET JobFlag /\ job' = [job EXCEPT ![async_job].flags = F]
  BY <1>2 DEF J_async, IInv, TypeOK, JobRecord, JobFlag
<1>4. /\ "ZOMBIE" \in F <=> "ZOMBIE" \in job[async_job].flags
      /\ "STARTED" \in F <=> "STARTED" \in job[async_job].flags
  OBVIOUS
<1> HIDE DEF F
<1>5. /\ job' \in [JobId -> JobRecord]
      /\ \A k \in JobId : /\ job'[k].last = job[k].last
                          /\ k # async_job => job'[k] = job[k]
      /\ job'[async_job].flags = F
  BY <1>2, <1>3, FlagsLemma DEF IInv
<1>6. Listed' = Listed /\ LastInv' /\ JobInv'
  <2>1. \A k \in Listed : /\ job'[k].last \in ProcId
                          /\ "ZOMBIE" \in job'[k].flags =>
                                /\ "ZOMBIE" \in job[k].flags
                                /\ "STARTED" \in job'[k].flags
    BY <1>4, <1>5, ListedLemma DEF IInv, JobInv
  <2> QED BY <1>1, <2>1, MarkLemma
<1>7. TypeOK'
  <2>1. really_exit' \in BOOLEAN
    BY DEF J_async, StartCommand, IInv, TypeOK
  <2> QED BY <1>5, <2>1 DEF IInv, TypeOK, J_async, StartCommand, listvars,
             procvars, kernvars, waitvars
<1> QED BY <1>1, <1>2, <1>6, <1>7 DEF IInv, StartInv,
           HandlerInv, WaitInv

(* The first loop of j_jobs() and j_notify().                              *)
LEMMA MarkForRemovalLemma ==
    ASSUME IInv, NEW S, MarkForRemoval(S),
           UNCHANGED <<job_list, async_job, njobs, last_job, monitor>>
    PROVE  /\ job' \in [JobId -> JobRecord]
           /\ Listed' = Listed /\ LastInv' /\ JobInv'
<1>1. job \in [JobId -> JobRecord]
  BY DEF IInv, TypeOK
<1>2. ASSUME NEW j \in JobId
      PROVE  /\ job'[j] \in JobRecord
             /\ job'[j].last = job[j].last
             /\ job'[j].flags \in {job[j].flags, job[j].flags \union {"REMOVE"}}
  <2>1. job[j] \in JobRecord
    BY <1>1
  <2>2. job'[j] \in {job[j], [job[j] EXCEPT !.flags = job[j].flags \union {"REMOVE"}]}
    BY DEF MarkForRemoval
  <2> QED BY <2>1, <2>2 DEF JobRecord, JobFlag
<1>3. job' \in [JobId -> JobRecord]
  <2>1. job' = [j \in JobId |-> job'[j]]
    BY DEF MarkForRemoval
  <2> QED BY <1>2, <2>1
<1>4. Listed' = Listed /\ LastInv' /\ JobInv'
  <2>1. \A k \in Listed : /\ job'[k].last \in ProcId
                          /\ "ZOMBIE" \in job'[k].flags =>
                                /\ "ZOMBIE" \in job[k].flags
                                /\ "STARTED" \in job'[k].flags
    BY <1>2, ListedLemma DEF IInv, JobInv
  <2> QED BY <2>1, MarkLemma
<1> QED BY <1>3, <1>4

(* Only REMOVE is set.                                                     *)
LEMMA J_jobsLemma == ASSUME IInv, J_jobs PROVE IInv'
<1>1. /\ UNCHANGED <<job_list, async_job, njobs, last_job, monitor, hnd, wj>>
      /\ pc = "ready" /\ pc' = "notify" /\ ~hnd
  BY DEF J_jobs, StartCommand, listvars, procvars, waitvars
<1>2. /\ job' \in [JobId -> JobRecord]
      /\ Listed' = Listed /\ LastInv' /\ JobInv'
  BY <1>1, MarkForRemovalLemma DEF J_jobs
<1>3. TypeOK'
  <2>1. pc' \in ControlPoint /\ really_exit' \in BOOLEAN
    BY DEF J_jobs, StartCommand, ControlPoint, Blocked, IInv, TypeOK
  <2> QED BY <1>2, <2>1 DEF IInv, TypeOK, J_jobs, StartCommand, listvars,
             procvars, kernvars, waitvars
<1> QED BY <1>1, <1>2, <1>3 DEF IInv, StartInv, HandlerInv,
           WaitInv

(* Only REMOVE is set.                                                     *)
LEMMA J_notifyLemma == ASSUME IInv, J_notify PROVE IInv'
<1>1. /\ UNCHANGED <<job_list, async_job, njobs, last_job, monitor, hnd, wj>>
      /\ pc = "ready" /\ pc' = "notify" /\ ~hnd
  BY DEF J_notify, StartCommand, listvars, procvars, waitvars
<1>2. /\ job' \in [JobId -> JobRecord]
      /\ Listed' = Listed /\ LastInv' /\ JobInv'
  BY <1>1, MarkForRemovalLemma DEF J_notify
<1>3. TypeOK'
  <2>1. pc' \in ControlPoint /\ really_exit' \in BOOLEAN
    BY DEF J_notify, StartCommand, ControlPoint, Blocked, IInv, TypeOK
  <2> QED BY <1>2, <2>1 DEF IInv, TypeOK, J_notify, StartCommand, listvars,
             procvars, kernvars, waitvars
<1> QED BY <1>1, <1>2, <1>3 DEF IInv, StartInv, HandlerInv,
           WaitInv

(* Only REMOVE is set.                                                     *)
LEMMA J_exitNotifyLemma == ASSUME IInv, J_exitNotify PROVE IInv'
<1>1. /\ UNCHANGED <<job_list, async_job, njobs, last_job, monitor, hnd, wj>>
      /\ pc = "exiting" /\ pc' = "byebye" /\ ~hnd
  BY DEF J_exitNotify, listvars, procvars, waitvars, modevars
<1>2. /\ job' \in [JobId -> JobRecord]
      /\ Listed' = Listed /\ LastInv' /\ JobInv'
  BY <1>1, MarkForRemovalLemma DEF J_exitNotify
<1>3. TypeOK'
  <2>1. pc' \in ControlPoint
    BY <1>1 DEF ControlPoint, Blocked
  <2> QED BY <1>2, <2>1 DEF IInv, TypeOK, J_exitNotify, listvars, procvars,
             kernvars, waitvars, modevars
<1> QED BY <1>1, <1>2, <1>3 DEF IInv, StartInv, HandlerInv,
           WaitInv

-----------------------------------------------------------------------------
(* fork().                                                                 *)

(* The child inherits the list and forgets last_job.                       *)
LEMMA SubshellLemma == ASSUME IInv, Subshell PROVE IInv'
<1>1. /\ UNCHANGED <<job_list, async_job, hnd, pc, wj>>
      /\ pc = "ready" /\ monitor' = FALSE /\ last_job' = None
      /\ njobs' = njobs + 1 /\ njobs < MaxJobs
  BY DEF Subshell, waitvars
<1>2. job \in [JobId -> JobRecord]
  BY DEF IInv, TypeOK
<1>3. ASSUME NEW j \in JobId
      PROVE  /\ job'[j] \in JobRecord
             /\ job'[j].last = job[j].last
             /\ job'[j].flags = job[j].flags
  <2>1. job[j] \in JobRecord
    BY <1>2
  <2>2. job'[j] = [job[j] EXCEPT !.own = FALSE]
    BY DEF Subshell
  <2> QED BY <2>1, <2>2 DEF JobRecord
<1>4. job' \in [JobId -> JobRecord]
  <2>1. job' = [j \in JobId |-> job'[j]]
    BY DEF Subshell
  <2> QED BY <1>3, <2>1
<1>5. Listed' = Listed
  BY <1>1 DEF Listed
<1>6. JobInv'
  <2>1. njobs \in Nat /\ \A k \in Listed : k \in JobId /\ k \in Nat
    BY ListedLemma, BoundsAssumption DEF IInv, TypeOK, JobId
  <2>2. \A k \in Listed : k <= njobs'
    BY <1>1, <2>1 DEF IInv, JobInv
  <2>3. \A k \in Listed : job'[k].last \in ProcId
    BY <1>3, <2>1 DEF IInv, JobInv
  <2>4. \A k \in Listed : "ZOMBIE" \in job'[k].flags => "STARTED" \in job'[k].flags
    BY <1>3, <2>1 DEF IInv, JobInv
  <2> QED BY <1>1, <1>5, <2>2, <2>3, <2>4 DEF JobInv
<1>7. LastInv'
  BY <1>1, <1>5 DEF IInv, LastInv
<1>8. TypeOK'
  <2>1. /\ njobs' \in 0..MaxJobs /\ last_job' \in JobId \union {None}
        /\ nzombie' \in Int
    BY <1>1, BoundsAssumption DEF Subshell, IInv, TypeOK
  <2>2. /\ kern' \in [ProcId -> KernState] /\ news' \subseteq ProcId
        /\ sigchld' \in BOOLEAN /\ insub' \in BOOLEAN /\ monitor' \in BOOLEAN
    BY DEF Subshell, KernState
  <2> QED BY <1>4, <2>1, <2>2 DEF IInv, TypeOK, Subshell, waitvars
<1> QED BY <1>1, <1>6, <1>7, <1>8 DEF IInv, StartInv, HandlerInv, WaitInv

(* The first free process id when none is reused, or any free one.         *)
LEMMA FreePidLemma ==
    ASSUME nprocs \in Nat, nprocs < MaxProcs
    PROVE  FreePid \subseteq Pid /\ nprocs + 1 \in ProcId
BY BoundsAssumption DEF FreePid, Pid, ProcId

(* A process joins a job, and no other job changes.                        *)
LEMMA ForkLemma ==
    ASSUME TypeOK, nprocs < MaxProcs, NEW jb \in [JobId -> JobRecord],
           NEW j \in JobId, Fork(j, jb)
    PROVE  /\ job' \in [JobId -> JobRecord]
           /\ nprocs' \in 0..MaxProcs
           /\ owner' \in [ProcId -> JobId \union {None}]
           /\ pid' \in [ProcId -> Pid \union {0}]
           /\ proc' \in [ProcId -> ProcRecord]
           /\ kern' \in [ProcId -> KernState]
           /\ ttypgrp' \in Pid \union {ShellPgrp}
           /\ job'[j].last \in ProcId
           /\ job'[j].flags = jb[j].flags /\ job'[j].own = jb[j].own
           /\ \A k \in JobId : k # j => job'[k] = jb[k]
<1> DEFINE p == nprocs + 1
<1>1. FreePid \subseteq Pid /\ p \in ProcId
  BY FreePidLemma, BoundsAssumption DEF TypeOK
<1>2. PICK q \in Pid :
        /\ nprocs' = p
        /\ owner' = [owner EXCEPT ![p] = j]
        /\ pid' = [pid EXCEPT ![p] = q]
        /\ proc' = [proc EXCEPT ![p] = NoProc]
        /\ kern' = [kern EXCEPT ![p] = "run"]
        /\ job' \in {Linked(j, jb, p), [Linked(j, jb, p) EXCEPT ![j].pgrp = q]}
        /\ ttypgrp' \in {q, ttypgrp}
  BY <1>1 DEF Fork
<1>3. nprocs' \in 0..MaxProcs
  BY <1>1, <1>2, BoundsAssumption DEF ProcId
<1> HIDE DEF p
<1>4. /\ owner' \in [ProcId -> JobId \union {None}]
      /\ pid' \in [ProcId -> Pid \union {0}]
      /\ kern' \in [ProcId -> KernState]
      /\ ttypgrp' \in Pid \union {ShellPgrp}
  BY <1>1, <1>2 DEF TypeOK, KernState
<1>5. proc' \in [ProcId -> ProcRecord]
  BY <1>1, <1>2 DEF TypeOK, NoProc, ProcRecord, State
<1>6. jb[j] \in JobRecord
  OBVIOUS
<1>7. CASE job' = Linked(j, jb, p)
  <2> DEFINE r == [jb[j] EXCEPT !.last = p]
  <2>1. r \in JobRecord /\ r.last = p /\ r.flags = jb[j].flags /\ r.own = jb[j].own
    BY <1>1, <1>6 DEF JobRecord
  <2>2. job' = [jb EXCEPT ![j] = r]
    BY <1>7 DEF Linked
  <2> HIDE DEF r
  <2> QED BY <1>1, <1>3, <1>4, <1>5, <2>1, <2>2
<1>8. CASE job' = [Linked(j, jb, p) EXCEPT ![j].pgrp = q]
  <2> DEFINE r == [[jb[j] EXCEPT !.last = p] EXCEPT !.pgrp = q]
  <2>1. r \in JobRecord /\ r.last = p /\ r.flags = jb[j].flags /\ r.own = jb[j].own
    BY <1>1, <1>6 DEF JobRecord
  <2>2. job' = [jb EXCEPT ![j] = r]
    BY <1>8 DEF Linked
  <2> HIDE DEF r
  <2> QED BY <1>1, <1>3, <1>4, <1>5, <2>1, <2>2
<1> QED BY <1>2, <1>7, <1>8

(* The job under construction stays last_job and not started.              *)
LEMMA ExchildNextLemma == ASSUME IInv, ExchildNext PROVE IInv'
<1>1. /\ UNCHANGED <<job_list, async_job, njobs, last_job, monitor, hnd, wj>>
      /\ pc = "pipe" /\ ~hnd
  BY DEF ExchildNext, listvars, modevars, waitvars
<1>2. last_job \in Listed /\ last_job \in JobId /\ job[last_job].own
      /\ "STARTED" \notin job[last_job].flags
  BY <1>1, ListedLemma DEF ExchildNext, IInv, LastInv, StartInv
<1>3. Fork(last_job, job) /\ nprocs < MaxProcs /\ job \in [JobId -> JobRecord]
  BY DEF ExchildNext, IInv, TypeOK
<1>4. /\ job' \in [JobId -> JobRecord]
      /\ nprocs' \in 0..MaxProcs
      /\ owner' \in [ProcId -> JobId \union {None}]
      /\ pid' \in [ProcId -> Pid \union {0}]
      /\ proc' \in [ProcId -> ProcRecord]
      /\ kern' \in [ProcId -> KernState]
      /\ ttypgrp' \in Pid \union {ShellPgrp}
      /\ job'[last_job].last \in ProcId
      /\ job'[last_job].flags = job[last_job].flags
      /\ job'[last_job].own = job[last_job].own
      /\ \A k \in JobId : k # last_job => job'[k] = job[k]
  BY <1>2, <1>3, ForkLemma DEF IInv
<1>5. Listed' = Listed /\ LastInv' /\ JobInv'
  <2>1. \A k \in Listed : /\ job'[k].last \in ProcId
                          /\ "ZOMBIE" \in job'[k].flags =>
                                /\ "ZOMBIE" \in job[k].flags
                                /\ "STARTED" \in job'[k].flags
    BY <1>2, <1>4, ListedLemma DEF IInv, JobInv
  <2> QED BY <1>1, <2>1, MarkLemma
<1>6. pc' \in {"pipe", "comsub", "lastproc"}
  BY DEF ExchildNext, NextPc
<1>7. TypeOK'
  <2>1. pc' \in ControlPoint
    BY <1>6 DEF ControlPoint, Unblocked, Blocked
  <2>2. UNCHANGED news
    BY <1>3 DEF Fork
  <2> QED BY <1>4, <2>1, <2>2 DEF IInv, TypeOK, ExchildNext, listvars, modevars,
             waitvars
<1> QED BY <1>1, <1>2, <1>4, <1>5, <1>6, <1>7 DEF IInv, 
           StartInv, HandlerInv, WaitInv

(* new_job() and the assignments to j->flags and j->ppid in exchild().     *)
LEMMA NewJobLemma ==
    ASSUME NEW n \in JobId, NEW F \in SUBSET JobFlag
    PROVE  LET r == [NoJob EXCEPT !.num = n, !.flags = F, !.own = TRUE]
           IN  r \in JobRecord /\ r.flags = F /\ r.own
<1> DEFINE r1 == [NoJob EXCEPT !.num = n]
           r2 == [r1 EXCEPT !.flags = F]
           r3 == [r2 EXCEPT !.own = TRUE]
<1>1. NoJob \in JobRecord
  BY DEF NoJob, JobRecord, State
<1>2. r1 \in JobRecord
  <2>1. n \in Int
    BY BoundsAssumption DEF JobId
  <2> QED BY <1>1, <2>1 DEF JobRecord
<1> HIDE DEF r1
<1>3. r2 \in JobRecord /\ r2.flags = F
  BY <1>2 DEF JobRecord
<1> HIDE DEF r2
<1>4. r3 \in JobRecord /\ r3.flags = F /\ r3.own
  BY <1>3 DEF JobRecord
<1>5. r3 = [NoJob EXCEPT !.num = n, !.flags = F, !.own = TRUE]
  BY Zenon DEF r1, r2
<1> HIDE DEF r3
<1> QED BY <1>4, <1>5

(* A new job, listed wherever put_job() puts it; no listed job has its age.*)
LEMMA ExchildFirstLemma == ASSUME IInv, ExchildFirst PROVE IInv'
<1>1. /\ UNCHANGED <<async_job, nzombie, held_sigchld, sigchld, hnd, pend, cont,
                     wj, ierr, monitor, insub>>
      /\ pc = "ready" /\ ~hnd /\ njobs < MaxJobs /\ nprocs < MaxProcs
      /\ really_exit' \in BOOLEAN
  BY DEF ExchildFirst, StartCommand, IInv, TypeOK
<1> DEFINE j == njobs + 1
           r(n, flags) == [NoJob EXCEPT !.num = n, !.flags = flags, !.own = TRUE]
           new(n, flags) == [job EXCEPT ![j] = r(n, flags)]
<1>2. PICK n \in JobId, flags \in KindFlags :
        /\ njobs' = j /\ last_job' = j
        /\ PastStopped(job_list, new(n, flags), j, job_list')
        /\ Fork(j, new(n, flags))
        /\ \E more \in More : pc' = NextPc(flags, more)
  BY DEF ExchildFirst
<1>3. j \in JobId /\ j # None /\ njobs \in Nat /\ j \notin Listed
  <2>1. njobs \in Nat /\ j \in JobId /\ j # None
    BY <1>1, BoundsAssumption DEF IInv, TypeOK, JobId, None
  <2>2. \A k \in Listed : k \in Nat /\ k <= njobs
    BY ListedLemma DEF IInv, JobInv, JobId
  <2> QED BY <2>1, <2>2
<1>4. flags \in SUBSET JobFlag /\ "ZOMBIE" \notin flags /\ "STARTED" \notin flags
  BY DEF KindFlags, JobFlag
<1>5. r(n, flags) \in JobRecord /\ r(n, flags).flags = flags /\ r(n, flags).own
  BY <1>4, NewJobLemma
<1> HIDE DEF r
<1>6. /\ new(n, flags) \in [JobId -> JobRecord]
      /\ new(n, flags)[j] = r(n, flags)
      /\ \A k \in JobId : k # j => new(n, flags)[k] = job[k]
  BY <1>3, <1>5 DEF IInv, TypeOK
<1> HIDE DEF j, new
<1>7. /\ job' \in [JobId -> JobRecord]
      /\ nprocs' \in 0..MaxProcs
      /\ owner' \in [ProcId -> JobId \union {None}]
      /\ pid' \in [ProcId -> Pid \union {0}]
      /\ proc' \in [ProcId -> ProcRecord]
      /\ kern' \in [ProcId -> KernState]
      /\ ttypgrp' \in Pid \union {ShellPgrp}
      /\ job'[j].last \in ProcId
      /\ job'[j].flags = flags
      /\ job'[j].own
      /\ \A k \in JobId : k # j => job'[k] = job[k]
  <2>1. /\ job' \in [JobId -> JobRecord]
        /\ nprocs' \in 0..MaxProcs
        /\ owner' \in [ProcId -> JobId \union {None}]
        /\ pid' \in [ProcId -> Pid \union {0}]
        /\ proc' \in [ProcId -> ProcRecord]
        /\ kern' \in [ProcId -> KernState]
        /\ ttypgrp' \in Pid \union {ShellPgrp}
        /\ job'[j].last \in ProcId
        /\ job'[j].flags = new(n, flags)[j].flags
        /\ job'[j].own = new(n, flags)[j].own
        /\ \A k \in JobId : k # j => job'[k] = new(n, flags)[k]
    BY <1>1, <1>2, <1>3, <1>6, ForkLemma DEF IInv
  <2> QED BY <1>5, <1>6, <2>1
<1>8. /\ job_list' \in Seq(JobId) /\ NoRepeats(job_list')
      /\ Listed' = Listed \union {j}
  <2>1. job_list \in Seq(JobId) /\ NoRepeats(job_list)
    BY DEF IInv, TypeOK
  <2> QED BY <1>2, <1>3, <2>1, PastStoppedLemma DEF Listed
<1>9. pc' \in {"pipe", "comsub", "lastproc"}
  BY <1>2 DEF NextPc
<1>10. JobInv'
  <2>1. \A k \in Listed : k \in JobId /\ k # j /\ k <= njobs'
    BY <1>2, <1>3, ListedLemma DEF IInv, JobInv, JobId, j
  <2>2. j <= njobs'
    BY <1>2, <1>3 DEF JobId
  <2> QED BY <1>1, <1>4, <1>7, <1>8, <2>1, <2>2 DEF IInv, JobInv
<1>11. LastInv'
  BY <1>1, <1>2, <1>8 DEF IInv, LastInv
<1>12. TypeOK'
  <2>1. pc' \in ControlPoint
    BY <1>9 DEF ControlPoint, Unblocked, Blocked
  <2>2. last_job' \in JobId \union {None} /\ njobs' \in 0..MaxJobs
    BY <1>2, <1>3, BoundsAssumption DEF JobId
  <2>3. UNCHANGED news
    BY <1>2 DEF Fork
  <2> QED BY <1>1, <1>7, <1>8, <2>1, <2>2, <2>3 DEF IInv, TypeOK
<1> QED BY <1>1, <1>2, <1>3, <1>4, <1>7, <1>9, <1>10, <1>11, <1>12
        DEF IInv, StartInv, HandlerInv, WaitInv

-----------------------------------------------------------------------------
(* Steps that forget jobs.                                                 *)

(* remove_job() of last_job clears last_job.                               *)
LEMMA ForkFailsNextLemma == ASSUME IInv, ForkFailsNext PROVE IInv'
<1>1. /\ UNCHANGED <<job, njobs, hnd, wj, monitor>>
      /\ pc = "pipe" /\ ~hnd /\ pc' \in {"ready", "exit"}
  BY DEF ForkFailsNext, AfterError, procvars, waitvars, modevars
<1>2. last_job \in Listed
  BY DEF ForkFailsNext, IInv, LastInv
<1>3. /\ job_list' \in Seq(JobId) /\ NoRepeats(job_list')
      /\ Listed' = Listed \ {last_job}
      /\ last_job' \in {last_job, None} /\ async_job' \in {async_job, None}
      /\ nzombie' \in Int /\ ierr' = ierr
      /\ LastInv'
  BY <1>2, RemoveLemma DEF ForkFailsNext, IInv, TypeOK, Listed
<1>4. JobInv'
  BY <1>1, <1>3 DEF IInv, JobInv
<1>5. TypeOK'
  <2>1. pc' \in ControlPoint
    BY <1>1 DEF ControlPoint, Unblocked, Blocked
  <2>2. kern' \in [ProcId -> KernState]
    BY DEF ForkFailsNext, IInv, TypeOK, KernState
  <2>3. news' \subseteq ProcId /\ sigchld' \in BOOLEAN
    BY DEF ForkFailsNext, IInv, TypeOK, Procs
  <2> QED BY <1>3, <2>1, <2>2, <2>3 DEF IInv, TypeOK, ForkFailsNext, procvars,
             waitvars, modevars
<1>6. StartInv' /\ HandlerInv' /\ WaitInv'
  BY <1>1 DEF IInv, StartInv, HandlerInv, WaitInv
<1> QED BY <1>3, <1>4, <1>5, <1>6 DEF IInv

(* j_set_async() may forget the old last background job.                   *)
LEMMA SetAsyncLemma == ASSUME IInv, SetAsync PROVE IInv'
<1> DEFINE removed == Unknown /\ async_job \in Listed
           started == "STARTED" \in job[wj].flags
<1>1. /\ UNCHANGED <<job, njobs, hnd>>
      /\ pc = "setasync" /\ ~hnd /\ wj # None /\ wj \in JobId
      /\ async_job' \in {wj, None, async_job}
      /\ pc' = IF started THEN "trim" ELSE "ready"
      /\ wj' = IF started THEN wj ELSE None
      /\ ierr' \in BOOLEAN
  BY DEF SetAsync, procvars, modevars, IInv, TypeOK, HandlerInv, WaitInv
<1>2. /\ job_list' \in Seq(JobId) /\ NoRepeats(job_list') /\ nzombie' \in Int
      /\ Listed' \subseteq Listed /\ last_job' \in {last_job, None}
      /\ LastInv'
  <2>1. CASE removed
    <3>1. /\ job_list' = Without(job_list, async_job)
          /\ nzombie' \in {nzombie, nzombie - 1}
          /\ last_job' = IF last_job = async_job THEN None ELSE last_job
      BY <2>1 DEF SetAsync
    <3>2. /\ job_list' \in Seq(JobId) /\ NoRepeats(job_list')
          /\ Listed' = Listed \ {async_job}
      BY <2>1, <3>1, WithoutLemma DEF IInv, TypeOK, Listed
    <3>3. nzombie' \in Int
      BY <3>1 DEF IInv, TypeOK
    <3> QED BY <3>1, <3>2, <3>3 DEF IInv, LastInv
  <2>2. CASE ~removed
    <3>1. UNCHANGED <<job_list, nzombie, last_job>>
      BY <2>2 DEF SetAsync
    <3> QED BY <3>1 DEF IInv, LastInv, TypeOK, Listed
  <2> QED BY <2>1, <2>2
<1> HIDE DEF removed, started
<1>3. JobInv'
  BY <1>1, <1>2 DEF IInv, JobInv
<1>4. TypeOK'
  <2>1. pc' \in ControlPoint
    BY <1>1 DEF ControlPoint, Unblocked, Blocked
  <2>2. async_job' \in JobId \union {None} /\ wj' \in JobId \union {None}
        /\ last_job' \in JobId \union {None}
    BY <1>1, <1>2 DEF IInv, TypeOK
  <2> QED BY <1>1, <1>2, <2>1, <2>2 DEF IInv, TypeOK, SetAsync, procvars,
             kernvars, modevars
<1>5. StartInv' /\ HandlerInv' /\ WaitInv'
  BY <1>1 DEF StartInv, HandlerInv, WaitInv
<1> QED BY <1>2, <1>3, <1>4, <1>5 DEF IInv

(* The job removed is a zombie other than async_job.                       *)
LEMMA TrimZombiesLemma == ASSUME IInv, TrimZombies PROVE IInv'
<1>1. /\ UNCHANGED <<job, njobs, hnd, monitor>>
      /\ pc = "trim" /\ ~hnd
  BY DEF TrimZombies, procvars, modevars, IInv, HandlerInv
<1>2. CASE /\ \E j \in OldZombies : RemoveJob(job_list, job, j)
           /\ UNCHANGED <<pc, wj>>
  <2>1. PICK j \in OldZombies : RemoveJob(job_list, job, j)
    BY <1>2
  <2>2. j \in Listed /\ j # async_job
    BY DEF OldZombies
  <2>3. /\ job_list' \in Seq(JobId) /\ NoRepeats(job_list')
        /\ Listed' = Listed \ {j}
        /\ last_job' \in {last_job, None} /\ async_job' = async_job
        /\ nzombie' \in Int /\ ierr' = ierr
        /\ LastInv'
    BY <2>1, <2>2, RemoveLemma DEF Removed, IInv, TypeOK, Listed
  <2>4. JobInv'
    BY <1>1, <1>2, <2>2, <2>3 DEF IInv, JobInv, WaitInv
  <2>5. TypeOK'
    BY <1>2, <2>3 DEF IInv, TypeOK, TrimZombies, procvars, kernvars, modevars
  <2>6. StartInv' /\ HandlerInv' /\ WaitInv'
    BY <1>1, <1>2, <2>3 DEF IInv, StartInv, HandlerInv, WaitInv
  <2> QED BY <2>3, <2>4, <2>5, <2>6 DEF IInv
<1>3. CASE /\ pc' = "ready" /\ wj' = None
           /\ UNCHANGED <<job_list, last_job, async_job>>
           /\ nzombie' \in {0, nzombie} /\ ierr' \in BOOLEAN
  <2>1. Listed' = Listed /\ LastInv' /\ JobInv'
    BY <1>1, <1>3, QuietLemma
  <2>2. TypeOK'
    <3>1. pc' \in ControlPoint /\ nzombie' \in Int
      BY <1>3 DEF ControlPoint, Unblocked, IInv, TypeOK
    <3> QED BY <1>3, <3>1 DEF IInv, TypeOK, TrimZombies, procvars, kernvars,
               modevars
  <2> QED BY <1>1, <1>3, <2>1, <2>2 DEF IInv, StartInv,
             HandlerInv, WaitInv
<1> QED BY <1>2, <1>3 DEF TrimZombies, listvars, IInv, TypeOK

(* No job is being started or waited for in the removal loop.              *)
LEMMA RemoveMarkedLemma == ASSUME IInv, RemoveMarked PROVE IInv'
<1>1. /\ UNCHANGED <<job, njobs, hnd, monitor, pc, wj>>
      /\ pc \in {"notify", "byebye"}
  BY DEF RemoveMarked, procvars, modevars, waitvars
<1>2. PICK i \in ToRemove : RemoveJob(job_list, job, job_list[i])
  BY DEF RemoveMarked
<1>3. job_list[i] \in Listed
  BY ListedLemma DEF ToRemove, IInv
<1>4. /\ job_list' \in Seq(JobId) /\ NoRepeats(job_list')
      /\ Listed' = Listed \ {job_list[i]}
      /\ last_job' \in {last_job, None} /\ async_job' \in {async_job, None}
      /\ nzombie' \in Int /\ ierr' = ierr
      /\ LastInv'
  BY <1>2, <1>3, RemoveLemma DEF IInv, TypeOK, Listed
<1>5. TypeOK'
  BY <1>4 DEF IInv, TypeOK, RemoveMarked, procvars, kernvars, modevars, waitvars
<1>6. JobInv'
  BY <1>1, <1>4 DEF IInv, JobInv
<1> QED BY <1>1, <1>4, <1>5, <1>6 DEF IInv, StartInv,
           HandlerInv, WaitInv

(* j_waitj() lets go of its job before it removes it.                      *)
LEMMA WaitjReturnsLemma == ASSUME IInv, WaitjReturns PROVE IInv'
<1> DEFINE F == job[wj].flags \ {"WAITING", "W_ASYNC", "FG"}
           done == [job EXCEPT ![wj].flags = @ \ {"WAITING", "W_ASYNC", "FG"}]
<1>1. /\ UNCHANGED <<njobs, hnd, monitor>> /\ wj' = None
      /\ pc = "wenter" /\ ~hnd /\ pc' \in {"all", "more", "ready"}
  BY DEF WaitjReturns, AfterOperand, procvars, modevars, IInv, HandlerInv
<1>2. wj \in Listed /\ wj \in JobId
  BY <1>1, ListedLemma DEF IInv, WaitInv
<1>3. F \in SUBSET JobFlag /\ job' = [job EXCEPT ![wj].flags = F]
  BY <1>2 DEF WaitjReturns, IInv, TypeOK, JobRecord
<1>4. /\ "ZOMBIE" \in F <=> "ZOMBIE" \in job[wj].flags
      /\ "STARTED" \in F <=> "STARTED" \in job[wj].flags
  OBVIOUS
<1>5. RemoveJob(job_list, done, wj) \/ KeepList(job_list)
  BY DEF WaitjReturns
<1> HIDE DEF F, done
<1>6. /\ job' \in [JobId -> JobRecord]
      /\ \A k \in JobId : /\ job'[k].last = job[k].last
                          /\ k # wj => job'[k] = job[k]
      /\ job'[wj].flags = F
  BY <1>2, <1>3, FlagsLemma DEF IInv
<1>7. /\ job_list' \in Seq(JobId) /\ NoRepeats(job_list')
      /\ Listed' \subseteq Listed
      /\ last_job' \in {last_job, None} /\ async_job' \in {async_job, None}
      /\ nzombie' \in Int /\ ierr' = ierr
      /\ LastInv'
  <2>1. CASE RemoveJob(job_list, done, wj)
    BY <1>2, <2>1, RemoveLemma DEF IInv, TypeOK, Listed
  <2>2. CASE KeepList(job_list)
    BY <2>2 DEF KeepList, IInv, TypeOK, Listed, LastInv
  <2> QED BY <1>5, <2>1, <2>2
<1>8. JobInv'
  <2>1. \A k \in Listed : /\ k <= njobs /\ job'[k].last \in ProcId
                          /\ "ZOMBIE" \in job'[k].flags =>
                                "STARTED" \in job'[k].flags
    BY <1>4, <1>6, ListedLemma DEF IInv, JobInv
  <2> QED BY <1>1, <1>7, <2>1 DEF JobInv
<1>9. TypeOK'
  <2>1. pc' \in ControlPoint /\ cont' \in Caller
    BY <1>1 DEF WaitjReturns, ControlPoint, Unblocked, Caller, IInv, TypeOK
  <2>2. ttypgrp' \in Pid \union {ShellPgrp} /\ pend' \in {"none", "trap", "fatal"}
    BY DEF WaitjReturns, IInv, TypeOK
  <2> QED BY <1>1, <1>6, <1>7, <2>1, <2>2 DEF IInv, TypeOK, WaitjReturns,
             procvars, kernvars, modevars
<1> QED BY <1>1, <1>7, <1>8, <1>9 DEF IInv, StartInv,
           HandlerInv, WaitInv

-----------------------------------------------------------------------------
(* j_resume(): what it makes of the processes, state and flags of job j.   *)
StoppedProcs(j) == {p \in Procs(j) : proc[p].state = "stopped"}
ResumedState(j) == IF StoppedProcs(j) # {} THEN "running" ELSE job[j].state
ResumedFlags(j, bg) == IF bg THEN job[j].flags
                       ELSE (job[j].flags \ {"KNOWN"}) \union {"FG"}
WokenProcs(j) == {p \in Procs(j) : kern[p] = "stop" /\ ResumedState(j) = "running"}
Resumes(j, bg) ==
    /\ job[j].pgrp # 0
    /\ proc' = [p \in ProcId |-> IF p \in StoppedProcs(j) THEN NoProc ELSE proc[p]]
    /\ kern' = [p \in ProcId |-> IF p \in WokenProcs(j) THEN "run" ELSE kern[p]]
    /\ news' = news \ WokenProcs(j)
    /\ sigchld' = (sigchld \/ WokenProcs(j) # {})
    /\ job_list' \in Seq(JobId) /\ NoRepeats(job_list') /\ Listed' = Listed
    /\ \A k \in JobId : k # j => job'[k] = job[k]
    /\ job' \in [JobId -> JobRecord]
    /\ job'[j].state = ResumedState(j)
    /\ job'[j].flags = IF bg THEN ResumedFlags(j, bg)
                       ELSE ResumedFlags(j, bg) \union {"WAITING"}
    /\ job'[j].num = job[j].num /\ job'[j].status = job[j].status
    /\ job'[j].own = job[j].own /\ job'[j].pgrp = job[j].pgrp
    /\ job'[j].last = job[j].last
    /\ wj' = j
    /\ bg => pc' = "setasync" /\ UNCHANGED <<async_job, cont, ttypgrp>>
    /\ ~bg => /\ pc' = "wenter" /\ cont' = "resume"
              /\ async_job' = IF async_job = j THEN None ELSE async_job
              /\ ttypgrp' = IF ResumedState(j) = "running" THEN job[j].pgrp
                            ELSE ttypgrp

(* j_resume() does just that.                                              *)
LEMMA ResumesLemma ==
    ASSUME IInv, J_resume
    PROVE  \E j \in Listed, bg \in BOOLEAN : Resumes(j, bg)
<1> DEFINE resumed(j, bg) == [job EXCEPT ![j].state = ResumedState(j),
                                         ![j].flags = ResumedFlags(j, bg)]
<1>1. PICK j \in Listed, bg \in BOOLEAN :
        /\ job[j].pgrp # 0
        /\ proc' = [p \in ProcId |-> IF p \in StoppedProcs(j) THEN NoProc
                                     ELSE proc[p]]
        /\ PastStopped(job_list, resumed(j, bg), j, job_list')
        /\ kern' = [p \in ProcId |-> IF p \in WokenProcs(j) THEN "run"
                                     ELSE kern[p]]
        /\ news' = news \ WokenProcs(j)
        /\ sigchld' = (sigchld \/ WokenProcs(j) # {})
        /\ IF bg
           THEN /\ job' = resumed(j, bg)
                /\ wj' = j
                /\ pc' = "setasync"
                /\ UNCHANGED <<async_job, cont, ttypgrp>>
           ELSE /\ ttypgrp' = IF ResumedState(j) = "running" THEN job[j].pgrp
                              ELSE ttypgrp
                /\ async_job' = IF async_job = j THEN None ELSE async_job
                /\ job' = Waiting(resumed(j, bg), j, "resume")
                /\ wj' = j
                /\ cont' = "resume"
                /\ pc' = "wenter"
  BY Zenon DEF J_resume, StoppedProcs, ResumedState, ResumedFlags, WokenProcs
<1>2. j \in JobId /\ job[j] \in JobRecord /\ job \in [JobId -> JobRecord]
  BY ListedLemma DEF IInv, TypeOK
<1>3. ResumedState(j) \in State /\ ResumedFlags(j, bg) \in SUBSET JobFlag
  BY <1>2 DEF ResumedState, ResumedFlags, JobRecord, State, JobFlag
<1> DEFINE r == [[job[j] EXCEPT !.state = ResumedState(j)]
                        EXCEPT !.flags = ResumedFlags(j, bg)]
           w == [r EXCEPT !.flags = ResumedFlags(j, bg) \union {"WAITING"}]
           same(x) == /\ x \in JobRecord /\ x.state = ResumedState(j)
                      /\ x.num = job[j].num /\ x.status = job[j].status
                      /\ x.own = job[j].own /\ x.pgrp = job[j].pgrp
                      /\ x.last = job[j].last
<1>4. same(r) /\ r.flags = ResumedFlags(j, bg)
  BY <1>2, <1>3 DEF JobRecord
<1>5. resumed(j, bg) = [job EXCEPT ![j] = r]
  BY <1>2
<1> HIDE DEF r, resumed
<1>6. same(w) /\ w.flags = ResumedFlags(j, bg) \union {"WAITING"}
  <2>1. ResumedFlags(j, bg) \union {"WAITING"} \in SUBSET JobFlag
    BY <1>3 DEF JobFlag
  <2> QED BY <1>4, <2>1 DEF JobRecord
<1>7. ~bg => job' = [job EXCEPT ![j] = w]
  <2> SUFFICES ASSUME ~bg PROVE job' = [job EXCEPT ![j] = w]
    OBVIOUS
  <2>1. job' = [[job EXCEPT ![j] = r] EXCEPT
                   ![j].flags = [job EXCEPT ![j] = r][j].flags \union {"WAITING"}]
    BY <1>1, <1>5 DEF Waiting, WaitFlags
  <2> QED BY <2>1, <1>2, <1>4
<1> HIDE DEF w
<1>8. /\ same(job'[j]) /\ job' \in [JobId -> JobRecord]
      /\ job'[j].flags = IF bg THEN ResumedFlags(j, bg)
                         ELSE ResumedFlags(j, bg) \union {"WAITING"}
      /\ \A k \in JobId : k # j => job'[k] = job[k]
  <2>1. CASE bg
    BY <1>1, <1>2, <1>4, <1>5, <2>1
  <2>2. CASE ~bg
    BY <1>2, <1>6, <1>7, <2>2
  <2> QED BY <2>1, <2>2
<1>9. job_list' \in Seq(JobId) /\ NoRepeats(job_list') /\ Listed' = Listed
  <2>1. job_list \in Seq(JobId) /\ NoRepeats(job_list)
    BY DEF IInv, TypeOK
  <2>2. PastStopped(job_list, resumed(j, bg), j, job_list')
    BY <1>1
  <2>3. /\ job_list' \in Seq(JobId) /\ NoRepeats(job_list')
        /\ Jobs(job_list') = Jobs(job_list) \union {j}
    BY <1>2, <2>1, <2>2, PastStoppedLemma
  <2> QED BY <2>3 DEF Listed
<1>10. Resumes(j, bg)
  BY <1>1, <1>8, <1>9 DEF Resumes
<1> QED BY <1>10

(* j_resume() keeps the invariant.                                         *)
LEMMA J_resumeLemma == ASSUME IInv, J_resume PROVE IInv'
<1>1. /\ UNCHANGED <<last_job, nzombie, held_sigchld, procvars, hnd, pend, ierr,
                     monitor, insub>>
      /\ pc = "ready" /\ ~hnd /\ really_exit' \in BOOLEAN
  BY DEF J_resume, StartCommand, IInv, TypeOK
<1>2. PICK j \in Listed, bg \in BOOLEAN : Resumes(j, bg)
  BY ResumesLemma
<1>3. j \in JobId /\ j # None /\ job[j] \in JobRecord
  BY ListedLemma DEF IInv, TypeOK, JobId, None
<1>4. /\ proc' \in [ProcId -> ProcRecord] /\ kern' \in [ProcId -> KernState]
      /\ news' \subseteq ProcId /\ sigchld' \in BOOLEAN
  <2>1. NoProc \in ProcRecord
    BY DEF NoProc, ProcRecord, State
  <2> QED BY <1>2, <2>1 DEF Resumes, IInv, TypeOK, KernState
<1>5. /\ "ZOMBIE" \in job'[j].flags => "ZOMBIE" \in job[j].flags
      /\ "STARTED" \in job[j].flags => "STARTED" \in job'[j].flags
      /\ ~bg => "WAITING" \in job'[j].flags
  BY <1>2 DEF Resumes, ResumedFlags
<1>6. /\ job_list' \in Seq(JobId) /\ NoRepeats(job_list') /\ Listed' = Listed
      /\ job' \in [JobId -> JobRecord] /\ job'[j].last = job[j].last
      /\ \A k \in JobId : k # j => job'[k] = job[k]
      /\ wj' = j /\ pc' = IF bg THEN "setasync" ELSE "wenter"
      /\ cont' \in {cont, "resume"} /\ async_job' \in {async_job, None}
      /\ ttypgrp' \in {job[j].pgrp, ttypgrp} /\ job[j].pgrp # 0
  BY <1>2 DEF Resumes
<1>7. JobInv'
  <2>1. \A k \in Listed : /\ k <= njobs /\ job'[k].last \in ProcId
                          /\ "ZOMBIE" \in job'[k].flags =>
                                "STARTED" \in job'[k].flags
    BY <1>5, <1>6, ListedLemma DEF IInv, JobInv
  <2> QED BY <1>1, <1>6, <2>1 DEF JobInv, procvars
<1>8. LastInv'
  BY <1>1, <1>6 DEF IInv, LastInv
<1>9. TypeOK'
  <2>1. pc' \in ControlPoint /\ cont' \in Caller
    BY <1>6 DEF ControlPoint, Blocked, Caller, IInv, TypeOK
  <2>2. ttypgrp' \in Pid \union {ShellPgrp}
    BY <1>3, <1>6 DEF JobRecord, IInv, TypeOK
  <2> QED BY <1>1, <1>3, <1>4, <1>6, <2>1, <2>2 DEF IInv, TypeOK, procvars
<1>10. WaitInv' /\ StartInv' /\ HandlerInv'
  BY <1>1, <1>3, <1>5, <1>6 DEF WaitInv, StartInv, HandlerInv
<1> QED BY <1>7, <1>8, <1>9, <1>10 DEF IInv

-----------------------------------------------------------------------------
(* The outcomes of check_job(): the job goes on; its structure gets state, *)
(* status, flags and number, and it is removed, kept as a zombie, or kept, *)
(* perhaps at the front of the list.  It is removed only when nobody waits *)
(* for it or, but for `set -o notify', asked for it.                       *)
Closed(j, pr, num, flags) ==
    /\ \A k \in JobId : k # j => job'[k] = job[k]
    /\ job'[j].num = num /\ job'[j].flags = flags
    /\ job'[j].state = JobState(j, pr)
    /\ job'[j].status = pr[job[j].last].status
    /\ job'[j].own = job[j].own /\ job'[j].pgrp = job[j].pgrp
    /\ job'[j].last = job[j].last
Unwatched(j, pr) == ~monitor /\ ~Watched(j) /\ JobState(j, pr) # "stopped"
Forgotten(j) == Notify \/ (j # async_job /\ "KNOWN" \notin job[j].flags)
Checked(j, pr) ==
    \/ /\ "STARTED" \in job[j].flags => /\ \E p \in Procs(j) : pr[p].state = "running"
                                        /\ ierr' = ierr
       /\ UNCHANGED <<job, job_list, last_job, async_job, nzombie>>
       /\ Listed' = Listed
    \/ /\ "STARTED" \in job[j].flags
       /\ \A p \in Procs(j) : pr[p].state # "running"
       /\ \/ /\ "WAITING" \notin job[j].flags /\ Forgotten(j)
             /\ Removed(job, j)
             /\ Closed(j, pr, job[j].num, job[j].flags)
          \/ /\ Unwatched(j, pr)
             /\ Closed(j, pr, -1, job[j].flags \union {"ZOMBIE"})
             /\ nzombie' = nzombie + 1
             /\ UNCHANGED <<job_list, last_job, async_job, ierr>>
             /\ Listed' = Listed
          \/ /\ ~Unwatched(j, pr)
             /\ Closed(j, pr, job[j].num, job[j].flags)
             /\ UNCHANGED <<last_job, async_job, nzombie, ierr>>
             /\ Listed' = Listed

(* check_job() does one of these.                                          *)
LEMMA CheckJobLemma ==
    ASSUME IInv, NEW j \in Listed, NEW pr \in [ProcId -> ProcRecord],
           CheckJob(j, pr)
    PROVE  /\ Checked(j, pr)
           /\ job' \in [JobId -> JobRecord]
           /\ job_list' \in Seq(JobId) /\ NoRepeats(job_list')
           /\ nzombie' \in Int /\ ierr' \in BOOLEAN
           /\ LastInv'
<1> DEFINE state == JobState(j, pr)
           flags == job[j].flags
           front == IF monitor /\ "XXCOM" \notin flags /\ state = "stopped"
                    THEN OnFront(job_list, j) ELSE job_list
           status == pr[job[j].last].status
           done == [job EXCEPT ![j].state = state, ![j].status = status]
           zombie == [done EXCEPT ![j].num = -1,
                                  ![j].flags = @ \union {"ZOMBIE"}]
           over == /\ "STARTED" \in flags
                   /\ \A p \in Procs(j) : pr[p].state # "running"
<1>1. /\ j \in JobId /\ job \in [JobId -> JobRecord] /\ job[j] \in JobRecord
      /\ job[j].last \in ProcId
      /\ job_list \in Seq(JobId) /\ NoRepeats(job_list) /\ nzombie \in Int
      /\ ierr \in BOOLEAN
  BY ListedLemma DEF IInv, TypeOK, JobInv
<1>2. front \in Seq(JobId) /\ NoRepeats(front) /\ Jobs(front) = Listed
  <2>1. /\ OnFront(job_list, j) \in Seq(JobId) /\ NoRepeats(OnFront(job_list, j))
        /\ Jobs(OnFront(job_list, j)) = Listed \union {j}
    BY <1>1, OnFrontLemma DEF Listed
  <2> QED BY <1>1, <2>1 DEF Listed
<1>3. state \in State /\ status \in Nat
  BY <1>1 DEF JobState, State, ProcRecord
<1>4. \/ /\ UNCHANGED <<job, listvars>> /\ ierr' = TRUE
         /\ "STARTED" \notin flags
      \/ /\ KeepList(job_list) /\ UNCHANGED job
         /\ \E p \in Procs(j) : pr[p].state = "running"
      \/ /\ over
         /\ \/ /\ RemoveJob(front, job, j) /\ job' = done
               /\ "WAITING" \notin flags /\ Forgotten(j)
            \/ /\ job' = zombie /\ nzombie' = nzombie + 1 /\ Unwatched(j, pr)
               /\ UNCHANGED <<job_list, last_job, async_job, ierr>>
            \/ KeepList(front) /\ job' = done /\ ~Unwatched(j, pr)
  BY DEF CheckJob, Notified, Watched, Unwatched, Forgotten
<1> DEFINE d == [[job[j] EXCEPT !.state = state] EXCEPT !.status = status]
           n == [d EXCEPT !.num = -1]
           z == [n EXCEPT !.flags = flags \union {"ZOMBIE"}]
           same(x) == /\ x \in JobRecord /\ x.state = state /\ x.status = status
                      /\ x.own = job[j].own /\ x.pgrp = job[j].pgrp
                      /\ x.last = job[j].last
<1> HIDE DEF front, state, status, over
<1>5. same(d) /\ d.flags = job[j].flags /\ d.num = job[j].num
  BY <1>1, <1>3 DEF JobRecord
<1>6. done = [job EXCEPT ![j] = d]
  BY <1>1
<1> HIDE DEF d, done
<1>7. same(z) /\ z.num = -1 /\ z.flags = job[j].flags \union {"ZOMBIE"}
  <2>1. flags \union {"ZOMBIE"} \in SUBSET JobFlag
    BY <1>1 DEF JobRecord, JobFlag
  <2>2. same(n) /\ n.num = -1
    BY <1>5 DEF JobRecord
  <2> HIDE DEF n
  <2> QED BY <2>1, <2>2 DEF JobRecord
<1>8. zombie = [job EXCEPT ![j] = z]
  BY <1>1, <1>5, <1>6
<1> HIDE DEF n, z, zombie
<1>9. CASE /\ UNCHANGED <<job, job_list, last_job, async_job, nzombie>>
           /\ ierr' \in BOOLEAN
           /\ "STARTED" \in flags => /\ \E p \in Procs(j) : pr[p].state = "running"
                                      /\ ierr' = ierr
  BY <1>1, <1>9 DEF Listed, IInv, LastInv, Checked
<1>10. CASE /\ RemoveJob(front, job, j) /\ job' = done /\ "WAITING" \notin flags
            /\ Forgotten(j) /\ over
  <2>1. /\ Removed(job, j)
        /\ job_list' \in Seq(JobId) /\ NoRepeats(job_list')
        /\ nzombie' \in Int /\ ierr' = ierr
        /\ LastInv'
    BY <1>2, <1>10, RemoveLemma DEF IInv
  <2>2. Closed(j, pr, job[j].num, job[j].flags) /\ job' \in [JobId -> JobRecord]
    BY <1>1, <1>5, <1>6, <1>10 DEF Closed, state, status
  <2>3. Checked(j, pr)
    BY <1>10, <2>1, <2>2 DEF Checked, over
  <2> QED BY <1>1, <2>1, <2>2, <2>3
<1>11. CASE /\ over /\ Unwatched(j, pr)
            /\ job' = zombie /\ nzombie' = nzombie + 1
            /\ UNCHANGED <<job_list, last_job, async_job, ierr>>
  <2>1. Listed' = Listed
    BY <1>11 DEF Listed
  <2>2. /\ Closed(j, pr, -1, job[j].flags \union {"ZOMBIE"})
        /\ job' \in [JobId -> JobRecord]
    BY <1>1, <1>7, <1>8, <1>11 DEF Closed, state, status
  <2>3. Checked(j, pr)
    BY <1>11, <2>1, <2>2 DEF Checked, over
  <2> QED BY <1>1, <1>11, <2>1, <2>2, <2>3 DEF IInv, LastInv
<1>12. CASE KeepList(front) /\ job' = done /\ over /\ ~Unwatched(j, pr)
  <2>1. Listed' = Listed /\ UNCHANGED <<last_job, async_job, nzombie, ierr>>
        /\ job_list' = front
    BY <1>2, <1>12 DEF KeepList, Listed
  <2>2. Closed(j, pr, job[j].num, job[j].flags) /\ job' \in [JobId -> JobRecord]
    BY <1>1, <1>5, <1>6, <1>12 DEF Closed, state, status
  <2>3. Checked(j, pr)
    BY <1>12, <2>1, <2>2 DEF Checked, over
  <2> QED BY <1>1, <1>2, <2>1, <2>2, <2>3 DEF IInv, LastInv
<1>13. UNCHANGED <<job, listvars>> => UNCHANGED <<job, job_list, last_job, async_job, nzombie>>
  BY DEF listvars
<1>14. KeepList(job_list) => UNCHANGED <<job_list, last_job, async_job, nzombie, ierr>>
  BY DEF KeepList
<1> QED BY <1>1, <1>4, <1>9, <1>10, <1>11, <1>12, <1>13, <1>14

(* A job waited for is marked so, and the handler does not free it.        *)
Reaps(c) ==
    /\ news' = news \ {c}
    /\ \/ /\ \A j \in Listed : \A p \in Procs(j) : pid[p] # pid[c]
          /\ KeepList(job_list) /\ Listed' = Listed
          /\ UNCHANGED <<job, proc>>
       \/ \E j \in Listed, p \in ProcId :
            /\ owner[p] = j /\ pid[p] = pid[c]
            /\ proc' = [proc EXCEPT ![p] = Reported(c)]
            /\ Checked(j, proc')

(* One turn of the waitpid() loop.                                         *)
LEMMA ReapedLemma ==
    ASSUME IInv, Reap
    PROVE  /\ \E c \in news : Reaps(c)
           /\ job' \in [JobId -> JobRecord] /\ proc' \in [ProcId -> ProcRecord]
           /\ job_list' \in Seq(JobId) /\ NoRepeats(job_list')
           /\ nzombie' \in Int /\ ierr' \in BOOLEAN
           /\ LastInv'
<1>1. Listed \subseteq JobId /\ news \subseteq ProcId
  BY ListedLemma DEF IInv, TypeOK
<1>2. PICK c \in news :
        /\ news' = news \ {c}
        /\ \/ /\ Holders(pid[c]) = {}
              /\ KeepList(job_list)
              /\ UNCHANGED <<job, proc>>
           \/ \E i \in DOMAIN job_list, p \in ProcId :
                /\ owner[p] = job_list[i] /\ pid[p] = pid[c]
                /\ proc' = [proc EXCEPT ![p] = Reported(c)]
                /\ CheckJob(job_list[i], proc')
  BY DEF Reap, Holders, Procs
<1>3. CASE Holders(pid[c]) = {} /\ KeepList(job_list) /\ UNCHANGED <<job, proc>>
  <2>1. UNCHANGED <<job_list, last_job, async_job, nzombie, ierr>>
    BY <1>3 DEF KeepList
  <2>2. Reaps(c)
    <3>1. Listed' = Listed
      BY <2>1 DEF Listed
    <3> QED BY <1>2, <1>3, <3>1 DEF Reaps, Holders, Listed, Jobs
  <2>3. LastInv'
    BY <2>1 DEF IInv, LastInv, Listed
  <2> QED BY <1>3, <2>1, <2>2, <2>3 DEF IInv, TypeOK
<1>4. ASSUME NEW i \in DOMAIN job_list, NEW p \in ProcId,
             owner[p] = job_list[i], pid[p] = pid[c],
             proc' = [proc EXCEPT ![p] = Reported(c)],
             CheckJob(job_list[i], proc')
      PROVE  /\ Reaps(c)
             /\ job' \in [JobId -> JobRecord] /\ proc' \in [ProcId -> ProcRecord]
             /\ job_list' \in Seq(JobId) /\ NoRepeats(job_list')
             /\ nzombie' \in Int /\ ierr' \in BOOLEAN
             /\ LastInv'
  <2>1. job_list[i] \in Listed
    BY ListedLemma DEF IInv
  <2>2. proc' \in [ProcId -> ProcRecord]
    <3>1. Reported(c) \in ProcRecord
      BY <1>1, BoundsAssumption DEF Reported, ProcRecord, State, ProcId
    <3> QED BY <1>4, <3>1 DEF IInv, TypeOK
  <2> DEFINE j == job_list[i]
  <2>3. CheckJob(j, proc') /\ owner[p] = j /\ j \in Listed
    BY <1>4, <2>1
  <2> HIDE DEF j
  <2>4. /\ Checked(j, proc')
        /\ job' \in [JobId -> JobRecord]
        /\ job_list' \in Seq(JobId) /\ NoRepeats(job_list')
        /\ nzombie' \in Int /\ ierr' \in BOOLEAN
        /\ LastInv'
    BY <2>2, <2>3, CheckJobLemma
  <2>5. Reaps(c)
    BY <1>2, <1>4, <2>3, <2>4 DEF Reaps
  <2> QED BY <2>2, <2>4, <2>5
<1> QED BY <1>2, <1>3, <1>4

(* The waitpid() loop keeps the invariant.                                 *)
LEMMA ReapLemma == ASSUME IInv, Reap PROVE IInv'
<1>1. /\ UNCHANGED <<held_sigchld, procvars, kern, sigchld, hnd, pend, pc, wj,
                     cont, ttypgrp, monitor, insub, really_exit>>
      /\ pc \in {"ready", "reading", "more", "all", "exiting", "susp"}
  BY DEF Reap, waitvars, modevars, IInv, HandlerInv, TypeOK
<1>2. PICK c \in news : Reaps(c)
  BY ReapedLemma
<1>3. /\ job' \in [JobId -> JobRecord] /\ proc' \in [ProcId -> ProcRecord]
      /\ job_list' \in Seq(JobId) /\ NoRepeats(job_list')
      /\ nzombie' \in Int /\ ierr' \in BOOLEAN
      /\ LastInv'
  BY ReapedLemma
<1>4. /\ Listed' \subseteq Listed
      /\ \A k \in Listed : /\ job'[k].last = job[k].last
                           /\ "WAITING" \in job[k].flags => "WAITING" \in job'[k].flags
                           /\ "ZOMBIE" \in job'[k].flags =>
                                  "STARTED" \in job'[k].flags
      /\ \A k \in Listed \ Listed' : "WAITING" \notin job[k].flags
      /\ last_job' \in {last_job, None} /\ async_job' \in {async_job, None}
  <2>1. CASE UNCHANGED job /\ KeepList(job_list) /\ Listed' = Listed
    BY <2>1 DEF KeepList, IInv, JobInv
  <2>2. ASSUME NEW j \in Listed, Checked(j, proc') PROVE <1>4
    BY <2>2, ListedLemma DEF Checked, Closed, Removed, IInv, JobInv
  <2> QED BY <1>2, <2>1, <2>2 DEF Reaps
<1>5. JobInv'
  <2>1. \A k \in Listed : /\ k <= njobs /\ job'[k].last \in ProcId
                          /\ "ZOMBIE" \in job'[k].flags =>
                                "STARTED" \in job'[k].flags
    BY <1>4 DEF IInv, JobInv
  <2>2. \A k \in Listed' : k \in Listed
    BY <1>4
  <2> QED BY <1>1, <2>1, <2>2 DEF JobInv, procvars
<1>6. WaitInv'
  <2>1. pc = "susp" => wj \in Listed /\ "WAITING" \in job[wj].flags
    BY DEF IInv, WaitInv
  <2>2. pc = "susp" => wj \in Listed' /\ "WAITING" \in job'[wj].flags
    BY <1>4, <2>1
  <2>3. wj # None <=> pc \in {"setasync", "trim", "wenter", "susp", "woke"}
    BY DEF IInv, WaitInv
  <2> QED BY <1>1, <2>2, <2>3 DEF WaitInv
<1>7. TypeOK'
  <2>1. news' \subseteq ProcId
    BY <1>2 DEF Reaps, IInv, TypeOK
  <2> QED BY <1>1, <1>3, <1>4, <2>1 DEF IInv, TypeOK, procvars
<1>8. StartInv' /\ HandlerInv'
  BY <1>1 DEF StartInv, HandlerInv
<1> QED BY <1>3, <1>5, <1>6, <1>7, <1>8 DEF IInv

-----------------------------------------------------------------------------
(* The invariant holds when the shell starts.                              *)
LEMMA InitLemma == Init => IInv
<1> SUFFICES ASSUME Init PROVE IInv
  OBVIOUS
<1>1. Listed = {} /\ NoRepeats(job_list) /\ job_list \in Seq(JobId)
  BY DEF Init, Listed, Jobs, NoRepeats
<1>2. job \in [JobId -> JobRecord] /\ proc \in [ProcId -> ProcRecord]
  BY DEF Init, NoJob, NoProc, JobRecord, ProcRecord, State
<1>3. /\ njobs \in 0..MaxJobs /\ nprocs \in 0..MaxProcs
      /\ pc \in ControlPoint /\ cont \in Caller /\ kern \in [ProcId -> KernState]
      /\ owner \in [ProcId -> JobId \union {None}]
      /\ pid \in [ProcId -> Pid \union {0}]
  BY BoundsAssumption DEF Init, ControlPoint, Unblocked, Caller, KernState
<1>4. TypeOK
  <2>0. /\ last_job = None /\ async_job = None /\ wj = None /\ nzombie = 0
        /\ held_sigchld = FALSE /\ sigchld = FALSE /\ hnd = FALSE
        /\ news = {} /\ pend = "none" /\ ttypgrp = ShellPgrp
    BY DEF Init
  <2>1. /\ last_job \in JobId \union {None} /\ async_job \in JobId \union {None}
        /\ wj \in JobId \union {None} /\ news \subseteq ProcId
        /\ pend \in {"none", "trap", "fatal"}
        /\ ttypgrp \in Pid \union {ShellPgrp}
    BY <2>0, Zenon
  <2>3. held_sigchld \in BOOLEAN /\ sigchld \in BOOLEAN /\ hnd \in BOOLEAN
    BY <2>0, Zenon
  <2>4. nzombie \in Int
    BY <2>0
  <2>2. /\ monitor \in BOOLEAN /\ insub \in BOOLEAN /\ really_exit \in BOOLEAN
        /\ ierr \in BOOLEAN
    BY FlagsAssumption DEF Init
  <2> QED BY <1>1, <1>2, <1>3, <2>1, <2>2, <2>3, <2>4 DEF TypeOK
<1>5. LastInv /\ JobInv /\ StartInv /\ HandlerInv /\ WaitInv
  BY <1>1 DEF Init, LastInv, JobInv, StartInv, HandlerInv,
              WaitInv
<1> QED BY <1>4, <1>5 DEF IInv

(* No step breaks the invariant, whatever the environment does.            *)
LEMMA StepLemma ==
    ASSUME IInv, [Next]_vars
    PROVE  IInv'
<1>1. CASE Handler
  BY <1>1, HandlerHoldsLemma, HandlerStartsLemma, ReapLemma, HandlerReturnsLemma
     DEF Handler
<1>2. CASE Continue
  BY <1>2, ExchildNextLemma, LastProcessLemma, StartlastLemma, SetAsyncLemma,
     TrimZombiesLemma, WaitForAnyLemma, WaitForOperandLemma, SigsuspendLemma,
     WokenLemma, WaitjReturnsLemma, RemoveMarkedLemma, MarkedRemovedLemma,
     RuntrapsLemma, J_exitLemma, J_exitNotifyLemma DEF Continue
<1>3. CASE Command
  BY <1>3, ExchildFirstLemma, WaitCommandLemma, J_resumeLemma, J_asyncLemma,
     J_jobsLemma, J_notifyLemma, SetMonitorLemma, SubshellLemma, ExitLemma
     DEF Command
<1>4. CASE Failure
  BY <1>4, ForkFailsFirstLemma, ForkFailsNextLemma, OpenpipeFailsLemma DEF Failure
<1>5. CASE Waitlast
  BY <1>5, WaitlastLemma
<1>6. CASE Child
  BY <1>6, ChildLemma
<1>7. CASE Signal
  BY <1>7, SignalLemma
<1>8. CASE UNCHANGED vars
  <2>1. UNCHANGED <<job_list, job, last_job, njobs, wj, hnd, pc>>
    BY <1>8 DEF vars
  <2>2. Listed' = Listed /\ LastInv' /\ JobInv'
    BY <2>1, QuietLemma, Zenon
  <2>3. TypeOK'
    BY <1>8 DEF vars, IInv, TypeOK
  <2> QED BY <2>1, <2>2, <2>3 DEF IInv, StartInv, HandlerInv, WaitInv
<1> QED BY <1>1, <1>2, <1>3, <1>4, <1>5, <1>6, <1>7, <1>8 DEF Next, Gone

(* The inductive invariant of job control: see IInv.                       *)
THEOREM Invariance == Spec => []IInv
<1>1. IInv /\ [Next]_vars => IInv'
  BY StepLemma
<1> QED BY <1>1, InitLemma, PTL DEF Spec

(* The data of jobs.c keeps its types.                                     *)
THEOREM TypeCorrect == Spec => []TypeOK
<1>1. IInv => TypeOK
  BY DEF IInv
<1> QED BY <1>1, Invariance, PTL

(* A handler that holds SIGCHLD back records it, j_startjob() sends a held *)
(* one again, and the waitpid() loop leaves nothing to report behind: the  *)
(* claim is inductive by itself.                                           *)
LEMMA NoLostStep == ASSUME NoLostSigchld, [Next]_vars PROVE NoLostSigchld'
<1> USE DEF NoLostSigchld
<1>1. CASE Handler
  BY <1>1 DEF Handler, HandlerHolds, HandlerStarts, Reap, HandlerReturns,
              AllReaped, kernvars
<1>2. CASE Continue
  <2>1. CASE ExchildNext
    BY <2>1 DEF ExchildNext, Fork
  <2>2. CASE LastProcess
    BY <2>2 DEF LastProcess, StartJob, kernvars
  <2>3. CASE Startlast
    BY <2>3 DEF Startlast, StartJob, kernvars
  <2>4. CASE J_exit
    BY <2>4 DEF J_exit
  <2>5. CASE \/ SetAsync \/ TrimZombies \/ WaitForAny \/ WaitForOperand
             \/ Sigsuspend \/ Woken \/ WaitjReturns \/ RemoveMarked
             \/ MarkedRemoved \/ Runtraps \/ J_exitNotify
    BY <2>5 DEF SetAsync, TrimZombies, WaitForAny, WaitForOperand, Sigsuspend,
                Woken, WaitjReturns, RemoveMarked, MarkedRemoved, Runtraps,
                J_exitNotify, kernvars
  <2> QED BY <1>2, <2>1, <2>2, <2>3, <2>4, <2>5 DEF Continue
<1>3. CASE Command
  <2>1. CASE ExchildFirst
    BY <2>1 DEF ExchildFirst, Fork
  <2>2. CASE J_resume
    BY <2>2 DEF J_resume
  <2>3. CASE Subshell
    BY <2>3 DEF Subshell
  <2>4. CASE \/ WaitCommand \/ J_async \/ J_jobs \/ J_notify \/ SetMonitor
             \/ Exit
    BY <2>4 DEF WaitCommand, J_async, J_jobs, J_notify, SetMonitor, Exit,
                kernvars
  <2> QED BY <1>3, <2>1, <2>2, <2>3, <2>4 DEF Command
<1>4. CASE Failure
  BY <1>4 DEF Failure, ForkFailsFirst, ForkFailsNext, OpenpipeFails, kernvars
<1>5. CASE Waitlast
  BY <1>5 DEF Waitlast, kernvars
<1>6. CASE Child
  BY <1>6 DEF Child, ChildDies, ChildStops, ChildContinues, Changed
<1>7. CASE Signal
  BY <1>7 DEF Signal, kernvars
<1>8. CASE UNCHANGED vars
  BY <1>8 DEF vars
<1> QED BY <1>1, <1>2, <1>3, <1>4, <1>5, <1>6, <1>7, <1>8 DEF Next, Gone

(* No wake-up is lost: whenever a child has something to report, SIGCHLD   *)
(* is pending, being handled, or held back.                                *)
THEOREM NeverLost == Spec => []NoLostSigchld
<1>1. Init => NoLostSigchld
  BY DEF Init, NoLostSigchld
<1> QED BY <1>1, NoLostStep, PTL DEF Spec
=============================================================================
