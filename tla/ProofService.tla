---------------------------- MODULE ProofService ----------------------------
(***************************************************************************)
(* The proof endpoints of packages/backend/main.py, the Celery task of     *)
(* packages/backend/proof.py, and two of their clients: the voting page    *)
(* (vote.tsx), which asks for two proofs at once and polls for them, and   *)
(* the eligibility page (eligibility.tsx), which asks for one and waits on *)
(* a WebSocket (ProgressOverlay.tsx).                                      *)
(*                                                                         *)
(* The API is one asyncio process: its handlers run to their next await,   *)
(* and post_proof_generic has one, for the body of the request.  A task    *)
(* runs in a child of the worker's pool, or, with CELERY_TASK_ALWAYS_EAGER *)
(* set, inside `delay' in the API.  Every process has a PROOF_CACHE of its *)
(* own.                                                                    *)
(*                                                                         *)
(* Circuits and curves are left out: no client sends X-Curve.  Inputs tell *)
(* apart what the cache key tells apart: those of a voice proof hold the   *)
(* time of the request and no two are equal; those of an eligibility proof *)
(* are a constant of vote.tsx, and the eligibility page is taken to be     *)
(* filled in with it, the case in which the cache matters.  Celery keeps   *)
(* results for a day; that they expire is left out.                        *)
(***************************************************************************)
EXTENDS Naturals, Sequences, FiniteSets

CONSTANTS
  Voters,     \* open voting pages
  Pages,      \* open eligibility pages
  Users,
  UserOf,     \* client -> the user logged in
  Workers,    \* processes of the worker's pool
  Api,        \* the API's process
  Modes,      \* values CELERY_TASK_ALWAYS_EAGER may have
  Quota,      \* PROOF_QUOTA, 25 by default
  MaxPolls,   \* maxAttempts of pollForResult, 30
  MaxJobs,    \* bound: jobs; no page starts a request that might exceed it
  MaxDay,     \* bound: days
  MaxFaults   \* bound: failing calls, restarts, kills

Clients == Voters \union Pages

ASSUME ServiceAssumption ==
  /\ UserOf \in [Clients -> Users]
  /\ Api \notin Workers
  /\ Modes \subseteq BOOLEAN
  /\ Quota \in Nat
  /\ MaxPolls \in Nat \ {0}
  /\ MaxJobs \in Nat
  /\ MaxDay \in Nat \ {0}
  /\ MaxFaults \in Nat

Days == 1 .. MaxDay

\* A leg is one request of a client: what it posts, and what it then waits for.
Legs == (Voters \X {"voice", "eligibility"}) \union (Pages \X {"eligibility"})
LegsOf(c) == {leg \in Legs : leg[1] = c}

VARIABLES
  eager,     \* the mode of this deployment
  day,       \* the UTC day
  used,      \* proof_requests.count of a user and day
  jobs,      \* jobs in the order of their submission; a job id is an index
  queue,     \* ids in the broker
  pool,      \* the worker container is running
  working,   \* worker -> what it does: its job and how far it is
  cache,     \* process -> inputs its PROOF_CACHE has a proof of
  audit,     \* jobs with a row in proof_audit
  legs,      \* leg -> state of the request, the job id it got, polls made
  faults

serverVars == <<used, jobs, queue, cache, audit>>
vars == <<eager, day, serverVars, pool, working, legs, faults>>

NoJob == 0     \* also the client's `undefined'
JobIds == 1 .. Len(jobs)

Job == [user : Users, day : Days, inputs : {"voice", "eligibility"},
        state : {"PENDING", "SUCCESS", "FAILURE"}]

\* sent, body     the POST is on its way; its quota is charged, its body awaited
\* accepted       answered with a job id, or with a cached proof and no id
\* quota, refused answered with 429; with another error, or not at all
\* poll, stream   waiting for the job
\* got, lost      has the proof; has given up
\* stuck          the page shows its spinner and waits for nothing
Leg == [pc : {"idle", "sent", "body", "accepted", "quota", "refused",
              "poll", "stream", "got", "lost", "stuck"},
        day : Days, job : 0 .. MaxJobs, polls : 0 .. MaxPolls]

Idle == [pc |-> "idle", day |-> 1, job |-> NoJob, polls |-> 0]

\* A request that waits for nothing any more: its day and its job are forgotten.
Over(pc) == [Idle EXCEPT !.pc = pc]

Resting == [job |-> NoJob, step |-> "rest"]

Init ==
  /\ eager \in Modes
  /\ day = 1
  /\ used = [u \in Users |-> [d \in Days |-> 0]]
  /\ jobs = <<>> /\ queue = <<>>
  /\ pool = TRUE
  /\ working = [w \in Workers |-> Resting]
  /\ cache = [p \in Workers \union {Api} |-> {}]
  /\ audit = {}
  /\ legs = [leg \in Legs |-> Idle]
  /\ faults = 0

Midnight ==
  /\ day < MaxDay
  /\ day' = day + 1
  /\ UNCHANGED <<eager, serverVars, pool, working, legs, faults>>

Fault == faults < MaxFaults /\ faults' = faults + 1

-----------------------------------------------------------------------------
(* post_proof_generic *)

Owner(leg) == UserOf[leg[1]]

\* Mutant: the WHERE clause of the upsert is missing.
ChargeAlways(leg) ==
  /\ legs[leg].pc = "sent"
  /\ used' = [used EXCEPT ![Owner(leg)][day] = @ + 1]
  /\ legs' = [legs EXCEPT ![leg].pc = "body", ![leg].day = day]
  /\ UNCHANGED <<eager, day, jobs, queue, cache, audit, pool, working, faults>>

\* increment_quota: one statement of the database.  The first request of a day
\* is an INSERT without a condition.
Allowed(u) == used[u][day] = 0 \/ used[u][day] < Quota

Charge(leg) ==
  /\ legs[leg].pc = "sent"
  /\ IF Allowed(Owner(leg))
     THEN /\ used' = [used EXCEPT ![Owner(leg)][day] = @ + 1]
          /\ legs' = [legs EXCEPT ![leg].pc = "body", ![leg].day = day]
     ELSE /\ legs' = [legs EXCEPT ![leg].pc = "quota"]
          /\ UNCHANGED used
  /\ UNCHANGED <<eager, day, jobs, queue, cache, audit, pool, working, faults>>

\* The rest of the handler, after the await, does not await.
CacheHit(leg) == leg[2] = "eligibility" /\ leg[2] \in cache[Api]

NewJob(leg, state) ==
  [user |-> Owner(leg), day |-> legs[leg].day, inputs |-> leg[2], state |-> state]

Accept(leg, id) == legs' = [legs EXCEPT ![leg] = [Idle EXCEPT !.pc = "accepted", !.job = id]]

AnswerFromCache(leg) ==
  /\ legs[leg].pc = "body"
  /\ CacheHit(leg)
  /\ Accept(leg, NoJob)
  /\ UNCHANGED <<eager, day, serverVars, pool, working, faults>>

\* generate_proof.delay, to the broker
Enqueue(leg) ==
  /\ legs[leg].pc = "body"
  /\ ~ eager /\ ~ CacheHit(leg)
  /\ jobs' = Append(jobs, NewJob(leg, "PENDING"))
  /\ queue' = Append(queue, Len(jobs'))
  /\ Accept(leg, Len(jobs'))
  /\ UNCHANGED <<eager, day, used, cache, audit, pool, working, faults>>

\* generate_proof.delay, in place
RunInPlace(leg) ==
  /\ legs[leg].pc = "body"
  /\ eager /\ ~ CacheHit(leg)
  /\ jobs' = Append(jobs, NewJob(leg, "SUCCESS"))
  /\ cache' = [cache EXCEPT ![Api] = @ \union {leg[2]}]
  /\ audit' = audit \union {Len(jobs')}
  /\ Accept(leg, Len(jobs'))
  /\ UNCHANGED <<eager, day, used, queue, pool, working, faults>>

\* The database fails the task, before or after the result is cached; the
\* handler answers with the id of the failed job.
RunInPlaceFails(leg) ==
  /\ legs[leg].pc = "body"
  /\ eager /\ ~ CacheHit(leg) /\ Fault
  /\ jobs' = Append(jobs, NewJob(leg, "FAILURE"))
  /\ \/ UNCHANGED <<cache, audit>>
     \/ /\ cache' = [cache EXCEPT ![Api] = @ \union {leg[2]}]
        /\ audit' \in {audit, audit \union {Len(jobs')}}
  /\ Accept(leg, Len(jobs'))
  /\ UNCHANGED <<eager, day, used, queue, pool, working>>

\* An expired token, a failing database or broker: an error other than 429,
\* before or after the quota is charged.
PostFails(leg) ==
  /\ legs[leg].pc \in {"sent", "body"}
  /\ Fault
  /\ \/ UNCHANGED used
     \/ /\ legs[leg].pc = "sent" /\ Allowed(Owner(leg))
        /\ used' = [used EXCEPT ![Owner(leg)][day] = @ + 1]
  /\ legs' = [legs EXCEPT ![leg] = Over("refused")]
  /\ UNCHANGED <<eager, day, jobs, queue, cache, audit, pool, working>>

Handler(leg) == Charge(leg) \/ AnswerFromCache(leg) \/ Enqueue(leg) \/ RunInPlace(leg)

HandlerFails(leg) == PostFails(leg) \/ RunInPlaceFails(leg)

-----------------------------------------------------------------------------
(* get_proof_generic, ws_proofs *)

State(id) == IF id = NoJob THEN "PENDING" ELSE jobs[id].state

\* What a client has after one GET.
Fetched(leg) == IF State(legs[leg].job) = "SUCCESS" THEN "got" ELSE "lost"

\* Mutant: a poll that found nothing is not counted.
PollForEver(leg) ==
  /\ legs[leg].pc = "poll"
  /\ State(legs[leg].job) = "SUCCESS"
  /\ legs' = [legs EXCEPT ![leg] = Over("got")]
  /\ UNCHANGED <<eager, day, serverVars, pool, working, faults>>

\* Mutant: polls are compared with the limit before they are counted.
PollOnceMore(leg) ==
  /\ legs[leg].pc = "poll"
  /\ IF State(legs[leg].job) = "SUCCESS"
     THEN legs' = [legs EXCEPT ![leg] = Over("got")]
     ELSE legs' = [legs EXCEPT ![leg].polls = @ + 1,
                     ![leg].pc = IF legs[leg].polls = MaxPolls THEN "lost" ELSE "poll"]
  /\ UNCHANGED <<eager, day, serverVars, pool, working, faults>>

\* pollForResult: a failed job looks like one that is not ready.
Poll(leg) ==
  /\ legs[leg].pc = "poll"
  /\ IF State(legs[leg].job) = "SUCCESS"
     THEN legs' = [legs EXCEPT ![leg] = Over("got")]
     ELSE legs' = [legs EXCEPT ![leg] = IF @.polls + 1 = MaxPolls THEN Over("lost")
                                        ELSE [@ EXCEPT !.polls = legs[leg].polls + 1]]
  /\ UNCHANGED <<eager, day, serverVars, pool, working, faults>>

\* The socket says `done' or `error' and the page fetches the result.
StreamEnds(leg) ==
  /\ legs[leg].pc = "stream"
  /\ State(legs[leg].job) # "PENDING"
  /\ legs' = [legs EXCEPT ![leg] = Over(Fetched(leg))]
  /\ UNCHANGED <<eager, day, serverVars, pool, working, faults>>

\* A GET fails, or the socket closes: the network, or the page is rendered again
\* (its form can be edited meanwhile) and the effect's cleanup closes it.  onclose
\* counts as done: the page fetches a result that may not be there, and nothing
\* catches a failing fetch.
Broken(leg) == IF legs[leg].pc = "poll" THEN {"lost"} ELSE {Fetched(leg), "stuck"}

ConnectionFails(leg) ==
  /\ legs[leg].pc \in {"poll", "stream"}
  /\ Fault
  /\ \E pc \in Broken(leg) : legs' = [legs EXCEPT ![leg] = Over(pc)]
  /\ UNCHANGED <<eager, day, serverVars, pool, working>>

\* uvicorn --reload, or a crash: handlers and sockets are cut, and some pages
\* fetch before the API is up again.
ApiRestart ==
  /\ Fault
  /\ cache' = [cache EXCEPT ![Api] = {}]
  /\ \E failed \in SUBSET Legs :
       legs' = [leg \in Legs |->
         CASE legs[leg].pc \in {"sent", "body"} -> Over("refused")
           [] legs[leg].pc = "stream" ->
                Over(IF leg \in failed THEN "stuck" ELSE Fetched(leg))
           [] OTHER -> legs[leg]]
  /\ UNCHANGED <<eager, day, used, jobs, queue, audit, pool, working>>

-----------------------------------------------------------------------------
(* The clients. *)

Room(n) ==
  Len(jobs) + Cardinality({leg \in Legs : legs[leg].pc \in {"sent", "body"}}) + n <= MaxJobs

\* vote.tsx, cast: both requests are posted at once.
Cast(v) ==
  /\ \A leg \in LegsOf(v) : legs[leg].pc = "idle"
  /\ Room(2)
  /\ legs' = [leg \in Legs |-> IF leg \in LegsOf(v) THEN [Idle EXCEPT !.pc = "sent"]
                                                    ELSE legs[leg]]
  /\ UNCHANGED <<eager, day, serverVars, pool, working, faults>>

\* Both have been answered: one error is enough to give up both.
Proceed(v) ==
  /\ \A leg \in LegsOf(v) : legs[leg].pc \in {"accepted", "quota", "refused"}
  /\ LET accepted == \A leg \in LegsOf(v) : legs[leg].pc = "accepted" IN
       legs' = [leg \in Legs |->
                  IF leg \notin LegsOf(v) THEN legs[leg]
                  ELSE IF accepted THEN [legs[leg] EXCEPT !.pc = "poll"] ELSE Idle]
  /\ UNCHANGED <<eager, day, serverVars, pool, working, faults>>

\* With both proofs the operation is sent; a poll that gives up ends both.
CastEnds(v) ==
  /\ \/ \A leg \in LegsOf(v) : legs[leg].pc = "got"
     \/ \E leg \in LegsOf(v) : legs[leg].pc = "lost"
  /\ legs' = [leg \in Legs |-> IF leg \in LegsOf(v) THEN Idle ELSE legs[leg]]
  /\ UNCHANGED <<eager, day, serverVars, pool, working, faults>>

\* eligibility.tsx, submit: only 429 is told apart from an answer with a job id,
\* and without an id no overlay is shown that could end the loading state.
Submit(leg) ==
  legs[leg].pc = "idle" /\ Room(1) /\ legs' = [legs EXCEPT ![leg] = [Idle EXCEPT !.pc = "sent"]]

Answered(leg) ==
  \/ /\ legs[leg].pc = "accepted" /\ legs[leg].job # NoJob
     /\ legs' = [legs EXCEPT ![leg].pc = "stream"]
  \/ /\ legs[leg].pc = "refused" \/ (legs[leg].pc = "accepted" /\ legs[leg].job = NoJob)
     /\ legs' = [legs EXCEPT ![leg] = Over("stuck")]
  \/ /\ legs[leg].pc \in {"quota", "got", "lost"}
     /\ legs' = [legs EXCEPT ![leg] = Idle]

\* The user reloads the page.
Reload(leg) == legs[leg].pc = "stuck" /\ legs' = [legs EXCEPT ![leg] = Idle]

PageStarts(p) == /\ \E leg \in LegsOf(p) : Submit(leg) \/ Reload(leg)
                 /\ UNCHANGED <<eager, day, serverVars, pool, working, faults>>

PageGoesOn(p) == /\ \E leg \in LegsOf(p) : Answered(leg)
                 /\ UNCHANGED <<eager, day, serverVars, pool, working, faults>>

-----------------------------------------------------------------------------
(* generate_proof in the worker. *)

Take(w) ==
  /\ pool /\ queue # <<>>
  /\ working[w] = Resting
  /\ working' = [working EXCEPT ![w] = [job |-> Head(queue), step |-> "prove"]]
  /\ queue' = Tail(queue)
  /\ UNCHANGED <<eager, day, used, jobs, cache, audit, pool, legs, faults>>

\* snarkjs, or _dummy_proof when it fails; the result goes to the cache.
Prove(w) ==
  /\ working[w].step = "prove"
  /\ working' = [working EXCEPT ![w].step = "audit"]
  /\ cache' = [cache EXCEPT ![w] = @ \union {jobs[working[w].job].inputs}]
  /\ UNCHANGED <<eager, day, used, jobs, queue, audit, pool, legs, faults>>

\* db.commit()
Audit(w) ==
  /\ working[w].step = "audit"
  /\ working' = [working EXCEPT ![w].step = "return"]
  /\ audit' = audit \union {working[w].job}
  /\ UNCHANGED <<eager, day, used, jobs, queue, cache, pool, legs, faults>>

\* Celery stores the end of the task.
Store(w, state) ==
  /\ working' = [working EXCEPT ![w] = Resting]
  /\ jobs' = [jobs EXCEPT ![working[w].job].state = state]
  /\ UNCHANGED <<eager, day, used, pool, legs>>

\* Mutant: the audit row is written by a task of its own, after the result.
ReturnUnaudited(w) ==
  /\ working[w].step \in {"audit", "return"}
  /\ Store(w, "SUCCESS")
  /\ UNCHANGED <<queue, cache, audit, faults>>

Return(w) ==
  /\ working[w].step = "return"
  /\ Store(w, "SUCCESS")
  /\ UNCHANGED <<queue, cache, audit, faults>>

\* A query raises; the row may have been committed all the same.
TaskFails(w) ==
  /\ working[w].step \in {"prove", "audit"}
  /\ Fault
  /\ Store(w, "FAILURE")
  /\ \/ UNCHANGED audit
     \/ working[w].step = "audit" /\ audit' = audit \union {working[w].job}
  /\ UNCHANGED <<queue, cache>>

\* Mutant: task_reject_on_worker_lost puts the job back into the queue.
WorkerKilledRequeues(w) ==
  /\ working[w] # Resting
  /\ Fault
  /\ Store(w, "FAILURE")
  /\ queue' = Append(queue, working[w].job)
  /\ cache' = [cache EXCEPT ![w] = {}]
  /\ UNCHANGED audit

\* Mutant: the parent only forks another child.
WorkerKilledForgets(w) ==
  /\ working[w] # Resting
  /\ Fault
  /\ Store(w, "PENDING")
  /\ cache' = [cache EXCEPT ![w] = {}]
  /\ UNCHANGED <<queue, audit>>

\* A child of the pool is killed: its parent stores a failure and forks another.
WorkerKilled(w) ==
  /\ working[w] # Resting
  /\ Fault
  /\ Store(w, "FAILURE")
  /\ cache' = [cache EXCEPT ![w] = {}]
  /\ UNCHANGED <<queue, audit>>

\* The container ends.  Its messages were acknowledged when they were taken.
PoolDown ==
  /\ pool /\ Fault
  /\ pool' = FALSE
  /\ working' = [w \in Workers |-> Resting]
  /\ cache' = [p \in DOMAIN cache |-> IF p = Api THEN cache[Api] ELSE {}]
  /\ UNCHANGED <<eager, day, used, jobs, queue, audit, legs>>

\* An operator starts it again: compose does not.
PoolUp ==
  /\ ~ pool
  /\ pool' = TRUE
  /\ UNCHANGED <<eager, day, serverVars, working, legs, faults>>

Work(w) == Take(w) \/ Prove(w) \/ Audit(w) \/ Return(w)

Next ==
  \/ Midnight \/ ApiRestart \/ PoolDown \/ PoolUp
  \/ \E leg \in Legs : \/ Handler(leg) \/ HandlerFails(leg)
                       \/ Poll(leg) \/ StreamEnds(leg) \/ ConnectionFails(leg)
  \/ \E v \in Voters : Cast(v) \/ Proceed(v) \/ CastEnds(v)
  \/ \E p \in Pages : PageStarts(p) \/ PageGoesOn(p)
  \/ \E w \in Workers : Work(w) \/ TaskFails(w) \/ WorkerKilled(w)

\* The API answers, timers fire, and each process of a running pool works.
Fairness ==
  /\ \A leg \in Legs : WF_vars(Handler(leg) \/ Poll(leg) \/ StreamEnds(leg))
  /\ \A v \in Voters : WF_vars(Proceed(v)) /\ WF_vars(CastEnds(v))
  /\ \A p \in Pages : WF_vars(PageGoesOn(p))
  /\ \A w \in Workers : WF_vars(Work(w))

Spec == Init /\ [][Next]_vars /\ Fairness

-----------------------------------------------------------------------------
(***************************************************************************)
(* Properties                                                              *)
(***************************************************************************)

\* Rows, jobs, caches and clients are what the code can make them.
TypeOK ==
  /\ eager \in BOOLEAN /\ pool \in BOOLEAN
  /\ day \in Days
  /\ used \in [Users -> [Days -> Nat]]
  /\ jobs \in Seq(Job) /\ Len(jobs) <= MaxJobs
  /\ queue \in Seq(JobIds)
  /\ working \in [Workers -> [job : 0 .. MaxJobs, step : {"rest", "prove", "audit", "return"}]]
  /\ cache \in [Workers \union {Api} -> SUBSET {"voice", "eligibility"}]
  /\ audit \subseteq JobIds
  /\ legs \in [Legs -> Leg]
  /\ faults \in 0 .. MaxFaults

\* No user has more proofs made in a day than the quota allows, and every job
\* was charged to the day of its request, whichever requests of several pages
\* are between the charge and the job, and whatever fails in between.  (A quota
\* of 0 lets one request through.)
JobsWithinQuota ==
  \A u \in Users, d \in Days :
    /\ used[u][d] <= Quota \/ used[u][d] = 1
    /\ Cardinality({id \in JobIds : jobs[id].user = u /\ jobs[id].day = d})
         + Cardinality({leg \in Legs : legs[leg].pc = "body" /\ Owner(leg) = u /\ legs[leg].day = d})
         <= used[u][d]

\* A client that is given a job's proof can look it up in proof_audit: the row
\* is committed before the result is stored, however the job's worker fails.
SucceededIsAudited ==
  \A id \in JobIds : jobs[id].state = "SUCCESS" => id \in audit

\* An answer about a job stays: no client is told `error' and another `done'.
AnswerStands ==
  [][\A id \in JobIds : jobs[id].state # "PENDING" => jobs'[id] = jobs[id]]_jobs

\* While the worker container stays up every job is answered in the end: failing
\* queries and killed children of the pool end in an answer too.  (A job that is
\* running when the container goes down is lost.)
JobsAreAnswered ==
  []pool => \A id \in 1 .. MaxJobs :
              id \in JobIds ~> (id \in JobIds /\ jobs[id].state # "PENDING")

\* The voting page is not left with its spinner, whatever becomes of the jobs, the worker
\* and the API.
VotersAreReleased ==
  \A v \in Voters :
    (\E leg \in LegsOf(v) : legs[leg].pc # "idle") ~> (\A leg \in LegsOf(v) : legs[leg].pc = "idle")
=============================================================================
