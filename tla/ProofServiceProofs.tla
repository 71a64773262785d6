------------------------- MODULE ProofServiceProofs -------------------------
(***************************************************************************)
(* Proofs about the proof service, for any pages, workers, quota and       *)
(* bounds.  The invariant has two halves.  That of the clients counts:     *)
(* every request between its charge and its job is one of those that were  *)
(* charged.  That of the workers says whose a job is: it is in the queue   *)
(* once, or with one worker, and until then it has no answer.              *)
(***************************************************************************)
EXTENDS ProofService, SequenceTheorems, FiniteSetTheorems, TLAPS

\* Requests whose POST is not answered
Posts == {leg \in Legs : legs[leg].pc \in {"sent", "body"}}

\* What JobsWithinQuota counts
JobsOf(u, d) == {id \in JobIds : jobs[id].user = u /\ jobs[id].day = d}
Bodies(u, d) == {leg \in Legs : legs[leg].pc = "body" /\ Owner(leg) = u /\ legs[leg].day = d}

\* A request that polls has a poll left.
Going == {l \in Leg : l.polls < MaxPolls}

\* Every POST on its way has room for its job.
RoomKept == IsFiniteSet(Posts) /\ Len(jobs) + Cardinality(Posts) <= MaxJobs

ClientHalf ==
  /\ day \in Days
  /\ used \in [Users -> [Days -> Nat]]
  /\ jobs \in Seq(Job)
  /\ legs \in [Legs -> Going]
  /\ RoomKept
  /\ JobsWithinQuota

\* What a worker works on
Working(w) == working[w] # Resting

\* A worker's job has no answer; its row is there when the worker returns.
WorkersOwn ==
  \A w \in Workers : Working(w) =>
    /\ working[w].step # "rest"
    /\ working[w].job \in JobIds /\ jobs[working[w].job].state = "PENDING"
    /\ working[w].step = "return" => working[w].job \in audit

\* No job is with two workers.
WorkersDiffer ==
  \A w, x \in Workers : w # x /\ Working(w) /\ Working(x) => working[w].job # working[x].job

\* A queued job has no answer, and is queued once and with no worker.
QueueOwns ==
  \A i \in DOMAIN queue :
    /\ jobs[queue[i]].state = "PENDING"
    /\ \A j \in DOMAIN queue : queue[i] = queue[j] => i = j
    /\ \A w \in Workers : Working(w) => working[w].job # queue[i]

WorkerTypes ==
  /\ eager \in BOOLEAN /\ pool \in BOOLEAN
  /\ queue \in Seq(JobIds)
  /\ working \in [Workers -> [job : 0 .. MaxJobs, step : {"rest", "prove", "audit", "return"}]]
  /\ cache \in [Workers \union {Api} -> SUBSET {"voice", "eligibility"}]
  /\ audit \subseteq JobIds
  /\ faults \in 0 .. MaxFaults

WorkerHalf == WorkerTypes /\ WorkersOwn /\ WorkersDiffer /\ QueueOwns /\ SucceededIsAudited

IInv == ClientHalf /\ WorkerHalf

-----------------------------------------------------------------------------
(* Requests *)

\* The names of the two requests a page can make
LEMMA LegFacts ==
  /\ \A leg \in Legs : Owner(leg) \in Users /\ leg[2] \in {"voice", "eligibility"}
  /\ \A c : LegsOf(c) \subseteq {<<c, "voice">>, <<c, "eligibility">>} /\ LegsOf(c) \subseteq Legs
<1>1. ASSUME NEW leg \in Legs
      PROVE  leg[1] \in Clients /\ leg[2] \in {"voice", "eligibility"} /\ leg = <<leg[1], leg[2]>>
  BY DEF Legs, Clients
<1>2. \A leg \in Legs : Owner(leg) \in Users
  BY <1>1, ServiceAssumption DEF Owner
<1>3. ASSUME NEW c, NEW leg \in LegsOf(c)
      PROVE  leg \in {<<c, "voice">>, <<c, "eligibility">>} /\ leg \in Legs
  BY <1>1 DEF LegsOf
<1> QED
  BY <1>1, <1>2, <1>3

\* A request that waits for nothing
LEMMA OverTypes ==
  /\ Idle \in Going /\ Idle.pc = "idle"
  /\ \A pc \in {"idle", "sent", "body", "accepted", "quota", "refused",
                "poll", "stream", "got", "lost", "stuck"} :
       Over(pc) \in Going /\ Over(pc).pc = pc
<1>1. Idle \in Leg /\ Idle.polls = 0 /\ Idle.pc = "idle"
  BY ServiceAssumption DEF Idle, Leg, Days, NoJob
<1>2. Idle \in Going
  BY <1>1, ServiceAssumption DEF Going
<1>3. ASSUME NEW pc \in {"idle", "sent", "body", "accepted", "quota", "refused",
                         "poll", "stream", "got", "lost", "stuck"}
      PROVE  Over(pc) \in Leg /\ Over(pc).polls = 0 /\ Over(pc).pc = pc
  BY <1>1 DEF Over, Leg
<1> QED
  BY <1>1, <1>2, <1>3, ServiceAssumption DEF Going

\* What the accepted request is told
LEMMA AcceptedType ==
  ASSUME NEW id \in 0 .. MaxJobs
  PROVE  /\ [Idle EXCEPT !.pc = "accepted", !.job = id] \in Going
         /\ [Idle EXCEPT !.pc = "accepted", !.job = id].pc = "accepted"
<1>1. Idle \in Leg /\ Idle.polls = 0
  BY ServiceAssumption DEF Idle, Leg, Days, NoJob
<1> DEFINE r == [Idle EXCEPT !.pc = "accepted", !.job = id]
<1>2. r \in Leg /\ r.polls = 0 /\ r.pc = "accepted"
  BY <1>1 DEF Leg
<1> HIDE DEF r
<1>3. r \in Going /\ r.pc = "accepted"
  BY <1>2, ServiceAssumption DEF Going
<1> QED
  BY <1>3 DEF r

\* There are finitely many posts, so they can be counted.
LEMMA PostsFinite ==
  ASSUME ClientHalf
  PROVE  IsFiniteSet(Posts) /\ Cardinality(Posts) \in Nat /\ Len(jobs) \in Nat /\ MaxJobs \in Nat
BY LenProperties, FS_CardinalityType, ServiceAssumption DEF ClientHalf, RoomKept

\* The sets that are counted are finite.
LEMMA CountedFinite ==
  ASSUME ClientHalf, NEW u, NEW d
  PROVE  /\ IsFiniteSet(JobsOf(u, d)) /\ Cardinality(JobsOf(u, d)) \in Nat
         /\ IsFiniteSet(Bodies(u, d)) /\ Cardinality(Bodies(u, d)) \in Nat
         /\ IsFiniteSet(Posts) /\ Cardinality(Posts) \in Nat /\ Len(jobs) \in Nat
         /\ Bodies(u, d) \subseteq Posts
<1>1. Len(jobs) \in Nat /\ IsFiniteSet(Posts)
  BY LenProperties DEF ClientHalf, RoomKept
<1>2. ASSUME NEW n \in Nat PROVE IsFiniteSet(1 .. n)
  BY FS_Interval
<1>3. IsFiniteSet(JobIds)
  BY <1>1, <1>2 DEF JobIds
<1>4. JobsOf(u, d) \subseteq JobIds /\ Bodies(u, d) \subseteq Posts
  BY DEF JobsOf, Bodies, Posts
<1> QED
  BY <1>1, <1>3, <1>4, FS_Subset, FS_CardinalityType

\* The jobs are the same but for their states.
JobsKept ==
  /\ jobs' \in Seq(Job) /\ Len(jobs') = Len(jobs)
  /\ \A id \in JobIds : jobs'[id].user = jobs[id].user /\ jobs'[id].day = jobs[id].day

\* A request that was not under way is not, and one that is has not changed.
NothingSent ==
  \A leg \in Legs : legs'[leg].pc \in {"sent", "body"} => legs'[leg] = legs[leg]

\* Charged more, but not beyond the quota
ChargedMore ==
  /\ used' \in [Users -> [Days -> Nat]]
  /\ \A u \in Users, d \in Days :
       /\ used'[u][d] >= used[u][d]
       /\ used'[u][d] <= Quota \/ used'[u][d] = 1

\* A step that leaves the table alone charges nobody less.
LEMMA SameCharges == ClientHalf /\ UNCHANGED used => ChargedMore
<1> SUFFICES ASSUME ClientHalf, UNCHANGED used PROVE ChargedMore
  OBVIOUS
<1>1. ASSUME NEW u \in Users, NEW d \in Days
      PROVE  used[u][d] \in Nat /\ (used[u][d] <= Quota \/ used[u][d] = 1)
  BY DEF ClientHalf, JobsWithinQuota
<1>2. used' \in [Users -> [Days -> Nat]]
  BY DEF ClientHalf
<1>3. ASSUME NEW u \in Users, NEW d \in Days
      PROVE  used'[u][d] >= used[u][d] /\ (used'[u][d] <= Quota \/ used'[u][d] = 1)
  BY <1>1
<1> QED
  BY <1>2, <1>3 DEF ChargedMore

\* Requests end, or go on to wait for something else.
LEMMA SentLess ==
  ASSUME ClientHalf, day' \in Days, ChargedMore, JobsKept, legs' \in [Legs -> Going], NothingSent
  PROVE  ClientHalf'
<1>1. Posts' \subseteq Posts
  BY DEF NothingSent, Posts
<1>2. RoomKept'
  <2>1. IsFiniteSet(Posts') /\ Cardinality(Posts') <= Cardinality(Posts) /\ Cardinality(Posts') \in Nat
    BY <1>1, FS_Subset, FS_CardinalityType DEF ClientHalf, RoomKept
  <2> QED
    BY <2>1, PostsFinite DEF ClientHalf, RoomKept, JobsKept
<1>3. ASSUME NEW u \in Users, NEW d \in Days
      PROVE  /\ used'[u][d] <= Quota \/ used'[u][d] = 1
             /\ Cardinality(JobsOf(u, d)') + Cardinality(Bodies(u, d)') <= used'[u][d]
  <2>1. JobsOf(u, d)' = JobsOf(u, d)
    BY DEF JobsKept, JobsOf, JobIds
  <2>2. Bodies(u, d)' \subseteq Bodies(u, d)
    BY DEF NothingSent, Bodies, Owner
  <2>3. /\ Cardinality(Bodies(u, d)') <= Cardinality(Bodies(u, d))
        /\ Cardinality(Bodies(u, d)') \in Nat
    BY <2>2, CountedFinite, FS_Subset, FS_CardinalityType
  <2>4. Cardinality(JobsOf(u, d)) + Cardinality(Bodies(u, d)) <= used[u][d]
    BY DEF ClientHalf, JobsWithinQuota, JobsOf, Bodies
  <2>5. used[u][d] \in Nat /\ used'[u][d] \in Nat
    BY DEF ClientHalf, ChargedMore
  <2> QED
    BY <2>1, <2>3, <2>4, <2>5, CountedFinite DEF ChargedMore
<1>4. JobsWithinQuota'
  BY <1>3 DEF JobsWithinQuota, JobsOf, Bodies
<1> QED
  BY <1>2, <1>4 DEF ClientHalf, ChargedMore, JobsKept

\* increment_quota: the charge of a request and the request go together.
LEMMA ChargeKeeps ==
  ASSUME ClientHalf, NEW leg \in Legs, Charge(leg)
  PROVE  ClientHalf'
<1> DEFINE o == Owner(leg)
<1>1. o \in Users /\ day \in Days /\ used[o][day] \in Nat /\ legs[leg].pc = "sent"
  BY LegFacts DEF Charge, ClientHalf
<1>2. JobsKept /\ day' = day
  BY DEF Charge, ClientHalf, JobsKept
<1>3. CASE ~ Allowed(o)
  <2>1. legs' = [legs EXCEPT ![leg].pc = "quota"] /\ UNCHANGED used
    BY <1>3 DEF Charge
  <2>2. legs' \in [Legs -> Going] /\ legs'[leg].pc = "quota" /\ \A l \in Legs \ {leg} : legs'[l] = legs[l]
    BY <2>1 DEF ClientHalf, Going, Leg
  <2>3. NothingSent
    BY <2>2 DEF NothingSent
  <2> QED
    BY <1>1, <1>2, <2>1, <2>2, <2>3, SentLess, SameCharges
<1>4. CASE Allowed(o)
  <2>1. /\ used' = [used EXCEPT ![o][day] = used[o][day] + 1]
        /\ legs' = [legs EXCEPT ![leg].pc = "body", ![leg].day = day]
    BY <1>4 DEF Charge
  <2>2. /\ legs' \in [Legs -> Going] /\ legs'[leg].pc = "body" /\ legs'[leg].day = day
        /\ \A l \in Legs \ {leg} : legs'[l] = legs[l]
    BY <1>1, <2>1 DEF ClientHalf, Going, Leg
  <2>3. /\ used' \in [Users -> [Days -> Nat]] /\ used'[o][day] = used[o][day] + 1
        /\ \A u \in Users, d \in Days : u # o \/ d # day => used'[u][d] = used[u][d]
    BY <1>1, <2>1 DEF ClientHalf
  <2>4. Posts' = Posts
    BY <1>1, <2>2 DEF Posts
  <2>5. RoomKept'
    BY <1>2, <2>4 DEF ClientHalf, RoomKept, JobsKept
  <2>6. ASSUME NEW u \in Users, NEW d \in Days
        PROVE  /\ used'[u][d] <= Quota \/ used'[u][d] = 1
               /\ Cardinality(JobsOf(u, d)') + Cardinality(Bodies(u, d)') <= used'[u][d]
    <3>1. JobsOf(u, d)' = JobsOf(u, d)
      BY <1>2 DEF JobsKept, JobsOf, JobIds
    <3>2. Cardinality(JobsOf(u, d)) + Cardinality(Bodies(u, d)) <= used[u][d]
      BY DEF ClientHalf, JobsWithinQuota, JobsOf, Bodies
    <3>3. used[u][d] <= Quota \/ used[u][d] = 1
      BY DEF ClientHalf, JobsWithinQuota
    <3>4. used[u][d] \in Nat /\ Cardinality(JobsOf(u, d)) \in Nat /\ Cardinality(Bodies(u, d)) \in Nat
      BY CountedFinite DEF ClientHalf
    <3>5. CASE u = o /\ d = day
      <4>1. Bodies(u, d)' = Bodies(u, d) \union {leg}
        BY <1>1, <2>2, <3>5 DEF Bodies, Owner
      <4>2. leg \notin Bodies(u, d)
        BY <1>1 DEF Bodies
      <4>3. Cardinality(Bodies(u, d)') = Cardinality(Bodies(u, d)) + 1
        BY <4>1, <4>2, CountedFinite, FS_AddElement
      <4>4. used'[u][d] = used[u][d] + 1 /\ (used[u][d] = 0 \/ used[u][d] < Quota)
        BY <1>4, <2>3, <3>5 DEF Allowed
      <4> QED
        BY <3>1, <3>2, <3>4, <4>3, <4>4, ServiceAssumption
    <3>6. CASE u # o \/ d # day
      <4>1. Bodies(u, d)' = Bodies(u, d)
        BY <1>1, <2>2, <3>6 DEF Bodies, Owner
      <4> QED
        BY <2>3, <3>1, <3>2, <3>3, <3>6, <4>1
    <3> QED
      BY <3>5, <3>6
  <2>7. JobsWithinQuota'
    BY <2>6 DEF JobsWithinQuota, JobsOf, Bodies
  <2> QED
    BY <1>1, <1>2, <2>2, <2>3, <2>5, <2>7 DEF ClientHalf, JobsKept
<1> QED
  BY <1>3, <1>4

\* An accepted request becomes a job of its user and of the day it was charged to.
LEMMA AcceptKeeps ==
  ASSUME ClientHalf, NEW leg \in Legs, legs[leg].pc = "body", UNCHANGED <<day, used>>,
         NEW state \in {"PENDING", "SUCCESS", "FAILURE"},
         jobs' = Append(jobs, NewJob(leg, state)), Accept(leg, Len(jobs'))
  PROVE  ClientHalf' /\ Len(jobs') = Len(jobs) + 1 /\ Len(jobs') <= MaxJobs
<1> DEFINE job == NewJob(leg, state)
           n == Len(jobs')
<1>1. job \in Job /\ job.user = Owner(leg) /\ job.day = legs[leg].day
  BY LegFacts DEF NewJob, Job, ClientHalf, Going, Leg
<1> HIDE DEF job
<1>2. /\ jobs' \in Seq(Job) /\ n = Len(jobs) + 1 /\ jobs'[n] = job
      /\ \A id \in JobIds : jobs'[id] = jobs[id]
  <2>1. jobs \in Seq(Job) /\ jobs' = Append(jobs, job)
    BY DEF ClientHalf, job
  <2> QED
    BY <1>1, <2>1, AppendProperties DEF JobIds
<1> HIDE DEF n
<1>3. leg \in Posts
  BY DEF Posts
<1>4. /\ IsFiniteSet(Posts \ {leg}) /\ Cardinality(Posts \ {leg}) = Cardinality(Posts) - 1
      /\ Cardinality(Posts) \in Nat /\ Cardinality(Posts \ {leg}) \in Nat /\ Len(jobs) \in Nat
  BY <1>3, PostsFinite, FS_RemoveElement, FS_CardinalityType
<1>5. n \in 0 .. MaxJobs
  BY <1>2, <1>4, ServiceAssumption DEF ClientHalf, RoomKept
<1>6. legs' = [legs EXCEPT ![leg] = [Idle EXCEPT !.pc = "accepted", !.job = n]]
  BY DEF Accept, n
<1> DEFINE l1 == [Idle EXCEPT !.pc = "accepted", !.job = n]
<1>7. l1 \in Going /\ l1.pc = "accepted"
  BY <1>5, AcceptedType
<1> HIDE DEF l1
<1>8. /\ legs' \in [Legs -> Going] /\ legs'[leg].pc = "accepted"
      /\ \A l \in Legs \ {leg} : legs'[l] = legs[l]
  BY <1>6, <1>7 DEF l1, ClientHalf
<1>9. Posts' = Posts \ {leg}
  BY <1>8 DEF Posts
<1>10. RoomKept'
  BY <1>2, <1>4, <1>9, ServiceAssumption DEF ClientHalf, RoomKept, n
<1>11. ASSUME NEW u \in Users, NEW d \in Days
       PROVE  /\ used'[u][d] <= Quota \/ used'[u][d] = 1
              /\ Cardinality(JobsOf(u, d)') + Cardinality(Bodies(u, d)') <= used'[u][d]
  <2>1. Cardinality(JobsOf(u, d)) + Cardinality(Bodies(u, d)) <= used[u][d]
    BY DEF ClientHalf, JobsWithinQuota, JobsOf, Bodies
  <2>2. used[u][d] <= Quota \/ used[u][d] = 1
    BY DEF ClientHalf, JobsWithinQuota
  <2>3. n = Len(jobs) + 1 /\ JobIds' = JobIds \union {n} /\ n \notin JobIds
    <3>1. JobIds' = 1 .. n /\ JobIds = 1 .. Len(jobs)
      BY DEF JobIds, n
    <3> QED
      BY <1>2, <1>4, <3>1
  <2>4. CASE u = Owner(leg) /\ d = legs[leg].day
    <3>1. JobsOf(u, d)' = JobsOf(u, d) \union {n} /\ n \notin JobsOf(u, d)
      BY <1>1, <1>2, <2>3, <2>4 DEF JobsOf
    <3>2. Bodies(u, d)' = Bodies(u, d) \ {leg} /\ leg \in Bodies(u, d)
      BY <1>8, <2>4 DEF Bodies, Owner
    <3>3. Cardinality(JobsOf(u, d)') = Cardinality(JobsOf(u, d)) + 1
      BY <3>1, CountedFinite, FS_AddElement
    <3>4. Cardinality(Bodies(u, d)') = Cardinality(Bodies(u, d)) - 1
      <4>1. IsFiniteSet(Bodies(u, d))
        BY CountedFinite
      <4>2. Cardinality(Bodies(u, d) \ {leg}) = Cardinality(Bodies(u, d)) - 1
        BY <3>2, <4>1, FS_RemoveElement
      <4> QED
        BY <3>2, <4>2
    <3>5. Cardinality(JobsOf(u, d)) \in Nat /\ Cardinality(Bodies(u, d)) \in Nat
      BY CountedFinite
    <3> QED
      BY <2>1, <2>2, <3>3, <3>4, <3>5
  <2>5. CASE ~ (u = Owner(leg) /\ d = legs[leg].day)
    <3>1. JobsOf(u, d)' = JobsOf(u, d)
      BY <1>1, <1>2, <2>3, <2>5 DEF JobsOf
    <3>2. Bodies(u, d)' = Bodies(u, d)
      BY <1>8, <2>5 DEF Bodies, Owner
    <3> QED
      BY <2>1, <2>2, <3>1, <3>2
  <2> QED
    BY <2>4, <2>5
<1>12. JobsWithinQuota'
  BY <1>11 DEF JobsWithinQuota, JobsOf, Bodies
<1> QED
  BY <1>2, <1>5, <1>8, <1>10, <1>12 DEF ClientHalf, n

\* A page posts at most as many requests as it found room for.
LEMMA SendKeeps ==
  ASSUME ClientHalf, NEW S \in SUBSET Legs, NEW n \in Nat, IsFiniteSet(S), Cardinality(S) <= n,
         Room(n), UNCHANGED <<day, used, jobs>>,
         legs' \in [Legs -> Going], \A leg \in S : legs'[leg].pc = "sent",
         \A leg \in Legs \ S : legs'[leg] = legs[leg],
         \A leg \in S : legs[leg].pc = "idle"
  PROVE  ClientHalf'
<1>1. Posts' = Posts \union S
  BY DEF Posts
<1>2. Room(n) <=> Len(jobs) + Cardinality(Posts) + n <= MaxJobs
  BY DEF Room, Posts
<1>3. RoomKept'
  <2>1. IsFiniteSet(Posts') /\ Cardinality(Posts') <= Cardinality(Posts) + Cardinality(S)
    <3>1. Posts \intersect S = {} /\ Cardinality({}) = 0
      BY FS_EmptySet DEF Posts
    <3>2. /\ IsFiniteSet(Posts \union S)
          /\ Cardinality(Posts \union S)
               = Cardinality(Posts) + Cardinality(S) - Cardinality(Posts \intersect S)
      BY PostsFinite, FS_Union
    <3>3. Cardinality(S) \in Nat /\ Cardinality(Posts) \in Nat
      BY PostsFinite, FS_CardinalityType
    <3>4. Cardinality(Posts \intersect S) = 0
      BY <3>1
    <3>5. Cardinality(Posts \union S) = Cardinality(Posts) + Cardinality(S)
      BY <3>2, <3>3, <3>4
    <3> QED
      BY <1>1, <3>2, <3>3, <3>5
  <2>2. Cardinality(S) \in Nat /\ Cardinality(Posts') \in Nat
    BY <2>1, FS_CardinalityType
  <2> QED
    BY <1>2, <2>1, <2>2, PostsFinite, ServiceAssumption DEF RoomKept
<1>4. \A u, d : Bodies(u, d)' = Bodies(u, d) /\ JobsOf(u, d)' = JobsOf(u, d)
  BY DEF Bodies, JobsOf, JobIds, Owner
<1>5. JobsWithinQuota'
  <2>1. ASSUME NEW u \in Users, NEW d \in Days
        PROVE  /\ used'[u][d] <= Quota \/ used'[u][d] = 1
               /\ Cardinality(JobsOf(u, d)') + Cardinality(Bodies(u, d)') <= used'[u][d]
    <3>1. /\ used[u][d] <= Quota \/ used[u][d] = 1
          /\ Cardinality(JobsOf(u, d)) + Cardinality(Bodies(u, d)) <= used[u][d]
      BY DEF ClientHalf, JobsWithinQuota, JobsOf, Bodies
    <3> QED
      BY <1>4, <3>1
  <2> QED
    BY <2>1 DEF JobsWithinQuota, JobsOf, Bodies
<1> QED
  BY <1>3, <1>5 DEF ClientHalf

\* A ballot is cast when both proofs are there; nothing is posted.
LEMMA CastKeeps ==
  ASSUME ClientHalf, NEW v \in Voters, Cast(v)
  PROVE  ClientHalf'
<1> DEFINE sent == [Idle EXCEPT !.pc = "sent"]
           S == LegsOf(v)
<1>1. sent \in Going /\ sent.pc = "sent"
  BY OverTypes DEF Over
<1> HIDE DEF sent
<1>2. legs' = [leg \in Legs |-> IF leg \in S THEN sent ELSE legs[leg]]
  BY DEF Cast, sent
<1>3. S \in SUBSET Legs /\ S \subseteq {<<v, "voice">>, <<v, "eligibility">>}
  BY LegFacts
<1>4. IsFiniteSet(S) /\ Cardinality(S) <= 2
  <2>1. ASSUME NEW a, NEW b
        PROVE  IsFiniteSet({a, b}) /\ Cardinality({a, b}) <= 2 /\ Cardinality({a, b}) \in Nat
    <3>1. IsFiniteSet({a}) /\ Cardinality({a}) = 1
      BY FS_Singleton
    <3>2. {a, b} = {a} \union {b}
      OBVIOUS
    <3>3. IsFiniteSet({a} \union {b}) /\ Cardinality({a} \union {b}) \in {1, 2}
      BY <3>1, FS_AddElement
    <3> QED
      BY <3>2, <3>3
  <2>2. /\ IsFiniteSet({<<v, "voice">>, <<v, "eligibility">>})
        /\ Cardinality({<<v, "voice">>, <<v, "eligibility">>}) <= 2
        /\ Cardinality({<<v, "voice">>, <<v, "eligibility">>}) \in Nat
    BY <2>1
  <2> QED
    BY <1>3, <2>2, FS_Subset, FS_CardinalityType
<1>5. \A leg \in S : legs[leg].pc = "idle"
  BY DEF Cast
<1>6. Room(2) /\ UNCHANGED <<day, used, jobs>>
  BY DEF Cast, serverVars
<1> HIDE DEF S
<1>7. /\ legs' \in [Legs -> Going] /\ \A leg \in S : legs'[leg].pc = "sent"
      /\ \A leg \in Legs \ S : legs'[leg] = legs[leg]
  BY <1>1, <1>2, <1>3 DEF ClientHalf
<1> QED
  BY <1>3, <1>4, <1>5, <1>6, <1>7, SendKeeps

\* A page that proves eligibility posts one leg.
LEMMA SubmitKeeps ==
  ASSUME ClientHalf, NEW leg \in Legs, Submit(leg), UNCHANGED <<day, used, jobs>>
  PROVE  ClientHalf'
<1> DEFINE sent == [Idle EXCEPT !.pc = "sent"]
<1>1. sent \in Going /\ sent.pc = "sent"
  BY OverTypes DEF Over
<1> HIDE DEF sent
<1>2. legs' = [legs EXCEPT ![leg] = sent]
  BY DEF Submit, sent
<1>3. IsFiniteSet({leg}) /\ Cardinality({leg}) <= 1 /\ {leg} \in SUBSET Legs
  <2>1. IsFiniteSet({leg}) /\ Cardinality({leg}) = 1
    BY FS_Singleton
  <2> QED
    BY <2>1
<1>4. /\ legs' \in [Legs -> Going] /\ \A l \in {leg} : legs'[l].pc = "sent"
      /\ \A l \in Legs \ {leg} : legs'[l] = legs[l]
  BY <1>1, <1>2 DEF ClientHalf
<1>5. Room(1) /\ \A l \in {leg} : legs[l].pc = "idle"
  BY DEF Submit
<1> QED
  BY <1>3, <1>4, <1>5, SendKeeps

\* One request goes on, and is not sent by that.
LEMMA OneLeg ==
  ASSUME ClientHalf, NEW leg \in Legs, NEW l \in Going, l.pc \notin {"sent", "body"},
         legs' = [legs EXCEPT ![leg] = l], JobsKept, ChargedMore, day' \in Days
  PROVE  ClientHalf'
<1>1. /\ legs' \in [Legs -> Going] /\ legs'[leg] = l
      /\ \A k \in Legs \ {leg} : legs'[k] = legs[k]
  BY DEF ClientHalf
<1>2. NothingSent
  BY <1>1 DEF NothingSent
<1> QED
  BY <1>1, <1>2, SentLess

\* What a step changes of a request that is over or waits.
LEMMA GoingOn ==
  ASSUME ClientHalf, NEW leg \in Legs
  PROVE  /\ [legs[leg] EXCEPT !.pc = "stream"] \in Going
         /\ [legs[leg] EXCEPT !.pc = "stream"].pc = "stream"
         /\ [legs[leg] EXCEPT !.pc = "poll"] \in Going
         /\ [legs[leg] EXCEPT !.pc = "poll"].pc = "poll"
         /\ legs[leg].polls + 1 # MaxPolls =>
              /\ [legs[leg] EXCEPT !.polls = legs[leg].polls + 1] \in Going
              /\ [legs[leg] EXCEPT !.polls = legs[leg].polls + 1].pc = legs[leg].pc
<1>1. legs[leg] \in Leg /\ legs[leg].polls < MaxPolls /\ legs[leg].polls \in Nat /\ MaxPolls \in Nat
  BY ServiceAssumption DEF ClientHalf, Going, Leg
<1>2. ASSUME NEW l \in Leg, NEW pc \in {"stream", "poll"}
      PROVE  /\ [l EXCEPT !.pc = pc] \in Leg /\ [l EXCEPT !.pc = pc].polls = l.polls
             /\ [l EXCEPT !.pc = pc].pc = pc
  BY DEF Leg
<1>3. ASSUME NEW l \in Leg, NEW n \in 0 .. MaxPolls
      PROVE  /\ [l EXCEPT !.polls = n] \in Leg /\ [l EXCEPT !.polls = n].polls = n
             /\ [l EXCEPT !.polls = n].pc = l.pc
  BY DEF Leg
<1>4. legs[leg].polls + 1 # MaxPolls =>
        legs[leg].polls + 1 \in 0 .. MaxPolls /\ legs[leg].polls + 1 < MaxPolls
  BY <1>1
<1> QED
  BY <1>1, <1>2, <1>3, <1>4 DEF Going

\* What the workers do to jobs: a state is stored.
LEMMA StoreKeeps ==
  ASSUME ClientHalf, NEW w \in Workers, NEW state \in {"PENDING", "SUCCESS", "FAILURE"},
         working[w].job \in JobIds, jobs' = [jobs EXCEPT ![working[w].job].state = state]
  PROVE  /\ JobsKept
         /\ jobs'[working[w].job].state = state
         /\ \A id \in JobIds : id # working[w].job => jobs'[id] = jobs[id]
<1> DEFINE j == working[w].job
           x == [jobs[j] EXCEPT !.state = state]
<1>1. jobs \in Seq(Job) /\ j \in 1 .. Len(jobs) /\ jobs[j] \in Job
  BY ElementOfSeq DEF ClientHalf, JobIds
<1>2. /\ x \in Job /\ x.state = state /\ x.user = jobs[j].user /\ x.day = jobs[j].day
  BY <1>1 DEF Job
<1>3. jobs' = [jobs EXCEPT ![j] = x]
  OBVIOUS
<1> HIDE DEF x, j
<1>4. /\ jobs' \in Seq(Job) /\ Len(jobs') = Len(jobs) /\ jobs'[j] = x
      /\ \A id \in 1 .. Len(jobs) : id # j => jobs'[id] = jobs[id]
  <2> DEFINE s == [jobs EXCEPT ![j] = x]
  <2>1. /\ s \in Seq(Job) /\ Len(s) = Len(jobs)
        /\ \A id \in 1 .. Len(jobs) : s[id] = IF id = j THEN x ELSE jobs[id]
    BY <1>1, <1>2, ExceptSeq
  <2>2. jobs' = s
    BY <1>3
  <2> HIDE DEF s
  <2> QED
    BY <1>1, <2>1, <2>2
<1> QED
  BY <1>2, <1>4 DEF JobsKept, JobIds, j

\* Every step keeps the half of the clients and the table.
LEMMA StepClients == IInv /\ [Next]_vars => ClientHalf'
<1> SUFFICES ASSUME IInv, [Next]_vars PROVE ClientHalf'
  OBVIOUS
<1>1. /\ ClientHalf /\ WorkerHalf /\ legs \in [Legs -> Going] /\ day \in Days
      /\ UNCHANGED used => ChargedMore
  BY SameCharges DEF IInv, ClientHalf
<1>2. UNCHANGED jobs => JobsKept
  BY <1>1 DEF ClientHalf, JobsKept
<1>3. UNCHANGED legs => NothingSent
  BY DEF NothingSent
<1>4. ASSUME day' \in Days, UNCHANGED <<used, jobs, legs>>
      PROVE  ClientHalf'
  BY <1>1, <1>2, <1>3, <1>4, SentLess
<1>5. ASSUME NEW leg \in Legs, NEW l \in Going, l.pc \notin {"sent", "body"},
             legs' = [legs EXCEPT ![leg] = l], UNCHANGED <<day, used, jobs>>
      PROVE  ClientHalf'
  BY <1>1, <1>2, <1>5, OneLeg
<1>6. CASE Midnight
  BY <1>1, <1>4, <1>6, ServiceAssumption DEF Midnight, serverVars, Days
<1>7. ASSUME UNCHANGED <<day, used, legs>>, JobsKept
      PROVE  ClientHalf'
  BY <1>1, <1>3, <1>7, SentLess
<1>8. CASE ApiRestart
  <2>1. PICK failed \in SUBSET Legs :
          legs' = [leg \in Legs |->
            CASE legs[leg].pc \in {"sent", "body"} -> Over("refused")
              [] legs[leg].pc = "stream" ->
                   Over(IF leg \in failed THEN "stuck" ELSE Fetched(leg))
              [] OTHER -> legs[leg]]
    BY <1>8 DEF ApiRestart
  <2>2. ASSUME NEW leg \in Legs
        PROVE  /\ legs'[leg] \in Going
               /\ legs'[leg].pc \in {"sent", "body"} => legs'[leg] = legs[leg]
    BY <1>1, <2>1, OverTypes DEF Fetched
  <2>3. legs' \in [Legs -> Going] /\ NothingSent
    BY <2>1, <2>2 DEF NothingSent
  <2> QED
    BY <1>1, <1>2, <1>8, <2>3, SentLess DEF ApiRestart
<1>9. ASSUME NEW leg \in Legs, Handler(leg)
      PROVE  ClientHalf'
  <2>1. CASE AnswerFromCache(leg)
    <3> DEFINE l == [Idle EXCEPT !.pc = "accepted", !.job = NoJob]
    <3>1. l \in Going /\ l.pc = "accepted"
      <4>1. NoJob \in 0 .. MaxJobs
        BY ServiceAssumption DEF NoJob
      <4> QED
        BY <4>1, AcceptedType
    <3>2. legs' = [legs EXCEPT ![leg] = l] /\ UNCHANGED <<day, used, jobs>>
      BY <2>1 DEF AnswerFromCache, Accept, serverVars
    <3> HIDE DEF l
    <3> QED
      BY <1>5, <3>1, <3>2
  <2>2. CASE Enqueue(leg) \/ RunInPlace(leg)
    BY <1>1, <2>2, AcceptKeeps DEF Enqueue, RunInPlace
  <2> QED
    BY <1>1, <1>9, <2>1, <2>2, ChargeKeeps DEF Handler
<1>10. ASSUME NEW leg \in Legs, RunInPlaceFails(leg)
       PROVE  ClientHalf'
  BY <1>1, <1>10, AcceptKeeps DEF RunInPlaceFails
<1>11. ASSUME NEW leg \in Legs, PostFails(leg)
       PROVE  ClientHalf'
  <2>1. CASE UNCHANGED used
    BY <1>5, <1>11, <2>1, OverTypes DEF PostFails
  <2>2. CASE /\ Allowed(Owner(leg))
             /\ used' = [used EXCEPT ![Owner(leg)][day] = @ + 1]
    <3>1. Owner(leg) \in Users
      BY LegFacts
    <3>2. ASSUME NEW u \in Users, NEW d \in Days
          PROVE  used[u][d] \in Nat /\ (used[u][d] <= Quota \/ used[u][d] = 1)
      BY <1>1 DEF ClientHalf, JobsWithinQuota
    <3>3. /\ used' \in [Users -> [Days -> Nat]]
          /\ used'[Owner(leg)][day] = used[Owner(leg)][day] + 1
          /\ \A u \in Users, d \in Days : u # Owner(leg) \/ d # day => used'[u][d] = used[u][d]
      BY <1>1, <2>2, <3>1 DEF ClientHalf
    <3>4. used[Owner(leg)][day] = 0 \/ used[Owner(leg)][day] < Quota
      BY <2>2 DEF Allowed
    <3>5. ASSUME NEW u \in Users, NEW d \in Days
          PROVE  used'[u][d] >= used[u][d] /\ (used'[u][d] <= Quota \/ used'[u][d] = 1)
      BY <1>1, <3>1, <3>2, <3>3, <3>4, ServiceAssumption
    <3>6. ChargedMore
      BY <3>3, <3>5 DEF ChargedMore
    <3> QED
      BY <1>1, <1>2, <1>11, <3>6, OverTypes, OneLeg DEF PostFails
  <2> QED
    BY <1>11, <2>1, <2>2 DEF PostFails
<1>12. ASSUME NEW leg \in Legs, Poll(leg)
       PROVE  ClientHalf'
  <2> DEFINE more == [legs[leg] EXCEPT !.polls = legs[leg].polls + 1]
  <2>1. /\ legs[leg].pc = "poll" /\ UNCHANGED <<day, used, jobs>>
        /\ \/ legs' = [legs EXCEPT ![leg] = Over("got")]
           \/ legs' = [legs EXCEPT ![leg] = Over("lost")]
           \/ legs[leg].polls + 1 # MaxPolls /\ legs' = [legs EXCEPT ![leg] = more]
    <3>1. /\ legs[leg].pc = "poll" /\ UNCHANGED <<day, used, jobs>>
          /\ \/ legs' = [legs EXCEPT ![leg] = Over("got")]
             \/ legs' = [legs EXCEPT ![leg] = IF legs[leg].polls + 1 = MaxPolls
                                              THEN Over("lost") ELSE more]
      <4>1. CASE State(legs[leg].job) = "SUCCESS"
        BY <1>12, <4>1 DEF Poll, serverVars
      <4>2. CASE State(legs[leg].job) # "SUCCESS"
        <5>1. legs[leg].pc = "poll" /\ UNCHANGED <<day, used, jobs>>
          BY <1>12 DEF Poll, serverVars
        <5>2. legs' = [legs EXCEPT ![leg] = IF legs[leg].polls + 1 = MaxPolls
                                              THEN Over("lost") ELSE more]
          BY <1>12, <4>2 DEF Poll
        <5> QED
          BY <5>1, <5>2
      <4> QED
        BY <4>1, <4>2
    <3> HIDE DEF more
    <3>2. CASE legs[leg].polls + 1 = MaxPolls
      BY <3>1, <3>2
    <3>3. CASE legs[leg].polls + 1 # MaxPolls
      BY <3>1, <3>3
    <3> QED
      BY <3>2, <3>3
  <2>2. legs[leg].polls + 1 # MaxPolls => more \in Going /\ more.pc = legs[leg].pc
    BY <1>1, GoingOn
  <2> HIDE DEF more
  <2> QED
    BY <1>5, <2>1, <2>2, OverTypes
<1>13. ASSUME NEW leg \in Legs, StreamEnds(leg) \/ ConnectionFails(leg)
       PROVE  ClientHalf'
  BY <1>5, <1>13, OverTypes DEF StreamEnds, ConnectionFails, Fetched, Broken, serverVars
<1>14. ASSUME NEW v \in Voters, Proceed(v)
       PROVE  ClientHalf'
  <2> DEFINE all == \A leg \in LegsOf(v) : legs[leg].pc = "accepted"
  <2>1. legs' = [leg \in Legs |-> IF leg \notin LegsOf(v) THEN legs[leg]
                   ELSE IF all THEN [legs[leg] EXCEPT !.pc = "poll"] ELSE Idle]
    BY <1>14 DEF Proceed
  <2> HIDE DEF all
  <2>2. ASSUME NEW leg \in Legs
        PROVE  /\ legs'[leg] \in Going
               /\ legs'[leg].pc \in {"sent", "body"} => legs'[leg] = legs[leg]
    BY <1>1, <2>1, OverTypes, GoingOn
  <2>3. legs' \in [Legs -> Going] /\ NothingSent
    BY <2>1, <2>2 DEF NothingSent
  <2> QED
    BY <1>1, <1>2, <1>14, <2>3, SentLess DEF Proceed, serverVars
<1>15. ASSUME NEW v \in Voters, CastEnds(v)
       PROVE  ClientHalf'
  <2>1. legs' = [leg \in Legs |-> IF leg \in LegsOf(v) THEN Idle ELSE legs[leg]]
    BY <1>15 DEF CastEnds
  <2>2. legs' \in [Legs -> Going] /\ NothingSent
    BY <1>1, <2>1, OverTypes DEF NothingSent
  <2> QED
    BY <1>1, <1>2, <1>15, <2>2, SentLess DEF CastEnds, serverVars
<1>16. ASSUME NEW p \in Pages, PageStarts(p)
       PROVE  ClientHalf'
  BY <1>1, <1>5, <1>16, SubmitKeeps, OverTypes, LegFacts DEF PageStarts, Reload, serverVars
<1>17. ASSUME NEW p \in Pages, PageGoesOn(p)
       PROVE  ClientHalf'
  <2>1. PICK leg \in Legs : Answered(leg)
    BY <1>17, LegFacts DEF PageGoesOn
  <2>2. /\ UNCHANGED <<day, used, jobs>>
        /\ \/ legs' = [legs EXCEPT ![leg] = Over("stuck")]
           \/ legs' = [legs EXCEPT ![leg] = Idle]
           \/ legs' = [legs EXCEPT ![leg] = [legs[leg] EXCEPT !.pc = "stream"]]
    BY <1>1, <1>17, <2>1 DEF PageGoesOn, Answered, serverVars
  <2> QED
    BY <1>1, <1>5, <2>2, OverTypes, GoingOn
<1>18. ASSUME NEW w \in Workers, Working(w), NEW state \in {"PENDING", "SUCCESS", "FAILURE"},
              Store(w, state)
       PROVE  ClientHalf'
  <2>1. working[w].job \in JobIds
    BY <1>1, <1>18 DEF WorkerHalf, WorkersOwn
  <2> QED
    BY <1>1, <1>7, <1>18, <2>1, StoreKeeps DEF Store
<1>19. ASSUME NEW w \in Workers, working[w].step # "rest" PROVE Working(w)
  BY <1>19 DEF Working, Resting
<1>20. ASSUME NEW w \in Workers, Work(w) \/ TaskFails(w) \/ WorkerKilled(w)
       PROVE  ClientHalf'
  <2>1. CASE Take(w) \/ Prove(w) \/ Audit(w)
    BY <1>2, <1>7, <2>1 DEF Take, Prove, Audit
  <2>2. CASE Return(w) \/ TaskFails(w)
    BY <1>18, <1>19, <2>2 DEF Return, TaskFails
  <2>3. CASE WorkerKilled(w)
    BY <1>18, <2>3 DEF WorkerKilled, Working
  <2> QED
    BY <1>20, <2>1, <2>2, <2>3 DEF Work
<1>21. CASE PoolDown \/ PoolUp \/ UNCHANGED vars
  BY <1>1, <1>2, <1>7, <1>21 DEF PoolDown, PoolUp, serverVars, vars
<1>22. ASSUME NEW leg \in Legs, \/ Handler(leg) \/ HandlerFails(leg)
                                \/ Poll(leg) \/ StreamEnds(leg) \/ ConnectionFails(leg)
       PROVE  ClientHalf'
  BY <1>9, <1>10, <1>11, <1>12, <1>13, <1>22 DEF HandlerFails
<1>23. ASSUME NEW v \in Voters, Cast(v) \/ Proceed(v) \/ CastEnds(v)
       PROVE  ClientHalf'
  BY <1>1, <1>14, <1>15, <1>23, CastKeeps
<1> QED
  BY <1>6, <1>8, <1>16, <1>17, <1>20, <1>21, <1>22, <1>23 DEF Next

-----------------------------------------------------------------------------
(* The workers *)

\* The types of what the workers read.
LEMMA WorkFacts ==
  ASSUME IInv
  PROVE  /\ JobIds = 1 .. Len(jobs) /\ Len(jobs) \in 0 .. MaxJobs /\ JobIds \subseteq 0 .. MaxJobs
         /\ \A id \in JobIds : jobs[id] \in Job
         /\ queue \in Seq(JobIds) /\ \A i \in DOMAIN queue : queue[i] \in JobIds
         /\ DOMAIN queue = 1 .. Len(queue) /\ Len(queue) \in Nat
         /\ \A w \in Workers : Working(w) <=> working[w].step # "rest"
<1>1. ClientHalf /\ WorkerHalf
  BY DEF IInv
<1>2. JobIds = 1 .. Len(jobs)
  BY DEF JobIds
<1>3. Len(jobs) \in Nat /\ Len(jobs) <= MaxJobs /\ MaxJobs \in Nat
  BY <1>1, PostsFinite DEF ClientHalf, RoomKept
<1>4. \A id \in JobIds : jobs[id] \in Job
  BY <1>1, ElementOfSeq DEF ClientHalf, JobIds
<1>5. queue \in Seq(JobIds)
  BY <1>1 DEF WorkerHalf, WorkerTypes
<1>6. ASSUME NEW S, NEW s \in Seq(S)
      PROVE  /\ \A i \in DOMAIN s : s[i] \in S
             /\ DOMAIN s = 1 .. Len(s) /\ Len(s) \in Nat
  BY <1>6, ElementOfSeq, LenProperties
<1>7. \A w \in Workers : Working(w) <=> working[w].step # "rest"
  BY <1>1 DEF Working, Resting, WorkerHalf, WorkersOwn
<1> QED
  BY <1>2, <1>3, <1>4, <1>5, <1>6, <1>7

\* A step that leaves jobs, queue and workers alone.
LEMMA SameWork ==
  ASSUME IInv, UNCHANGED <<eager, jobs, queue, working, audit>>, pool' \in BOOLEAN,
         faults' \in 0 .. MaxFaults,
         cache' \in [Workers \union {Api} -> SUBSET {"voice", "eligibility"}]
  PROVE  WorkerHalf'
<1>1. WorkerTypes'
  BY DEF IInv, WorkerHalf, WorkerTypes, JobIds
<1>2. WorkersOwn' /\ WorkersDiffer' /\ QueueOwns' /\ SucceededIsAudited'
  BY DEF IInv, WorkerHalf, WorkersOwn, WorkersDiffer, QueueOwns, SucceededIsAudited, Working, JobIds
<1> QED
  BY <1>1, <1>2 DEF WorkerHalf

\* A new job is nobody's, or is queued; one that ran in place is answered.
LEMMA AddedWork ==
  ASSUME IInv, NEW leg \in Legs, legs[leg].pc = "body", UNCHANGED <<eager, pool, working>>,
         NEW state \in {"PENDING", "SUCCESS", "FAILURE"},
         jobs' = Append(jobs, NewJob(leg, state)), Len(jobs') <= MaxJobs,
         \/ queue' = queue
         \/ state = "PENDING" /\ queue' = Append(queue, Len(jobs')),
         audit' \in {audit, audit \union {Len(jobs')}},
         state = "SUCCESS" => Len(jobs') \in audit',
         faults' \in 0 .. MaxFaults,
         cache' \in [Workers \union {Api} -> SUBSET {"voice", "eligibility"}]
  PROVE  WorkerHalf'
<1> DEFINE n == Len(jobs')
           job == NewJob(leg, state)
<1>1. WorkerHalf /\ ClientHalf
  BY DEF IInv
<1>2. job \in Job /\ job.state = state
  BY <1>1, LegFacts DEF NewJob, Job, ClientHalf, Going, Leg
<1> HIDE DEF job
<1>3. /\ n = Len(jobs) + 1 /\ jobs'[n] = job /\ n \in Nat
      /\ \A id \in JobIds : jobs'[id] = jobs[id]
  <2>1. jobs \in Seq(Job) /\ jobs' = Append(jobs, job)
    BY <1>1 DEF ClientHalf, job
  <2> QED
    BY <1>2, <2>1, AppendProperties, LenProperties DEF JobIds
<1>4. /\ JobIds' = JobIds \union {n} /\ n \notin JobIds /\ JobIds \subseteq JobIds'
  <2>1. JobIds' = 1 .. n /\ JobIds = 1 .. Len(jobs) /\ Len(jobs) \in Nat
    BY WorkFacts DEF JobIds
  <2> QED
    BY <1>3, <2>1
<1>5. \A i \in DOMAIN queue : queue[i] \in JobIds
  BY WorkFacts
<1> DEFINE added == state = "PENDING" /\ queue' = Append(queue, n)
<1>6. /\ queue' \in Seq(JobIds')
      /\ \A i \in DOMAIN queue' : \/ i \in DOMAIN queue /\ queue'[i] = queue[i]
                                  \/ added /\ i = Len(queue) + 1 /\ queue'[i] = n
  <2>1. ASSUME NEW S, NEW T, S \subseteq T, NEW s \in Seq(S), NEW e \in T
        PROVE  /\ s \in Seq(T) /\ Append(s, e) \in Seq(T)
               /\ \A i \in DOMAIN Append(s, e) : \/ i \in DOMAIN s /\ Append(s, e)[i] = s[i]
                                                 \/ i = Len(s) + 1 /\ Append(s, e)[i] = e
    BY <2>1, SeqDef, AppendProperties, LenProperties
  <2>2. queue \in Seq(JobIds) /\ n \in JobIds'
    BY <1>4, WorkFacts
  <2>3. /\ queue \in Seq(JobIds') /\ Append(queue, n) \in Seq(JobIds')
        /\ \A i \in DOMAIN Append(queue, n) :
             \/ i \in DOMAIN queue /\ Append(queue, n)[i] = queue[i]
             \/ i = Len(queue) + 1 /\ Append(queue, n)[i] = n
    BY <1>4, <2>1, <2>2
  <2>4. CASE queue' = queue
    BY <2>3, <2>4
  <2>5. CASE added
    BY <2>3, <2>5
  <2> QED
    BY <2>4, <2>5
<1> HIDE DEF n
<1>7. WorkerTypes'
  <2>1. audit' \subseteq JobIds'
    BY <1>1, <1>4 DEF WorkerHalf, WorkerTypes, n
  <2> QED
    BY <1>1, <1>6, <2>1 DEF WorkerHalf, WorkerTypes
<1>8. WorkersOwn' /\ WorkersDiffer'
  BY <1>1, <1>3, <1>4 DEF WorkerHalf, WorkersOwn, WorkersDiffer, Working, n
<1>9. QueueOwns'
  <2>1. ASSUME NEW i \in DOMAIN queue'
        PROVE  /\ jobs'[queue'[i]].state = "PENDING"
               /\ \A j \in DOMAIN queue' : queue'[i] = queue'[j] => i = j
               /\ \A w \in Workers : Working(w) => working[w].job # queue'[i]
    <3>1. \A w \in Workers : Working(w) => working[w].job \in JobIds
      BY <1>1 DEF WorkerHalf, WorkersOwn
    <3>2. CASE i \in DOMAIN queue /\ queue'[i] = queue[i]
      <4>1. queue[i] \in JobIds /\ queue[i] # n
        BY <1>4, <1>5, <3>2
      <4>2. jobs'[queue'[i]].state = "PENDING"
        <5>1. jobs[queue[i]].state = "PENDING"
          BY <1>1, <3>2 DEF WorkerHalf, QueueOwns
        <5>2. jobs'[queue[i]] = jobs[queue[i]]
          BY <1>3, <4>1
        <5> QED
          BY <3>2, <5>1, <5>2
      <4>3. ASSUME NEW j \in DOMAIN queue', queue'[i] = queue'[j]
            PROVE  i = j
        <5>1. j \in DOMAIN queue /\ queue'[j] = queue[j]
          BY <1>6, <3>2, <4>1, <4>3
        <5> QED
          BY <1>1, <3>2, <4>3, <5>1 DEF WorkerHalf, QueueOwns
      <4>4. \A w \in Workers : Working(w) => working[w].job # queue'[i]
        BY <1>1, <3>2 DEF WorkerHalf, QueueOwns
      <4> QED
        BY <4>2, <4>3, <4>4
    <3>3. CASE added /\ i = Len(queue) + 1 /\ queue'[i] = n
      <4>1. jobs'[queue'[i]].state = "PENDING"
        BY <1>2, <1>3, <3>3
      <4>2. ASSUME NEW j \in DOMAIN queue', queue'[i] = queue'[j]
            PROVE  i = j
        BY <1>4, <1>5, <1>6, <3>3, <4>2
      <4>3. \A w \in Workers : Working(w) => working[w].job # queue'[i]
        BY <1>4, <3>1, <3>3
      <4> QED
        BY <4>1, <4>2, <4>3
    <3> QED
      BY <1>6, <3>2, <3>3
  <2> QED
    BY <2>1 DEF QueueOwns, Working
<1>10. SucceededIsAudited'
  BY <1>1, <1>2, <1>3, <1>4 DEF WorkerHalf, SucceededIsAudited, n
<1> QED
  BY <1>7, <1>8, <1>9, <1>10 DEF WorkerHalf

\* The head of the queue goes to a worker that rests.
LEMMA TakenWork ==
  ASSUME IInv, NEW w \in Workers, Take(w)
  PROVE  WorkerHalf'
<1> DEFINE h == Head(queue)
<1>1. /\ WorkerHalf /\ queue # <<>> /\ working[w] = Resting /\ queue' = Tail(queue)
      /\ working' = [working EXCEPT ![w] = [job |-> h, step |-> "prove"]]
      /\ UNCHANGED <<eager, jobs, cache, audit, pool, faults>>
  BY DEF IInv, Take
<1>2. ASSUME NEW S, NEW s \in Seq(S), s # <<>>
      PROVE  /\ 1 \in DOMAIN s /\ Head(s) = s[1] /\ Tail(s) \in Seq(S)
             /\ \A i \in DOMAIN Tail(s) : i + 1 \in DOMAIN s /\ Tail(s)[i] = s[i + 1] /\ i \in Nat
                                          /\ i + 1 # 1
  BY <1>2, HeadTailProperties, EmptySeq, LenProperties
<1>3. /\ 1 \in DOMAIN queue /\ h = queue[1] /\ queue' \in Seq(JobIds)
      /\ \A i \in DOMAIN queue' : /\ i + 1 \in DOMAIN queue /\ queue'[i] = queue[i + 1]
                                  /\ i \in Nat /\ i + 1 # 1
  BY <1>1, <1>2, WorkFacts
<1>4. h \in JobIds /\ h \in 0 .. MaxJobs
  BY <1>3, WorkFacts
<1> HIDE DEF h
<1>5. /\ working' \in [Workers -> [job : 0 .. MaxJobs, step : {"rest", "prove", "audit", "return"}]]
      /\ working'[w].job = h /\ working'[w].step = "prove"
      /\ \A x \in Workers \ {w} : working'[x] = working[x]
  BY <1>1, <1>4 DEF WorkerHalf, WorkerTypes
<1>6. WorkerTypes'
  BY <1>1, <1>3, <1>5 DEF WorkerHalf, WorkerTypes, JobIds
<1>7. JobIds' = JobIds
  BY <1>1 DEF JobIds
<1>8. /\ jobs[h].state = "PENDING"
      /\ \A x \in Workers : Working(x) => working[x].job # h
      /\ \A i \in DOMAIN queue : queue[i] = h => i = 1
  BY <1>1, <1>3 DEF WorkerHalf, QueueOwns
<1>9. WorkersOwn'
  BY <1>1, <1>4, <1>5, <1>7, <1>8 DEF WorkerHalf, WorkersOwn, Working
<1>10. WorkersDiffer'
  BY <1>1, <1>5, <1>8 DEF WorkerHalf, WorkersDiffer, Working
<1>11. QueueOwns'
  <2>1. ASSUME NEW i \in DOMAIN queue'
        PROVE  /\ jobs[queue'[i]].state = "PENDING"
               /\ \A j \in DOMAIN queue' : queue'[i] = queue'[j] => i = j
               /\ \A x \in Workers : Working(x)' => working'[x].job # queue'[i]
    <3>1. jobs[queue'[i]].state = "PENDING"
      BY <1>1, <1>3 DEF WorkerHalf, QueueOwns
    <3>2. ASSUME NEW j \in DOMAIN queue', queue'[i] = queue'[j]
          PROVE  i = j
      <4>1. i + 1 = j + 1
        BY <1>1, <1>3, <3>2 DEF WorkerHalf, QueueOwns
      <4> QED
        BY <1>3, <4>1
    <3>3. queue'[i] # h
      BY <1>3, <1>8
    <3>4. ASSUME NEW x \in Workers, Working(x)'
          PROVE  working'[x].job # queue'[i]
      <4>1. CASE x = w
        BY <1>5, <3>3, <4>1
      <4>2. CASE x # w
        BY <1>1, <1>3, <1>5, <3>4, <4>2 DEF WorkerHalf, QueueOwns, Working
      <4> QED
        BY <4>1, <4>2
    <3> QED
      BY <3>1, <3>2, <3>4
  <2> QED
    BY <1>1, <2>1 DEF QueueOwns
<1>12. SucceededIsAudited'
  BY <1>1, <1>7 DEF WorkerHalf, SucceededIsAudited
<1> QED
  BY <1>6, <1>9, <1>10, <1>11, <1>12 DEF WorkerHalf

\* A worker goes on with its job.
LEMMA NextStep ==
  ASSUME IInv, NEW w \in Workers, Working(w), NEW step \in {"prove", "audit", "return"},
         working' = [working EXCEPT ![w].step = step],
         UNCHANGED <<eager, jobs, queue, pool, faults>>,
         audit' \in {audit, audit \union {working[w].job}},
         step = "return" => working[w].job \in audit',
         cache' \in [Workers \union {Api} -> SUBSET {"voice", "eligibility"}]
  PROVE  WorkerHalf'
<1>1. WorkerHalf /\ JobIds' = JobIds /\ working[w].job \in JobIds
  BY DEF IInv, WorkerHalf, WorkersOwn, JobIds
<1>2. /\ working' \in [Workers -> [job : 0 .. MaxJobs, step : {"rest", "prove", "audit", "return"}]]
      /\ working'[w].job = working[w].job /\ working'[w].step = step
      /\ \A x \in Workers \ {w} : working'[x] = working[x]
  BY <1>1 DEF WorkerHalf, WorkerTypes
<1>3. WorkerTypes'
  BY <1>1, <1>2 DEF WorkerHalf, WorkerTypes
<1>4. ASSUME NEW x \in Workers
      PROVE  working'[x].job = working[x].job /\ (Working(x)' => Working(x))
  BY <1>2 DEF Working
<1>5. WorkersOwn'
  BY <1>1, <1>2, <1>4 DEF WorkerHalf, WorkersOwn
<1>6. WorkersDiffer' /\ QueueOwns' /\ SucceededIsAudited'
  BY <1>1, <1>4 DEF WorkerHalf, WorkersDiffer, QueueOwns, SucceededIsAudited
<1> QED
  BY <1>3, <1>5, <1>6 DEF WorkerHalf

\* A worker's job is answered, and the worker rests.
LEMMA StoredWork ==
  ASSUME IInv, NEW w \in Workers, Working(w), NEW state \in {"SUCCESS", "FAILURE"},
         Store(w, state), UNCHANGED queue,
         audit' \in {audit, audit \union {working[w].job}},
         state = "SUCCESS" => working[w].job \in audit',
         faults' \in 0 .. MaxFaults,
         cache' \in [Workers \union {Api} -> SUBSET {"voice", "eligibility"}]
  PROVE  WorkerHalf'
<1> DEFINE j == working[w].job
<1>1. WorkerHalf /\ ClientHalf /\ j \in JobIds
  BY DEF IInv, WorkerHalf, WorkersOwn
<1>2. /\ JobIds' = JobIds /\ jobs'[j].state = state
      /\ \A id \in JobIds : id # j => jobs'[id] = jobs[id]
  BY <1>1, StoreKeeps DEF Store, JobsKept, JobIds
<1>3. working' = [working EXCEPT ![w] = Resting] /\ UNCHANGED <<eager, pool>>
  BY DEF Store
<1>4. Resting \in [job : 0 .. MaxJobs, step : {"rest", "prove", "audit", "return"}]
  BY ServiceAssumption DEF Resting, NoJob
<1>5. /\ working' \in [Workers -> [job : 0 .. MaxJobs, step : {"rest", "prove", "audit", "return"}]]
      /\ working'[w] = Resting /\ \A x \in Workers \ {w} : working'[x] = working[x]
  BY <1>1, <1>3, <1>4 DEF WorkerHalf, WorkerTypes
<1>6. WorkerTypes'
  BY <1>1, <1>2, <1>3, <1>5 DEF WorkerHalf, WorkerTypes
<1>7. ASSUME NEW x \in Workers, Working(x)'
      PROVE  Working(x) /\ x # w /\ working'[x] = working[x] /\ working[x].job # j
  BY <1>1, <1>5, <1>7 DEF Working, WorkerHalf, WorkersDiffer
<1>8. WorkersOwn'
  BY <1>1, <1>2, <1>7 DEF WorkerHalf, WorkersOwn
<1>9. WorkersDiffer'
  BY <1>1, <1>7 DEF WorkerHalf, WorkersDiffer
<1>10. QueueOwns'
  <2>1. \A i \in DOMAIN queue : queue[i] # j /\ queue[i] \in JobIds
    BY <1>1, WorkFacts DEF WorkerHalf, QueueOwns
  <2> QED
    BY <1>1, <1>2, <1>7, <2>1 DEF WorkerHalf, QueueOwns
<1>11. SucceededIsAudited'
  BY <1>1, <1>2 DEF WorkerHalf, SucceededIsAudited
<1> QED
  BY <1>6, <1>8, <1>9, <1>10, <1>11 DEF WorkerHalf

\* Every step keeps the half of the workers.
LEMMA StepWorkers == IInv /\ [Next]_vars => WorkerHalf'
<1> SUFFICES ASSUME IInv, [Next]_vars PROVE WorkerHalf'
  OBVIOUS
<1> DEFINE Caches == [Workers \union {Api} -> SUBSET {"voice", "eligibility"}]
<1>1. /\ ClientHalf /\ WorkerHalf /\ faults \in 0 .. MaxFaults /\ pool \in BOOLEAN /\ cache \in Caches
      /\ Fault => faults' \in 0 .. MaxFaults
  BY ServiceAssumption DEF IInv, WorkerHalf, WorkerTypes, Fault
<1>2. ASSUME UNCHANGED <<eager, jobs, queue, working, audit, cache>>, pool' \in BOOLEAN,
             faults' \in 0 .. MaxFaults
      PROVE  WorkerHalf'
  BY <1>1, <1>2, SameWork
<1>3. ASSUME NEW p \in Workers \union {Api}, NEW S \in SUBSET {"voice", "eligibility"}
      PROVE  [cache EXCEPT ![p] = S] \in Caches
  BY <1>1
<1>4. CASE Midnight
  BY <1>1, <1>2, <1>4 DEF Midnight, serverVars
<1>5. CASE ApiRestart
  BY <1>1, <1>3, <1>5, SameWork DEF ApiRestart
<1>6. CASE PoolDown
  <2>1. /\ working' = [w \in Workers |-> Resting] /\ pool' = FALSE
        /\ UNCHANGED <<eager, jobs, queue, audit>>
        /\ cache' = [p \in DOMAIN cache |-> IF p = Api THEN cache[Api] ELSE {}]
    BY <1>6 DEF PoolDown
  <2>2. Resting \in [job : 0 .. MaxJobs, step : {"rest", "prove", "audit", "return"}]
    BY ServiceAssumption DEF Resting, NoJob
  <2>3. JobIds' = JobIds /\ \A w \in Workers : ~ Working(w)'
    BY <2>1 DEF JobIds, Working
  <2>4. cache' \in Caches
    BY <1>1, <2>1
  <2>5. WorkerTypes'
    <3>1. faults' \in 0 .. MaxFaults
      BY <1>1, <1>6 DEF PoolDown
    <3>2. working' \in [Workers -> [job : 0 .. MaxJobs, step : {"rest", "prove", "audit", "return"}]]
      BY <2>1, <2>2
    <3> QED
      BY <1>1, <2>1, <2>3, <2>4, <3>1, <3>2 DEF WorkerHalf, WorkerTypes
  <2> QED
    BY <1>1, <2>1, <2>3, <2>5
    DEF WorkerHalf, WorkersOwn, WorkersDiffer, QueueOwns, SucceededIsAudited
<1>7. CASE PoolUp \/ UNCHANGED vars
  BY <1>1, <1>2, <1>7 DEF PoolUp, serverVars, vars
<1>8. ASSUME NEW leg \in Legs, Charge(leg) \/ AnswerFromCache(leg) \/ PostFails(leg)
                               \/ Poll(leg) \/ StreamEnds(leg) \/ ConnectionFails(leg)
      PROVE  WorkerHalf'
  BY <1>1, <1>2, <1>8
  DEF Charge, AnswerFromCache, PostFails, Poll, StreamEnds, ConnectionFails, serverVars
<1>9. ASSUME NEW leg \in Legs, Enqueue(leg) \/ RunInPlace(leg) \/ RunInPlaceFails(leg)
      PROVE  WorkerHalf'
  <2>1. /\ legs[leg].pc = "body" /\ UNCHANGED <<day, used, eager, pool, working>>
        /\ Accept(leg, Len(jobs')) /\ faults' \in 0 .. MaxFaults
    BY <1>1, <1>9 DEF Enqueue, RunInPlace, RunInPlaceFails
  <2>2. PICK state \in {"PENDING", "SUCCESS", "FAILURE"} :
          /\ jobs' = Append(jobs, NewJob(leg, state))
          /\ \/ queue' = queue
             \/ state = "PENDING" /\ queue' = Append(queue, Len(jobs'))
          /\ audit' \in {audit, audit \union {Len(jobs')}}
          /\ state = "SUCCESS" => Len(jobs') \in audit'
          /\ cache' \in {cache, [cache EXCEPT ![Api] = @ \union {leg[2]}]}
    <3>1. CASE Enqueue(leg)
      BY <3>1 DEF Enqueue
    <3>2. CASE RunInPlace(leg)
      BY <3>2 DEF RunInPlace
    <3>3. CASE RunInPlaceFails(leg)
      BY <3>3 DEF RunInPlaceFails
    <3> QED
      BY <1>9, <3>1, <3>2, <3>3
  <2>3. cache[Api] \union {leg[2]} \in SUBSET {"voice", "eligibility"}
    BY <1>1, LegFacts
  <2>4. cache' \in Caches
    BY <1>1, <1>3, <2>2, <2>3
  <2>5. Len(jobs') <= MaxJobs
    BY <1>1, <2>1, <2>2, AcceptKeeps
  <2> QED
    BY <2>1, <2>2, <2>4, <2>5, AddedWork
<1>10. ASSUME NEW v \in Voters, Cast(v) \/ Proceed(v) \/ CastEnds(v)
       PROVE  WorkerHalf'
  BY <1>1, <1>2, <1>10 DEF Cast, Proceed, CastEnds, serverVars
<1>11. ASSUME NEW p \in Pages, PageStarts(p) \/ PageGoesOn(p)
       PROVE  WorkerHalf'
  BY <1>1, <1>2, <1>11 DEF PageStarts, PageGoesOn, serverVars
<1>12. ASSUME NEW w \in Workers, Work(w)
       PROVE  WorkerHalf'
  <2>1. CASE Prove(w)
    <3>1. Working(w) /\ working[w].job \in JobIds
      BY <1>1, <2>1 DEF Prove, Working, Resting, WorkerHalf, WorkersOwn
    <3>2. cache[w] \union {jobs[working[w].job].inputs} \in SUBSET {"voice", "eligibility"}
      BY <1>1, <3>1, WorkFacts DEF Job
    <3>3. cache' \in Caches
      BY <1>3, <2>1, <3>2 DEF Prove
    <3> QED
      BY <2>1, <3>1, <3>3, NextStep DEF Prove
  <2>2. CASE Audit(w)
    <3>1. Working(w)
      BY <2>2 DEF Audit, Working, Resting
    <3> QED
      BY <1>1, <2>2, <3>1, NextStep DEF Audit
  <2>3. CASE Return(w)
    <3>1. Working(w) /\ working[w].job \in audit
      BY <1>1, <2>3 DEF Return, Working, Resting, WorkerHalf, WorkersOwn
    <3> QED
      BY <1>1, <2>3, <3>1, StoredWork DEF Return
  <2> QED
    BY <1>12, <2>1, <2>2, <2>3, TakenWork DEF Work
<1>13. ASSUME NEW w \in Workers, TaskFails(w)
       PROVE  WorkerHalf'
  <2>1. Working(w)
    BY <1>13 DEF TaskFails, Working, Resting
  <2> QED
    BY <1>1, <1>13, <2>1, StoredWork DEF TaskFails
<1>14. ASSUME NEW w \in Workers, WorkerKilled(w)
       PROVE  WorkerHalf'
  BY <1>1, <1>3, <1>14, StoredWork DEF WorkerKilled, Working
<1>15. ASSUME NEW leg \in Legs, \/ Handler(leg) \/ HandlerFails(leg)
                                \/ Poll(leg) \/ StreamEnds(leg) \/ ConnectionFails(leg)
       PROVE  WorkerHalf'
  BY <1>8, <1>9, <1>15 DEF Handler, HandlerFails
<1> QED
  BY <1>4, <1>5, <1>6, <1>7, <1>10, <1>11, <1>12, <1>13, <1>14, <1>15 DEF Next

-----------------------------------------------------------------------------
(* The theorems *)

\* A service that starts has no job, no charge and idle workers.
LEMMA InitIInv == Init => IInv
<1> SUFFICES ASSUME Init PROVE IInv
  OBVIOUS
<1>1. /\ used = [u \in Users |-> [d \in Days |-> 0]] /\ jobs = <<>> /\ queue = <<>>
      /\ working = [w \in Workers |-> Resting] /\ legs = [leg \in Legs |-> Idle]
      /\ audit = {} /\ cache = [p \in Workers \union {Api} |-> {}]
  BY DEF Init
<1>2. JobIds = {} /\ Len(jobs) = 0 /\ jobs \in Seq(Job) /\ queue \in Seq(JobIds)
      /\ DOMAIN queue = {}
  BY <1>1 DEF JobIds
<1>3. Posts = {} /\ \A u, d : JobsOf(u, d) = {} /\ Bodies(u, d) = {}
  BY <1>1, <1>2, OverTypes DEF Posts, JobsOf, Bodies
<1>4. IsFiniteSet({}) /\ Cardinality({}) = 0
  BY FS_EmptySet
<1>5. RoomKept
  BY <1>2, <1>3, <1>4, ServiceAssumption DEF RoomKept
<1>6. JobsWithinQuota
  <2>1. ASSUME NEW u \in Users, NEW d \in Days
        PROVE  /\ used[u][d] <= Quota \/ used[u][d] = 1
               /\ Cardinality(JobsOf(u, d)) + Cardinality(Bodies(u, d)) <= used[u][d]
    <3>1. used[u][d] = 0
      BY <1>1
    <3>2. Cardinality(JobsOf(u, d)) = 0 /\ Cardinality(Bodies(u, d)) = 0
      BY <1>3, <1>4
    <3> QED
      BY <3>1, <3>2, ServiceAssumption
  <2> QED
    BY <2>1 DEF JobsWithinQuota, JobsOf, Bodies
<1>7. ClientHalf
  BY <1>1, <1>2, <1>5, <1>6, OverTypes, ServiceAssumption DEF Init, ClientHalf, Days
<1>8. Resting \in [job : 0 .. MaxJobs, step : {"rest", "prove", "audit", "return"}]
  BY ServiceAssumption DEF Resting, NoJob
<1>9. WorkerTypes
  BY <1>1, <1>2, <1>8, ServiceAssumption DEF Init, WorkerTypes
<1>10. \A w \in Workers : ~ Working(w)
  BY <1>1 DEF Working
<1> QED
  BY <1>2, <1>7, <1>9, <1>10
  DEF IInv, WorkerHalf, WorkersOwn, WorkersDiffer, QueueOwns, SucceededIsAudited

\* Every step keeps the invariant.
LEMMA StepIInv == IInv /\ [Next]_vars => IInv'
  BY StepClients, StepWorkers DEF IInv

\* The inductive invariant of the service and its clients.
THEOREM Invariance == Spec => []IInv
  BY InitIInv, StepIInv, PTL DEF Spec

\* Rows, jobs, caches and requests are what the code can make them; no page ever
\* has a job beyond the room it saw.
THEOREM TypeCorrect == Spec => []TypeOK
<1>1. IInv => TypeOK
  <2> SUFFICES ASSUME IInv PROVE TypeOK
    OBVIOUS
  <2>1. legs \in [Legs -> Leg]
    BY DEF IInv, ClientHalf, Going
  <2>2. Len(jobs) <= MaxJobs
    BY WorkFacts
  <2> QED
    BY <2>1, <2>2 DEF IInv, ClientHalf, WorkerHalf, WorkerTypes, TypeOK
<1> QED
  BY <1>1, Invariance, PTL

\* The quota of post_proof_generic holds whatever happens between its upsert and
\* the job: no user has more jobs in a day than charged, nor more than the quota.
THEOREM QuotaHolds == Spec => []JobsWithinQuota
<1>1. IInv => JobsWithinQuota
  BY DEF IInv, ClientHalf
<1> QED
  BY <1>1, Invariance, PTL

\* A job that succeeded has its row in proof_audit.
THEOREM SuccessIsAudited == Spec => []SucceededIsAudited
<1>1. IInv => SucceededIsAudited
  BY DEF IInv, WorkerHalf
<1> QED
  BY <1>1, Invariance, PTL

\* A job is answered once: only its worker stores an answer, and it has one worker.
THEOREM AnswersStand == Spec => AnswerStands
<1> DEFINE Stands == \A id \in JobIds : jobs[id].state # "PENDING" => jobs'[id] = jobs[id]
<1>1. IInv /\ [Next]_vars => [Stands]_jobs
  <2> SUFFICES ASSUME IInv, [Next]_vars, NEW id \in JobIds, jobs[id].state # "PENDING",
                      jobs' # jobs
               PROVE  jobs'[id] = jobs[id]
    OBVIOUS
  <2>1. ASSUME NEW leg \in Legs, NEW state \in {"PENDING", "SUCCESS", "FAILURE"},
               jobs' = Append(jobs, NewJob(leg, state))
        PROVE  jobs'[id] = jobs[id]
    <3>1. jobs \in Seq(Job) /\ NewJob(leg, state) \in Job
      BY LegFacts DEF NewJob, Job, IInv, ClientHalf, Going, Leg
    <3> QED
      BY <2>1, <3>1, AppendProperties DEF JobIds
  <2>2. ASSUME NEW w \in Workers, Working(w), NEW state \in {"PENDING", "SUCCESS", "FAILURE"},
               Store(w, state)
        PROVE  jobs'[id] = jobs[id]
    <3>1. working[w].job \in JobIds /\ jobs[working[w].job].state = "PENDING"
      BY <2>2 DEF IInv, WorkerHalf, WorkersOwn
    <3> QED
      BY <2>2, <3>1, StoreKeeps DEF Store, IInv
  <2>3. ASSUME NEW w \in Workers, Work(w) \/ TaskFails(w) \/ WorkerKilled(w)
        PROVE  jobs'[id] = jobs[id]
    <3>1. Return(w) \/ TaskFails(w) => Working(w)
      BY DEF Return, TaskFails, Working, Resting
    <3> QED
      BY <2>2, <2>3, <3>1 DEF Work, Take, Prove, Audit, Return, TaskFails, WorkerKilled, Working
  <2>4. ASSUME NEW leg \in Legs, \/ Handler(leg) \/ HandlerFails(leg)
                                 \/ Poll(leg) \/ StreamEnds(leg) \/ ConnectionFails(leg)
        PROVE  jobs'[id] = jobs[id]
    BY <2>1, <2>4
    DEF Handler, HandlerFails, Charge, AnswerFromCache, Enqueue, RunInPlace, RunInPlaceFails,
        PostFails, Poll, StreamEnds, ConnectionFails, serverVars
  <2> QED
    BY <2>3, <2>4
    DEF Next, Midnight, ApiRestart, PoolDown, PoolUp, Cast, Proceed, CastEnds, PageStarts,
        PageGoesOn, serverVars, vars
<1> QED
  BY <1>1, Invariance, PTL DEF Spec, AnswerStands
=============================================================================
