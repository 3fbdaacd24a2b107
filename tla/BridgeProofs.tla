---------------------------- MODULE BridgeProofs ----------------------------
(***************************************************************************)
(* Theorems about AlertBridge, for any groups and any number of changes,   *)
(* failures and rotations.                                                 *)
(***************************************************************************)
EXTENDS AlertBridge, SequenceTheorems, TLAPS

TypeOK ==
    /\ group \in [Groups -> Nat]
    /\ acked \in [Groups -> Nat]
    /\ waiting \in [Groups -> BOOLEAN]
    /\ backlog \in Seq(Requests)
    /\ job \in Jobs \cup {NoJob}
    /\ secret \in Nat
    /\ shown \in [Groups -> Seq(Nat)]

\* Only a group's request gets past the first checks.
JobIsOfAGroup == job # NoJob => job.request.from \in Groups

-----------------------------------------------------------------------------
(* A request that is given up stays what it was, for nobody.               *)

Abandoned(request, g) == [request EXCEPT !.open = @ /\ request.from # g]

LEMMA AbandonedIsARequest ==
    ASSUME NEW request \in Requests, NEW g
    PROVE  /\ Abandoned(request, g) \in Requests
           /\ Abandoned(request, g).from = request.from
           /\ Abandoned(request, g).state = request.state
<1> DEFINE isOpen == request.open /\ request.from # g
<1>1. isOpen \in BOOLEAN
  OBVIOUS
<1>2. Abandoned(request, g) = [request EXCEPT !.open = isOpen]
  BY DEF Abandoned
<1> HIDE DEF isOpen
<1>3. QED
  BY <1>1, <1>2 DEF Requests

LEMMA GiveUpAbandons ==
    ASSUME TypeOK, NEW g \in Groups, GiveUp(g)
    PROVE  /\ backlog' \in Seq(Requests) /\ Len(backlog') = Len(backlog)
           /\ \A k \in 1..Len(backlog) : /\ backlog'[k].from = backlog[k].from
                                         /\ backlog'[k].state = backlog[k].state
           /\ job' \in Jobs \cup {NoJob}
           /\ job' = NoJob <=> job = NoJob
           /\ job # NoJob => /\ job'.request.from = job.request.from
                             /\ job'.request.state = job.request.state
                             /\ job'.token = job.token
<1>1. backlog \in Seq(Requests) /\ Len(backlog) \in Nat /\ DOMAIN backlog = 1..Len(backlog)
  BY DEF TypeOK
<1>2. backlog' = [i \in 1..Len(backlog) |-> Abandoned(backlog[i], g)]
  BY <1>1 DEF GiveUp, Abandoned
<1>3. \A k \in 1..Len(backlog) : backlog[k] \in Requests
  BY <1>1
<1>4. \A k \in 1..Len(backlog) : Abandoned(backlog[k], g) \in Requests
  BY <1>3, AbandonedIsARequest
<1>5. backlog' \in [1..Len(backlog) -> Requests]
  BY <1>2, <1>4
<1>6. backlog' \in Seq(Requests) /\ Len(backlog') = Len(backlog)
  BY <1>1, <1>5
<1>7. \A k \in 1..Len(backlog) : /\ backlog'[k].from = backlog[k].from
                                 /\ backlog'[k].state = backlog[k].state
  BY <1>2, <1>3, AbandonedIsARequest
<1>8. ASSUME job # NoJob
      PROVE  /\ job' \in Jobs /\ job' # NoJob
             /\ job'.request.from = job.request.from
             /\ job'.request.state = job.request.state
             /\ job'.token = job.token
  <2>1. job \in Jobs /\ job.request \in Requests
    BY <1>8 DEF TypeOK, Jobs
  <2>2. job' = [job EXCEPT !.request = Abandoned(job.request, g)]
    BY <1>8 DEF GiveUp, Abandoned
  <2>3. job' \in Jobs
    BY <2>1, <2>2, AbandonedIsARequest DEF Jobs
  <2>4. job'.request = Abandoned(job.request, g) /\ job'.token = job.token
    BY <2>1, <2>2 DEF Jobs
  <2>5. job'.request.from = job.request.from /\ job'.request.state = job.request.state
    BY <2>1, <2>4, AbandonedIsARequest
  <2>6. QED
    BY <2>3, <2>4, <2>5, BridgeAssumption
<1>9. job = NoJob => job' = NoJob
  BY DEF GiveUp
<1>10. QED
  BY <1>6, <1>7, <1>8, <1>9

LEMMA RespondTypes ==
    ASSUME TypeOK, NEW request \in Requests, NEW status, Respond(request, status)
    PROVE  waiting' \in [Groups -> BOOLEAN] /\ acked' \in [Groups -> Nat] /\ job' = NoJob
<1>1. CASE request.from # Stray /\ request.open
  <2>1. request.from \in Groups /\ request.state \in Nat
    BY <1>1 DEF Requests
  <2>2. waiting' = [waiting EXCEPT ![request.from] = FALSE]
    BY <1>1 DEF Respond
  <2>3. acked' = acked \/ acked' = [acked EXCEPT ![request.from] = request.state]
    BY <1>1 DEF Respond
  <2>4. waiting' \in [Groups -> BOOLEAN]
    BY <2>2 DEF TypeOK
  <2>5. acked' \in [Groups -> Nat]
    BY <2>1, <2>3 DEF TypeOK
  <2>6. QED
    BY <2>4, <2>5 DEF Respond
<1>2. CASE ~(request.from # Stray /\ request.open)
  BY <1>2 DEF Respond, TypeOK
<1>3. QED
  BY <1>1, <1>2

LEMMA TypeStarts == Init => TypeOK /\ JobIsOfAGroup
BY DEF Init, TypeOK, JobIsOfAGroup

LEMMA TypeSteps == TypeOK /\ JobIsOfAGroup /\ [Next]_bridgeVars => TypeOK' /\ JobIsOfAGroup'
<1> SUFFICES ASSUME TypeOK, JobIsOfAGroup, [Next]_bridgeVars
             PROVE  TypeOK' /\ JobIsOfAGroup'
  OBVIOUS
<1> DEFINE Kept == TypeOK' /\ JobIsOfAGroup'
<1>1. ASSUME NEW g \in Groups, Change(g)
      PROVE  Kept
  BY <1>1 DEF Change, TypeOK, JobIsOfAGroup
<1>2. ASSUME NEW g \in Groups, Post(g)
      PROVE  Kept
  <2> DEFINE r == [from |-> g, state |-> group[g], open |-> TRUE]
  <2>1. r \in Requests
    BY DEF TypeOK, Requests
  <2>2. Append(backlog, r) \in Seq(Requests)
    BY <2>1, AppendProperties DEF TypeOK
  <2>3. waiting' \in [Groups -> BOOLEAN]
    BY <1>2 DEF Post, TypeOK
  <2>4. QED
    BY <1>2, <2>2, <2>3 DEF Post, TypeOK, JobIsOfAGroup
<1>3. ASSUME NEW g \in Groups, GiveUp(g)
      PROVE  Kept
  <2>1. waiting' \in [Groups -> BOOLEAN] /\ UNCHANGED <<group, acked, secret, shown>>
    BY <1>3 DEF GiveUp, TypeOK
  <2>2. QED
    BY <1>3, <2>1, GiveUpAbandons DEF TypeOK, JobIsOfAGroup
<1>4. ASSUME LoadSecret
      PROVE  Kept
  BY <1>4 DEF LoadSecret, TypeOK, JobIsOfAGroup
<1>5. ASSUME StrayRequest
      PROVE  Kept
  <2> DEFINE r == [from |-> Stray, state |-> 0, open |-> TRUE]
  <2>1. r \in Requests
    BY DEF Requests
  <2>2. Append(backlog, r) \in Seq(Requests)
    BY <2>1, AppendProperties DEF TypeOK
  <2>3. QED
    BY <1>5, <2>2 DEF StrayRequest, TypeOK, JobIsOfAGroup
<1>6. ASSUME TakeRequest
      PROVE  Kept
  <2>1. Head(backlog) \in Requests /\ Tail(backlog) \in Seq(Requests)
    BY <1>6, HeadTailProperties DEF TakeRequest, TypeOK
  <2>2. backlog' = Tail(backlog) /\ UNCHANGED <<group, secret, shown>>
    BY <1>6 DEF TakeRequest
  <2>3. CASE Head(backlog).from = Stray
    <3>1. PICK status \in {400, 404} : Respond(Head(backlog), status)
      BY <1>6, <2>3 DEF TakeRequest
    <3>2. waiting' \in [Groups -> BOOLEAN] /\ acked' \in [Groups -> Nat] /\ job' = NoJob
      BY <2>1, <3>1, RespondTypes
    <3>3. QED
      BY <2>1, <2>2, <3>2 DEF TypeOK, JobIsOfAGroup
  <2>4. CASE Head(backlog).from # Stray
    <3>1. /\ job' = [request |-> Head(backlog), token |-> 0]
          /\ UNCHANGED <<waiting, acked>>
      BY <1>6, <2>4 DEF TakeRequest
    <3>2. job' \in Jobs /\ job'.request.from \in Groups
      BY <2>1, <2>4, <3>1 DEF Jobs, Requests
    <3>3. QED
      BY <2>1, <2>2, <3>1, <3>2 DEF TypeOK, JobIsOfAGroup
  <2>5. QED
    BY <2>3, <2>4
<1>7. ASSUME ReadCredentials
      PROVE  Kept
  <2>1. job \in Jobs /\ job # NoJob /\ job.request \in Requests /\ UNCHANGED <<group, backlog, secret, shown>>
    BY <1>7 DEF ReadCredentials, TypeOK, Jobs
  <2>2. CASE job' = [job EXCEPT !.token = secret] /\ UNCHANGED <<waiting, acked>>
    <3>1. job' \in Jobs /\ job'.request = job.request
      BY <2>1, <2>2 DEF TypeOK, Jobs
    <3>2. QED
      BY <2>1, <2>2, <3>1 DEF TypeOK, JobIsOfAGroup
  <2>3. CASE \E status \in {503, NoResponse} : Respond(job.request, status)
    <3>1. waiting' \in [Groups -> BOOLEAN] /\ acked' \in [Groups -> Nat] /\ job' = NoJob
      BY <2>1, <2>3, RespondTypes
    <3>2. QED
      BY <2>1, <3>1 DEF TypeOK, JobIsOfAGroup
  <2>4. QED
    BY <1>7, <2>2, <2>3 DEF ReadCredentials
<1>8. ASSUME Send
      PROVE  Kept
  <2>1. job \in Jobs /\ job # NoJob /\ job.request \in Requests /\ UNCHANGED <<group, backlog, secret>>
    BY <1>8 DEF Send, TypeOK, Jobs
  <2>2. PICK status \in {200, 502} : Respond(job.request, status)
    BY <1>8 DEF Send
  <2>3. waiting' \in [Groups -> BOOLEAN] /\ acked' \in [Groups -> Nat] /\ job' = NoJob
    BY <2>1, <2>2, RespondTypes
  <2>4. shown' \in [Groups -> Seq(Nat)]
    <3> DEFINE g == job.request.from
               s == Append(shown[g], job.request.state)
    <3>1. g \in Groups /\ job.request.state \in Nat
      BY <2>1 DEF JobIsOfAGroup, Requests
    <3>2. s \in Seq(Nat)
      <4>1. shown[g] \in Seq(Nat)
        BY <3>1 DEF TypeOK
      <4>2. QED
        BY <3>1, <4>1, AppendProperties
    <3>3. shown' = shown \/ shown' = [shown EXCEPT ![g] = s]
      BY <1>8 DEF Send
    <3>4. CASE shown' = shown
      BY <3>4 DEF TypeOK
    <3>5. CASE shown' = [shown EXCEPT ![g] = s]
      <4> HIDE DEF g, s
      <4>1. QED
        BY <3>1, <3>2, <3>5 DEF TypeOK
    <3>6. QED
      BY <3>3, <3>4, <3>5
  <2>5. QED
    BY <2>1, <2>3, <2>4 DEF TypeOK, JobIsOfAGroup
<1>9. ASSUME Restart
      PROVE  Kept
  BY <1>9 DEF Restart, TypeOK, JobIsOfAGroup
<1>10. ASSUME UNCHANGED bridgeVars
       PROVE  Kept
  BY <1>10 DEF bridgeVars, TypeOK, JobIsOfAGroup
<1> HIDE DEF Kept
<1>11. Kept
  BY <1>1, <1>2, <1>3, <1>4, <1>5, <1>6, <1>7, <1>8, <1>9, <1>10 DEF Next, Serve, Idle
<1>12. QED
  BY <1>11 DEF Kept
-----------------------------------------------------------------------------
(* The order of the messages.                                              *)

\* Nothing about the group that is on its way, or will be, is older than n.
NotAfter(n, g, state, requests) ==
    /\ n =< state[g]
    /\ \A k \in 1..Len(requests) : requests[k].from = g => n =< requests[k].state

BacklogInOrder ==
    \A k \in 1..Len(backlog) :
        backlog[k].from \in Groups =>
            /\ backlog[k].state =< group[backlog[k].from]
            /\ \A l \in (k + 1)..Len(backlog) :
                   backlog[l].from = backlog[k].from => backlog[k].state =< backlog[l].state

JobIsNext == job # NoJob => NotAfter(job.request.state, job.request.from, group, backlog)

ShownIsPast ==
    \A g \in Groups : \A i \in 1..Len(shown[g]) :
        /\ NotAfter(shown[g][i], g, group, backlog)
        /\ (job # NoJob /\ job.request.from = g) => shown[g][i] =< job.request.state

OrderInv == TypeOK /\ JobIsOfAGroup /\ BacklogInOrder /\ JobIsNext /\ ShownIsPast /\ NewestLast

\* What a step does to the requests that wait: none, one more, one less, or
\* they are all lost.
SameRequests ==
    /\ Len(backlog') = Len(backlog)
    /\ \A k \in 1..Len(backlog) : /\ backlog'[k].from = backlog[k].from
                                  /\ backlog'[k].state = backlog[k].state

OneMore ==
    /\ Len(backlog') = Len(backlog) + 1
    /\ \A k \in 1..Len(backlog) : backlog'[k] = backlog[k]
    /\ \/ backlog'[Len(backlog) + 1].from = Stray
       \/ /\ backlog'[Len(backlog) + 1].from \in Groups
          /\ backlog'[Len(backlog) + 1].state = group[backlog'[Len(backlog) + 1].from]

OneLess ==
    /\ Len(backlog') = Len(backlog) - 1
    /\ \A k \in 1..Len(backlog') : backlog'[k] = backlog[k + 1]

LEMMA BacklogMoves ==
    ASSUME TypeOK, [Next]_bridgeVars
    PROVE  /\ \A g \in Groups : group'[g] >= group[g]
           /\ SameRequests \/ (OneMore /\ group' = group) \/ OneLess \/ backlog' = <<>>
<1>1. /\ backlog \in Seq(Requests) /\ Len(backlog) \in Nat
      /\ group \in [Groups -> Nat]
  BY DEF TypeOK
<1> DEFINE Moved == /\ \A g \in Groups : group'[g] >= group[g]
                    /\ SameRequests \/ (OneMore /\ group' = group) \/ OneLess \/ backlog' = <<>>
<1>2. ASSUME UNCHANGED <<group, backlog>>
      PROVE  Moved
  BY <1>1, <1>2 DEF SameRequests
<1>3. ASSUME NEW g \in Groups, Change(g)
      PROVE  Moved
  <2>1. group' = [group EXCEPT ![g] = group[g] + 1] /\ backlog' = backlog
    BY <1>3 DEF Change
  <2>2. \A h \in Groups : group[h] \in Nat /\ group'[h] = IF h = g THEN group[h] + 1 ELSE group[h]
    BY <1>1, <2>1
  <2>3. QED
    BY <2>1, <2>2 DEF SameRequests
<1>4. ASSUME NEW g \in Groups, Post(g)
      PROVE  Moved
  <2> DEFINE r == [from |-> g, state |-> group[g], open |-> TRUE]
  <2>1. r \in Requests
    BY <1>1 DEF Requests
  <2>2. backlog' = Append(backlog, r) /\ group' = group
    BY <1>4 DEF Post
  <2>3. OneMore
    BY <1>1, <2>1, <2>2, AppendProperties DEF OneMore
  <2>4. QED
    BY <1>1, <2>2, <2>3
<1>5. ASSUME StrayRequest
      PROVE  Moved
  <2> DEFINE r == [from |-> Stray, state |-> 0, open |-> TRUE]
  <2>1. r \in Requests
    BY DEF Requests
  <2>2. backlog' = Append(backlog, r) /\ group' = group
    BY <1>5 DEF StrayRequest
  <2>3. OneMore
    BY <1>1, <2>1, <2>2, AppendProperties DEF OneMore
  <2>4. QED
    BY <1>1, <2>2, <2>3
<1>6. ASSUME NEW g \in Groups, GiveUp(g)
      PROVE  Moved
  <2>1. SameRequests /\ group' = group
    BY <1>6, GiveUpAbandons DEF SameRequests, GiveUp
  <2>2. QED
    BY <1>1, <2>1
<1>7. ASSUME TakeRequest
      PROVE  Moved
  <2>1. backlog # <<>> /\ backlog' = Tail(backlog) /\ group' = group
    BY <1>7 DEF TakeRequest
  <2>2. Len(backlog') = Len(backlog) - 1 /\ \A k \in 1..Len(backlog') : backlog'[k] = backlog[k + 1]
    BY <1>1, <2>1, HeadTailProperties
  <2>3. QED
    BY <1>1, <2>1, <2>2 DEF OneLess
<1>8. ASSUME Restart
      PROVE  Moved
  BY <1>1, <1>8 DEF Restart
<1>9. ASSUME LoadSecret \/ ReadCredentials \/ Send \/ Idle \/ UNCHANGED bridgeVars
      PROVE  Moved
  BY <1>2, <1>9 DEF LoadSecret, ReadCredentials, Send, Idle, bridgeVars
<1> HIDE DEF Moved
<1>10. Moved
  BY <1>3, <1>4, <1>5, <1>6, <1>7, <1>8, <1>9 DEF Next, Serve
<1>11. QED
  BY <1>10 DEF Moved
\* What was not after a message stays so.
LEMMA NotAfterKeeps ==
    ASSUME TypeOK, TypeOK', [Next]_bridgeVars,
           NEW g \in Groups, NEW n \in Nat, NotAfter(n, g, group, backlog)
    PROVE  NotAfter(n, g, group', backlog')
<1>1. /\ Len(backlog) \in Nat /\ group[g] \in Nat /\ group'[g] \in Nat
      /\ \A k \in 1..Len(backlog) : backlog[k].state \in Nat
      /\ Len(backlog') \in Nat
  <2>1. backlog \in Seq(Requests) /\ backlog' \in Seq(Requests)
    BY DEF TypeOK
  <2>2. \A k \in 1..Len(backlog) : backlog[k] \in Requests
    BY <2>1
  <2>3. \A k \in 1..Len(backlog) : backlog[k].state \in Nat
    BY <2>2 DEF Requests
  <2>4. QED
    BY <2>1, <2>3 DEF TypeOK
<1>2. n =< group[g] /\ \A k \in 1..Len(backlog) : backlog[k].from = g => n =< backlog[k].state
  BY DEF NotAfter
<1>3. n =< group'[g]
  <2>1. group'[g] >= group[g]
    BY BacklogMoves
  <2>2. QED
    BY <1>1, <1>2, <2>1
<1>4. ASSUME NEW k \in 1..Len(backlog'), backlog'[k].from = g
      PROVE  n =< backlog'[k].state
  <2>1. CASE SameRequests
    BY <1>1, <1>2, <1>4, <2>1 DEF SameRequests
  <2>2. CASE OneMore
    <3>1. CASE k \in 1..Len(backlog)
      BY <1>2, <1>4, <2>2, <3>1 DEF OneMore
    <3>2. CASE k \notin 1..Len(backlog)
      <4>1. k = Len(backlog) + 1
        BY <1>1, <2>2, <3>2 DEF OneMore
      <4>2. backlog'[k].state = group[g]
        BY <1>4, <2>2, <4>1, BridgeAssumption DEF OneMore
      <4>3. QED
        BY <1>2, <4>2
    <3>3. QED
      BY <3>1, <3>2
  <2>3. CASE OneLess
    <3>1. k + 1 \in 1..Len(backlog) /\ backlog'[k] = backlog[k + 1]
      BY <1>1, <2>3 DEF OneLess
    <3>2. QED
      BY <1>2, <1>4, <3>1
  <2>4. CASE backlog' = <<>>
    BY <2>4
  <2>5. QED
    BY <2>1, <2>2, <2>3, <2>4, BacklogMoves
<1>5. QED
  BY <1>3, <1>4 DEF NotAfter
\* What a step does to the request being handled: nothing, an end with nothing
\* shown, a message, or the next one is taken.
SameJob ==
    /\ job # NoJob /\ job' # NoJob
    /\ job'.request.from = job.request.from
    /\ job'.request.state = job.request.state
    /\ shown' = shown

Dropped == job' = NoJob /\ shown' = shown

Shown ==
    /\ job # NoJob /\ job' = NoJob
    /\ shown' = [shown EXCEPT ![job.request.from] = Append(@, job.request.state)]

Taken ==
    /\ backlog # <<>> /\ OneLess /\ UNCHANGED <<group, shown>>
    /\ job' # NoJob /\ job'.request = backlog[1]

LEMMA JobMoves ==
    ASSUME TypeOK, [Next]_bridgeVars
    PROVE  SameJob \/ Dropped \/ Shown \/ Taken
<1>1. job # NoJob => job \in Jobs
  BY DEF TypeOK
<1>2. ASSUME UNCHANGED <<job, shown>>
      PROVE  SameJob \/ Dropped
  BY <1>2 DEF SameJob, Dropped
<1>3. ASSUME NEW g \in Groups, GiveUp(g)
      PROVE  SameJob \/ Dropped
  <2>1. shown' = shown
    BY <1>3 DEF GiveUp
  <2>2. QED
    BY <1>3, <2>1, GiveUpAbandons DEF SameJob, Dropped
<1>4. ASSUME TakeRequest
      PROVE  Dropped \/ Taken
  <2>1. /\ backlog # <<>> /\ backlog \in Seq(Requests) /\ backlog' = Tail(backlog)
        /\ UNCHANGED <<group, shown>>
    BY <1>4 DEF TakeRequest, TypeOK
  <2>2. CASE Head(backlog).from = Stray
    BY <1>4, <2>1, <2>2 DEF TakeRequest, Respond, Dropped
  <2>3. CASE Head(backlog).from # Stray
    <3>1. job' = [request |-> Head(backlog), token |-> 0]
      BY <1>4, <2>3 DEF TakeRequest
    <3>2. /\ OneLess
          /\ Head(backlog) = backlog[1] /\ Head(backlog) \in Requests
      BY <2>1, HeadTailProperties DEF OneLess
    <3>3. job' \in Jobs
      BY <3>1, <3>2 DEF Jobs
    <3>4. job' # NoJob /\ job'.request = backlog[1]
      BY <3>1, <3>2, <3>3, BridgeAssumption
    <3>5. QED
      BY <2>1, <3>2, <3>4 DEF Taken
  <2>4. QED
    BY <2>2, <2>3
<1>5. ASSUME ReadCredentials
      PROVE  SameJob \/ Dropped
  <2>1. shown' = shown /\ job # NoJob /\ job \in Jobs
    BY <1>1, <1>5 DEF ReadCredentials
  <2>2. CASE job' = NoJob
    BY <2>1, <2>2 DEF Dropped
  <2>3. CASE job' # NoJob
    <3>1. job' = [job EXCEPT !.token = secret]
      BY <1>5, <2>3 DEF ReadCredentials, Respond
    <3>2. job'.request = job.request
      BY <2>1, <3>1 DEF Jobs
    <3>3. QED
      BY <2>1, <2>3, <3>2 DEF SameJob
  <2>4. QED
    BY <2>2, <2>3
<1>6. ASSUME Send
      PROVE  Dropped \/ Shown
  BY <1>6 DEF Send, Respond, Dropped, Shown
<1>7. ASSUME Restart
      PROVE  Dropped
  BY <1>7 DEF Restart, Dropped
<1>8. ASSUME \/ LoadSecret \/ StrayRequest \/ Idle \/ UNCHANGED bridgeVars
             \/ \E g \in Groups : Change(g) \/ Post(g)
      PROVE  SameJob \/ Dropped
  BY <1>2, <1>8 DEF LoadSecret, StrayRequest, Idle, bridgeVars, Change, Post
<1>9. QED
  BY <1>3, <1>4, <1>5, <1>6, <1>7, <1>8 DEF Next, Serve
LEMMA OrderSteps == OrderInv /\ [Next]_bridgeVars => OrderInv'
<1> SUFFICES ASSUME OrderInv, [Next]_bridgeVars PROVE OrderInv'
  OBVIOUS
<1>1. TypeOK /\ TypeOK' /\ JobIsOfAGroup /\ JobIsOfAGroup'
  BY TypeSteps DEF OrderInv
<1>2. BacklogInOrder /\ JobIsNext /\ ShownIsPast /\ NewestLast
  BY DEF OrderInv
<1>3. /\ backlog \in Seq(Requests) /\ Len(backlog) \in Nat
      /\ backlog' \in Seq(Requests) /\ Len(backlog') \in Nat
      /\ group \in [Groups -> Nat] /\ group' \in [Groups -> Nat]
      /\ shown \in [Groups -> Seq(Nat)]
  BY <1>1 DEF TypeOK
<1>4. \A k \in 1..Len(backlog) : backlog[k].state \in Nat
  <2>1. \A k \in 1..Len(backlog) : backlog[k] \in Requests
    BY <1>3
  <2>2. QED
    BY <2>1 DEF Requests
<1>5. \A g \in Groups : \A n \in Nat : NotAfter(n, g, group, backlog) => NotAfter(n, g, group', backlog')
  BY <1>1, NotAfterKeeps
<1>6. BacklogInOrder'
  <2> SUFFICES ASSUME NEW k \in 1..Len(backlog'), backlog'[k].from \in Groups
               PROVE  /\ backlog'[k].state =< group'[backlog'[k].from]
                      /\ \A l \in (k + 1)..Len(backlog') :
                             backlog'[l].from = backlog'[k].from => backlog'[k].state =< backlog'[l].state
    BY DEF BacklogInOrder
  <2> DEFINE g == backlog'[k].from
  <2>0. group'[g] >= group[g] /\ group[g] \in Nat /\ group'[g] \in Nat
    BY <1>1, <1>3, BacklogMoves
  <2>1. CASE SameRequests
    <3>1. /\ backlog[k].state =< group[g] /\ backlog'[k].state = backlog[k].state
          /\ backlog[k].state \in Nat
      BY <1>2, <1>4, <2>1 DEF SameRequests, BacklogInOrder
    <3>2. backlog'[k].state =< group'[g]
      BY <2>0, <3>1
    <3>3. ASSUME NEW l \in (k + 1)..Len(backlog'), backlog'[l].from = g
          PROVE  backlog'[k].state =< backlog'[l].state
      <4>1. Len(backlog') = Len(backlog)
        BY <2>1 DEF SameRequests
      <4>2. k \in 1..Len(backlog) /\ l \in (k + 1)..Len(backlog) /\ l \in 1..Len(backlog)
        BY <1>3, <4>1
      <4>3. /\ backlog'[k].from = backlog[k].from /\ backlog'[k].state = backlog[k].state
            /\ backlog'[l].from = backlog[l].from /\ backlog'[l].state = backlog[l].state
        BY <2>1, <4>2 DEF SameRequests
      <4>4. backlog[k].state =< backlog[l].state
        BY <1>2, <3>3, <4>2, <4>3 DEF BacklogInOrder
      <4>5. QED
        BY <4>3, <4>4
    <3>4. QED
      BY <3>2, <3>3
  <2>2. CASE OneMore /\ group' = group
    <3>1. CASE k \in 1..Len(backlog)
      <4>1. backlog'[k] = backlog[k] /\ backlog[k].state =< group[g]
        BY <1>2, <2>2, <3>1 DEF OneMore, BacklogInOrder
      <4>2. ASSUME NEW l \in (k + 1)..Len(backlog'), backlog'[l].from = g
            PROVE  backlog'[k].state =< backlog'[l].state
        <5>0. /\ Len(backlog') = Len(backlog) + 1
              /\ k \in Int /\ l \in Int /\ l >= k + 1 /\ k >= 1 /\ l =< Len(backlog) + 1
          BY <1>3, <2>2, <3>1 DEF OneMore
        <5>1. CASE l =< Len(backlog)
          <6>1. l \in (k + 1)..Len(backlog) /\ l \in 1..Len(backlog)
            BY <1>3, <5>0, <5>1
          <6>2. backlog'[l] = backlog[l]
            BY <2>2, <6>1 DEF OneMore
          <6>3. QED
            BY <1>2, <3>1, <4>1, <4>2, <6>1, <6>2 DEF BacklogInOrder
        <5>2. CASE ~(l =< Len(backlog))
          <6>1. l = Len(backlog) + 1
            <7> DEFINE n == Len(backlog)
            <7>1. n \in Nat /\ l \in Int /\ l =< n + 1
              BY <1>3, <5>0
            <7>2. ~(l =< n)
              BY <5>2
            <7> HIDE DEF n
            <7>3. l = n + 1
              BY <7>1, <7>2
            <7>4. QED
              BY <7>3 DEF n
          <6>2. backlog'[l].state = group[g]
            BY <2>2, <4>2, <6>1, BridgeAssumption DEF OneMore
          <6>3. QED
            BY <4>1, <6>2
        <5>3. QED
          BY <5>1, <5>2
      <4>3. QED
        BY <2>2, <4>1, <4>2
    <3>2. CASE k \notin 1..Len(backlog)
      <4>1. k = Len(backlog) + 1 /\ Len(backlog') = Len(backlog) + 1
        BY <1>3, <2>2, <3>2 DEF OneMore
      <4>2. backlog'[k].state = group[g]
        BY <2>2, <4>1, BridgeAssumption DEF OneMore
      <4>3. \A l \in (k + 1)..Len(backlog') : FALSE
        BY <1>3, <4>1
      <4>4. backlog'[k].state =< group'[g]
        BY <2>0, <2>2, <4>2
      <4>5. QED
        BY <4>3, <4>4
    <3>3. QED
      BY <3>1, <3>2
  <2>3. CASE OneLess
    <3>1. k + 1 \in 1..Len(backlog) /\ backlog'[k] = backlog[k + 1]
      BY <1>3, <2>3 DEF OneLess
    <3>2. backlog[k + 1].state =< group[g] /\ backlog[k + 1].state \in Nat
      BY <1>2, <1>4, <3>1 DEF BacklogInOrder
    <3>3. backlog'[k].state =< group'[g]
      BY <2>0, <3>1, <3>2
    <3>4. ASSUME NEW l \in (k + 1)..Len(backlog'), backlog'[l].from = g
          PROVE  backlog'[k].state =< backlog'[l].state
      <4>1. /\ l + 1 \in (k + 1 + 1)..Len(backlog)
            /\ backlog'[l] = backlog[l + 1]
        BY <1>3, <2>3 DEF OneLess
      <4>2. QED
        BY <1>2, <3>1, <3>4, <4>1 DEF BacklogInOrder
    <3>5. QED
      BY <3>3, <3>4
  <2>4. CASE backlog' = <<>>
    BY <2>4
  <2>5. QED
    BY <1>1, <2>1, <2>2, <2>3, <2>4, BacklogMoves
<1>7. job # NoJob => job.request.from \in Groups /\ job.request.state \in Nat
  BY <1>1 DEF TypeOK, JobIsOfAGroup, Jobs, Requests
\* The first request waiting is not after what is shown, and what waits is not
\* before it.
<1>8. ASSUME Taken
      PROVE  /\ backlog[1].from \in Groups /\ backlog[1].state \in Nat
             /\ NotAfter(backlog[1].state, backlog[1].from, group', backlog')
  <2>1. 1 \in 1..Len(backlog) /\ backlog[1].from \in Groups /\ backlog[1].state \in Nat
    BY <1>1, <1>3, <1>4, <1>8, EmptySeq DEF Taken, JobIsOfAGroup
  <2>2. \A k \in 1..Len(backlog') : k + 1 \in 2..Len(backlog) /\ backlog'[k] = backlog[k + 1]
    BY <1>3, <1>8 DEF Taken, OneLess
  <2>3. \A k \in 2..Len(backlog) :
            backlog[k].from = backlog[1].from => backlog[1].state =< backlog[k].state
    BY <1>2, <2>1 DEF BacklogInOrder
  <2>4. backlog[1].state =< group'[backlog[1].from]
    BY <1>2, <1>8, <2>1 DEF BacklogInOrder, Taken
  <2>5. QED
    BY <1>8, <2>1, <2>2, <2>3, <2>4 DEF NotAfter, Taken
<1>9. JobIsNext'
  <2>1. CASE SameJob
    BY <1>2, <1>5, <1>7, <2>1 DEF SameJob, JobIsNext
  <2>2. CASE Taken
    BY <1>8, <2>2 DEF Taken, JobIsNext
  <2>3. CASE Dropped \/ Shown
    BY <2>3 DEF Dropped, Shown, JobIsNext
  <2>4. QED
    BY <1>1, <2>1, <2>2, <2>3, JobMoves
<1>10. \A g \in Groups : \A i \in 1..Len(shown[g]) : shown[g][i] \in Nat /\ NotAfter(shown[g][i], g, group', backlog')
  BY <1>2, <1>3, <1>5 DEF ShownIsPast
<1>11. ASSUME shown' = shown,
              \A g \in Groups : \A i \in 1..Len(shown[g]) :
                  (job' # NoJob /\ job'.request.from = g) => shown[g][i] =< job'.request.state
       PROVE  ShownIsPast' /\ NewestLast'
  BY <1>2, <1>10, <1>11 DEF ShownIsPast, NewestLast
<1>12. CASE Shown
  <2> DEFINE h == job.request.from
             n == job.request.state
  <2>1. h \in Groups /\ n \in Nat /\ job' = NoJob /\ shown[h] \in Seq(Nat)
    BY <1>3, <1>7, <1>12 DEF Shown
  <2>2. shown' = [shown EXCEPT ![h] = Append(shown[h], n)]
    BY <1>12 DEF Shown
  <2>3. /\ shown'[h] = Append(shown[h], n)
        /\ \A g \in Groups : g # h => shown'[g] = shown[g]
    BY <1>3, <2>1, <2>2
  <2>4. /\ Len(shown'[h]) = Len(shown[h]) + 1 /\ Len(shown[h]) \in Nat
        /\ \A i \in 1..Len(shown[h]) : shown'[h][i] = shown[h][i]
        /\ shown'[h][Len(shown[h]) + 1] = n
    BY <2>1, <2>3, AppendProperties
  <2>5. NotAfter(n, h, group', backlog')
    BY <1>2, <1>5, <1>12, <2>1 DEF JobIsNext, Shown
  <2>6. \A i \in 1..Len(shown[h]) : shown[h][i] =< n
    BY <1>2, <1>12, <2>1 DEF ShownIsPast, Shown
  <2> HIDE DEF h, n
  <2>7. \A g \in Groups : \A i \in 1..Len(shown'[g]) : NotAfter(shown'[g][i], g, group', backlog')
    <3> SUFFICES ASSUME NEW g \in Groups, NEW i \in 1..Len(shown'[g])
                 PROVE  NotAfter(shown'[g][i], g, group', backlog')
      OBVIOUS
    <3>1. CASE g # h
      BY <1>10, <2>3, <3>1
    <3>2. CASE g = h /\ i \in 1..Len(shown[h])
      BY <1>10, <2>4, <3>2
    <3>3. CASE g = h /\ i \notin 1..Len(shown[h])
      <4>1. i = Len(shown[h]) + 1
        BY <2>4, <3>3
      <4>2. QED
        BY <2>4, <2>5, <3>3, <4>1
    <3>4. QED
      BY <3>1, <3>2, <3>3
  <2>8. NewestLast'
    <3> SUFFICES ASSUME NEW g \in Groups, NEW i \in 1..Len(shown'[g]), NEW j \in 1..Len(shown'[g]), i < j
                 PROVE  shown'[g][i] =< shown'[g][j]
      BY DEF NewestLast
    <3>1. CASE g # h
      BY <1>2, <2>3, <3>1 DEF NewestLast
    <3>2. CASE g = h /\ j \in 1..Len(shown[h])
      <4>1. i \in 1..Len(shown[h])
        BY <2>4, <3>2
      <4>2. QED
        BY <1>2, <2>1, <2>4, <3>2, <4>1 DEF NewestLast
    <3>3. CASE g = h /\ j \notin 1..Len(shown[h])
      <4>1. j = Len(shown[h]) + 1 /\ i \in 1..Len(shown[h])
        BY <2>4, <3>3
      <4>2. QED
        BY <2>4, <2>6, <3>3, <4>1
    <3>4. QED
      BY <3>1, <3>2, <3>3
  <2>9. ShownIsPast'
    BY <2>1, <2>7 DEF ShownIsPast
  <2>10. QED
    BY <1>1, <1>6, <1>9, <2>8, <2>9 DEF OrderInv
<1>13. CASE SameJob
  <2>1. ShownIsPast' /\ NewestLast'
    BY <1>2, <1>11, <1>13 DEF SameJob, ShownIsPast
  <2>2. QED
    BY <1>1, <1>6, <1>9, <2>1 DEF OrderInv
<1>14. CASE Dropped
  <2>1. ShownIsPast' /\ NewestLast'
    BY <1>11, <1>14 DEF Dropped
  <2>2. QED
    BY <1>1, <1>6, <1>9, <2>1 DEF OrderInv
<1>15. CASE Taken
  <2>1. 1 \in 1..Len(backlog)
    BY <1>3, <1>15, EmptySeq DEF Taken
  <2>2. \A g \in Groups : \A i \in 1..Len(shown[g]) :
            backlog[1].from = g => shown[g][i] =< backlog[1].state
    BY <1>2, <2>1 DEF ShownIsPast, NotAfter
  <2>3. ShownIsPast' /\ NewestLast'
    BY <1>11, <1>15, <2>2 DEF Taken
  <2>4. QED
    BY <1>1, <1>6, <1>9, <2>3 DEF OrderInv
<1>16. QED
  BY <1>1, <1>12, <1>13, <1>14, <1>15, JobMoves

\* Slack never hears of an older state of a group after a newer one
\* (alertmanager_bridge.py:126-178), whatever fails, times out or restarts and
\* however often the token is rotated.
THEOREM NewestStaysLast == Spec => []NewestLast
<1>1. Init => OrderInv
  BY TypeStarts DEF Init, OrderInv, BacklogInOrder, JobIsNext, ShownIsPast, NewestLast
<1>2. QED
  BY <1>1, OrderSteps, PTL DEF Spec, OrderInv
-----------------------------------------------------------------------------
(* What is acknowledged was shown.                                         *)

\* The notifier swallows what Slack refuses, and Slack refuses a token that was
\* rotated: the two ways to a 200 with no message.
NothingIsRefused == "refused" \notin Hazards /\ MaxRotations = 0

TokensAreRead ==
    /\ secret =< MaxRotations + 1
    /\ job # NoJob => job.token =< secret

LEMMA TokenSteps == TypeOK /\ TokensAreRead /\ [Next]_bridgeVars => TokensAreRead'
<1> SUFFICES ASSUME TypeOK, TokensAreRead, [Next]_bridgeVars PROVE TokensAreRead'
  OBVIOUS
<1>1. secret \in Nat /\ (job # NoJob => job \in Jobs /\ job.token \in Nat) /\ MaxRotations \in Nat
  BY BridgeAssumption DEF TypeOK, Jobs
<1> DEFINE Read == TokensAreRead'
<1>2. ASSUME secret' = secret, job' = NoJob \/ job' = job
      PROVE  Read
  BY <1>2 DEF TokensAreRead
<1>3. ASSUME LoadSecret
      PROVE  Read
  <2>1. secret' = secret + 1 /\ secret < MaxRotations + 1 /\ job' = job
    BY <1>3 DEF LoadSecret
  <2>2. secret' =< MaxRotations + 1
    BY <1>1, <2>1
  <2>3. CASE job = NoJob
    BY <2>1, <2>2, <2>3 DEF TokensAreRead
  <2>4. CASE job # NoJob
    <3> DEFINE t == job.token
    <3>1. t \in Nat /\ t =< secret
      BY <1>1, <2>4 DEF TokensAreRead
    <3>2. t =< secret'
      <4> HIDE DEF t
      <4>1. QED
        BY <1>1, <2>1, <3>1
    <3>3. QED
      BY <2>1, <2>2, <3>2 DEF TokensAreRead
  <2>5. QED
    BY <2>3, <2>4
<1>4. ASSUME NEW g \in Groups, GiveUp(g)
      PROVE  Read
  <2>1. secret' = secret
    BY <1>4 DEF GiveUp
  <2>2. job' = NoJob \/ (job # NoJob /\ job'.token = job.token)
    BY <1>4, GiveUpAbandons
  <2>3. QED
    BY <2>1, <2>2 DEF TokensAreRead
<1>5. ASSUME TakeRequest
      PROVE  Read
  <2>1. secret' = secret /\ (job' = NoJob \/ job' = [request |-> Head(backlog), token |-> 0])
    BY <1>5 DEF TakeRequest, Respond
  <2>2. job' = NoJob \/ job'.token = 0
    BY <2>1
  <2>3. QED
    BY <1>1, <2>1, <2>2 DEF TokensAreRead
<1>6. ASSUME ReadCredentials
      PROVE  Read
  <2>1. /\ secret' = secret /\ job # NoJob
        /\ job' = NoJob \/ job' = [job EXCEPT !.token = secret]
    BY <1>6 DEF ReadCredentials, Respond
  <2>2. job' = NoJob \/ job'.token = secret
    BY <1>1, <2>1 DEF Jobs
  <2>3. QED
    BY <1>1, <2>1, <2>2 DEF TokensAreRead
<1>7. ASSUME Send
      PROVE  Read
  BY <1>2, <1>7 DEF Send, Respond
<1>8. ASSUME Restart
      PROVE  Read
  BY <1>2, <1>8 DEF Restart
<1>9. ASSUME \/ StrayRequest \/ Idle \/ UNCHANGED bridgeVars
             \/ \E g \in Groups : Change(g) \/ Post(g)
      PROVE  Read
  BY <1>2, <1>9 DEF StrayRequest, Idle, bridgeVars, Change, Post
<1> HIDE DEF Read
<1>10. Read
  BY <1>3, <1>4, <1>5, <1>6, <1>7, <1>8, <1>9 DEF Next, Serve
<1>11. QED
  BY <1>10 DEF Read

\* An answer other than 200 acknowledges nothing.
LEMMA OtherAnswers ==
    ASSUME NEW request, NEW status, status # 200, Respond(request, status)
    PROVE  acked' = acked
BY DEF Respond

LEMMA AcknowledgedSteps ==
    ASSUME NothingIsRefused, TypeOK, JobIsOfAGroup, TokensAreRead, AcknowledgedWasShown,
           [Next]_bridgeVars
    PROVE  AcknowledgedWasShown'
<1>1. ASSUME UNCHANGED <<acked, shown>>
      PROVE  AcknowledgedWasShown'
  BY <1>1 DEF AcknowledgedWasShown
<1>2. ASSUME NEW g \in Groups, Change(g) \/ Post(g) \/ GiveUp(g)
      PROVE  AcknowledgedWasShown'
  BY <1>1, <1>2 DEF Change, Post, GiveUp
<1>3. ASSUME LoadSecret \/ StrayRequest \/ Restart \/ Idle \/ UNCHANGED bridgeVars
      PROVE  AcknowledgedWasShown'
  BY <1>1, <1>3 DEF LoadSecret, StrayRequest, Restart, Idle, bridgeVars
<1>4. ASSUME TakeRequest
      PROVE  AcknowledgedWasShown'
  <2>1. shown' = shown /\ (acked' = acked \/ \E status \in {400, 404} : Respond(Head(backlog), status))
    BY <1>4 DEF TakeRequest
  <2>2. acked' = acked
    BY <2>1, OtherAnswers
  <2>3. QED
    BY <1>1, <2>1, <2>2
<1>5. ASSUME ReadCredentials
      PROVE  AcknowledgedWasShown'
  <2>1. shown' = shown /\ (acked' = acked \/ \E status \in {503, NoResponse} : Respond(job.request, status))
    BY <1>5 DEF ReadCredentials
  <2>2. acked' = acked
    BY <2>1, OtherAnswers DEF NoResponse
  <2>3. QED
    BY <1>1, <2>1, <2>2
<1>6. ASSUME Send
      PROVE  AcknowledgedWasShown'
  <2> DEFINE h == job.request.from
             n == job.request.state
             t == job.token
  <2>1. job # NoJob /\ t > 0 /\ t \in Nat /\ h \in Groups /\ n \in Nat
    BY <1>6 DEF Send, TypeOK, JobIsOfAGroup, Jobs, Requests
  <2>2. t = secret
    <3>1. secret \in Nat /\ secret =< 1 /\ t =< secret
      BY <2>1 DEF NothingIsRefused, TokensAreRead, TypeOK
    <3> HIDE DEF t
    <3>2. QED
      BY <2>1, <3>1
  <2>3. CASE shown' = [shown EXCEPT ![h] = Append(@, n)] /\ Respond(job.request, 200)
    <3>1. shown[h] \in Seq(Nat) /\ shown' = [shown EXCEPT ![h] = Append(shown[h], n)]
      BY <2>1, <2>3 DEF TypeOK
    <3>2. /\ shown'[h] = Append(shown[h], n)
          /\ \A g \in Groups : g # h => shown'[g] = shown[g]
      BY <2>1, <3>1 DEF TypeOK
    <3>3. /\ Len(shown'[h]) = Len(shown[h]) + 1 /\ Len(shown[h]) \in Nat
          /\ \A i \in 1..Len(shown[h]) : shown'[h][i] = shown[h][i]
          /\ shown'[h][Len(shown[h]) + 1] = n
      BY <2>1, <3>1, <3>2, AppendProperties
    <3>4. acked' = acked \/ acked' = [acked EXCEPT ![h] = n]
      BY <2>3 DEF Respond
    <3> HIDE DEF h, n
    <3>5. \A g \in Groups : acked'[g] = acked[g] \/ (g = h /\ acked'[g] = n)
      BY <2>1, <3>4 DEF TypeOK
    <3>6. ASSUME NEW g \in Groups, acked'[g] # 0
          PROVE  \E i \in 1..Len(shown'[g]) : shown'[g][i] = acked'[g]
      <4>1. CASE g = h /\ acked'[g] = n
        <5>1. Len(shown[h]) + 1 \in 1..Len(shown'[h])
          BY <3>3
        <5>2. QED
          BY <3>3, <4>1, <5>1
      <4>2. CASE acked'[g] = acked[g]
        <5>1. PICK i \in 1..Len(shown[g]) : shown[g][i] = acked[g]
          BY <3>6, <4>2 DEF AcknowledgedWasShown
        <5>2. i \in 1..Len(shown'[g]) /\ shown'[g][i] = shown[g][i]
          <6>1. CASE g = h
            BY <3>3, <5>1, <6>1
          <6>2. CASE g # h
            BY <3>2, <5>1, <6>2
          <6>3. QED
            BY <6>1, <6>2
        <5>3. QED
          BY <4>2, <5>1, <5>2
      <4>3. QED
        BY <3>5, <4>1, <4>2
    <3>7. QED
      BY <3>6 DEF AcknowledgedWasShown
  <2>4. CASE Respond(job.request, 502) /\ UNCHANGED shown
    BY <1>1, <2>4, OtherAnswers
  <2>5. QED
    BY <1>6, <2>2, <2>3, <2>4 DEF Send, NothingIsRefused
<1>7. QED
  BY <1>2, <1>3, <1>4, <1>5, <1>6 DEF Next, Serve

\* The 2xx that stops Alertmanager's retries is only ever answered for a message
\* that got through (alertmanager_bridge.py:153-155, 161-170), however many
\* sends raise, responses come too late and restarts there are: unless Slack
\* itself refuses, or the token was rotated after it was read.
THEOREM AcknowledgedIsShown == ASSUME NothingIsRefused PROVE Spec => []AcknowledgedWasShown
<1> DEFINE Inv == TypeOK /\ JobIsOfAGroup /\ TokensAreRead /\ AcknowledgedWasShown
<1>1. Init => Inv
  BY TypeStarts, BridgeAssumption DEF Init, TokensAreRead, AcknowledgedWasShown
<1>2. Inv /\ [Next]_bridgeVars => Inv'
  BY TypeSteps, TokenSteps, AcknowledgedSteps
<1>3. QED
  BY <1>1, <1>2, PTL DEF Spec
=============================================================================
