------------------------------ MODULE RscQueue ------------------------------
(***************************************************************************)
(* The nanoprobe's queue of resource operations (clientlib/resourcequeue.c)*)
(* with the agents it runs (resourceocf.c, resourcelsb.c, resourcenagios.c *)
(* over childprocess.c).  A one second timer looks through the queues and  *)
(* starts agents; the exit of an agent ends its request or queues it       *)
(* again.  All of it runs in one thread: an action is one callback.        *)
(*                                                                         *)
(* No agent is ever given a timeout (timeout_secs is never assigned), so   *)
(* there is no action that kills one.  Cancelling a request whose agent is *)
(* running frees memory that the agent's exit uses; it is left out.        *)
(***************************************************************************)
EXTENDS Integers, FiniteSets, SequencesExt

CONSTANTS
    Rsc,         \* names of resources
    MaxId,       \* requests carry an id up to this one
    MaxReq,      \* bound: requests accepted
    MaxSpawnFail \* bound: agents that could not be started

ASSUME QueueAssumption == {MaxId, MaxReq, MaxSpawnFail} \subseteq Nat

VARIABLES
    queue,     \* [Rsc -> sequence of requests, by number]; no entry is <<>>
    elem,      \* [number -> RscQElem], what does not change of it
    due,       \* requests whose starttime has come
    running,   \* requests whose is_running is set
    succeeded, \* requests whose last_success is set
    timer,     \* is the timer set (timerid >= 0)?
    active,    \* activechildcnt
    count,     \* requests accepted so far
    failed,    \* agents that could not be started so far
    trusted,   \* history: requests whose requestor was told last that all is well
    misled     \* history: requests whose requestor was told last what is not true

agentvars == <<due, running, succeeded>>
history   == <<trusted, misled>>
queuevars == <<queue, elem, agentvars, timer, active, count, failed, history>>

Number == 1..MaxReq

\* repeat: is repeatinterval positive?
RscQElem == [requestid : 0..MaxId, repeat : BOOLEAN, cancelonfail : BOOLEAN]

\* A number that is not in use (the element has been freed).
NoElem == [requestid |-> 0, repeat |-> FALSE, cancelonfail |-> FALSE]

Requests(q) == {q[i] : i \in DOMAIN q}

\* The first request of q that is in S.
FirstOf(q, S) == q[CHOOSE i \in DOMAIN q : q[i] \in S /\ \A j \in 1..(i - 1) : q[j] \notin S]

\* g_queue_remove
Without(q, n) == RemoveAt(q, CHOOSE i \in DOMAIN q : q[i] = n)

-----------------------------------------------------------------------------
(* Requests.  A ConfigContext is a function from field names to values.    *)

GetInt(request, field) == IF field \in DOMAIN request THEN request[field] ELSE -1

GetBool(request, field) == field \in DOMAIN request /\ request[field]

NewElem(request) ==
    [requestid    |-> GetInt(request, "reqid"),
     repeat       |-> GetInt(request, "repeat_interval") > 0,
     cancelonfail |-> GetBool(request, "cancel_on_fail")]

\* _queue_compare_requestid returns TRUE, which GLib takes for "they differ", of
\* equal ids: what is found is a request with another id.
FoundById(q, id) == \E n \in Requests(q) : elem[n].requestid # id

Accepts(rsc, request) ==
    GetInt(request, "reqid") > 0 /\ ~FoundById(queue[rsc], GetInt(request, "reqid"))

\* Mutant: a timer that has stopped is not started again.
PushUntimed(rsc, n) == queue' = [queue EXCEPT ![rsc] = Append(@, n)] /\ UNCHANGED timer

\* _resource_queue_cmd_append, once the request is accepted
Push(rsc, n) == queue' = [queue EXCEPT ![rsc] = Append(@, n)] /\ timer' = TRUE

Qcmd(rsc, request) ==
    IF Accepts(rsc, request)
    THEN LET n == count + 1 IN
         /\ n <= MaxReq
         /\ Push(rsc, n)
         /\ count' = n
         /\ elem' = [elem EXCEPT ![n] = NewElem(request)]
         /\ due' = IF GetInt(request, "init_delay") > 0 THEN due ELSE due \cup {n}
         /\ UNCHANGED <<running, succeeded, active, failed, history>>
    ELSE UNCHANGED queuevars

\* The first request of the resource with that id, unless its agent is running.
\* The histories forget it: its requestor is owed nothing.
Cancel(rsc, id) ==
    LET found == {n \in Requests(queue[rsc]) : elem[n].requestid = id}
        n     == FirstOf(queue[rsc], found)
    IN  /\ found # {}
        /\ n \notin running
        /\ queue' = [queue EXCEPT ![rsc] = Without(@, n)]
        /\ elem' = [elem EXCEPT ![n] = NoElem]
        /\ due' = due \ {n} /\ succeeded' = succeeded \ {n}
        /\ trusted' = trusted \ {n} /\ misled' = misled \ {n}
        /\ UNCHANGED <<running, timer, active, count, failed>>

-----------------------------------------------------------------------------
(* _resource_queue_runqueue                                                *)

\* Mutant: agents of one resource run side by side.
StartableAlways(q, dues) == Requests(q) \cap (dues \ running) # {}

Startable(q, dues) == Requests(q) \cap running = {} /\ Requests(q) \cap dues # {}

\* Mutant: the child is counted only when its process did not start.
CountFailures(cnt, starting, unspawned) == cnt + Cardinality(unspawned)

\* activechildcnt is raised before it is known whether the process starts.
CountChildren(cnt, starting, unspawned) == cnt + Cardinality(starting)

\* The agents of these requests are started, unless their process cannot be.
Execute(starting, unspawned) == running \cup (starting \ unspawned)

\* child_notify clears is_running when its callback has returned.
ChildNotify(executing, ended) == executing \ ended

\* In queues qs, the first request that is due of each resource where no agent
\* runs is executed; some processes cannot be started.  ended: the request whose
\* agent has just ended, if any.
RunQueue(qs, dues, cnt, ended) ==
    LET starting == {FirstOf(qs[r], dues \ running) : r \in {r \in Rsc : Startable(qs[r], dues)}}
    IN  \E unspawned \in SUBSET starting :
            /\ failed + Cardinality(unspawned) <= MaxSpawnFail
            /\ failed' = failed + Cardinality(unspawned)
            /\ active' = CountChildren(cnt, starting, unspawned)
            /\ running' = ChildNotify(Execute(starting, unspawned), ended)
            /\ timer' = (timer /\ \E r \in Rsc : qs[r] # <<>>)

RunTimer ==
    /\ timer
    /\ RunQueue(queue, due, active, {})
    /\ UNCHANGED <<queue, elem, due, succeeded, count, history>>

\* starttime comes for request n.
TimePasses(n) ==
    /\ \E rsc \in Rsc : n \in Requests(queue[rsc])
    /\ n \notin due
    /\ due' = due \cup {n}
    /\ UNCHANGED <<queue, elem, running, succeeded, timer, active, count, failed, history>>

-----------------------------------------------------------------------------
(* _resource_queue_endnotify, called by an agent's child_notify            *)

ShouldRepeat(n, ok) == elem[n].repeat /\ (ok \/ ~elem[n].cancelonfail)

\* Mutant: only failures are news.
IsNewsOfFailure(n, ok) == ~ShouldRepeat(n, ok) \/ (~ok /\ n \in succeeded)

\* The requestor hears of the last run and of a flip between success and failure.
IsNews(n, ok) == ~ShouldRepeat(n, ok) \/ ok # (n \in succeeded)

\* Mutant: it goes back to where it was.
RequeueFirst(q, n) == <<n>> \o q

Requeue(q, n) == Append(q, n)

\* The agent of request n ends.  runqueue is called while is_running is still
\* set; it is cleared when the callback returns.
ChildExit(n, ok) ==
    /\ n \in running
    /\ \E rsc \in Rsc :
           /\ n \in Requests(queue[rsc])
           /\ LET rest == Without(queue[rsc], n) IN
              queue' = [queue EXCEPT ![rsc] = IF ShouldRepeat(n, ok) THEN Requeue(rest, n) ELSE rest]
    /\ due' = due \ {n}
    /\ RunQueue(queue', due', active - 1, {n})
    /\ IF ShouldRepeat(n, ok)
       THEN /\ succeeded' = IF ok THEN succeeded \cup {n} ELSE succeeded \ {n}
            /\ trusted' = IF IsNews(n, ok) THEN (IF ok THEN trusted \cup {n} ELSE trusted \ {n}) ELSE trusted
            /\ misled' = IF ok = (n \in trusted') THEN misled \ {n} ELSE misled \cup {n}
            /\ UNCHANGED elem
       ELSE /\ succeeded' = succeeded \ {n}
            /\ elem' = [elem EXCEPT ![n] = NoElem]
            /\ trusted' = trusted \ {n}
            /\ misled' = IF IsNews(n, ok) THEN misled \ {n} ELSE misled \cup {n}
    /\ UNCHANGED count

-----------------------------------------------------------------------------
(* The queue on its own: requests of all kinds arrive.                     *)

QueueInit ==
    /\ queue = [r \in Rsc |-> <<>>]
    /\ elem = [n \in Number |-> NoElem]
    /\ due = {} /\ running = {} /\ succeeded = {}
    /\ timer = TRUE
    /\ active = 0 /\ count = 0 /\ failed = 0
    /\ trusted = {} /\ misled = {}

\* Delayed single-shot requests (id 0 is refused), and repeating ones, which may end with their
\* first failure.
Request ==
    [reqid : 0..MaxId, init_delay : {1}]
    \cup [reqid : 1..MaxId, repeat_interval : {1}]
    \cup [reqid : {n \in 1..MaxId : n = 1}, repeat_interval : {1}, cancel_on_fail : {TRUE}]

\* The process ends with exit code 0, or in any other way.
AgentEnds(n) == \E ok \in BOOLEAN : ChildExit(n, ok)

QueueSteps == RunTimer \/ \E n \in Number : AgentEnds(n) \/ TimePasses(n)

QueueNext ==
    \/ \E rsc \in Rsc : \/ \E request \in Request : Qcmd(rsc, request)
                        \/ \E id \in 1..MaxId : Cancel(rsc, id)
    \/ QueueSteps

QueueSpec == QueueInit /\ [][QueueNext]_queuevars

\* The timer fires, the clock goes on and agents end (nothing makes them).
QueueFairness ==
    /\ WF_queuevars(RunTimer)
    /\ \A n \in Number : WF_queuevars(AgentEnds(n)) /\ WF_queuevars(TimePasses(n))

FairQueueSpec == QueueSpec /\ QueueFairness

-----------------------------------------------------------------------------
(* Properties.                                                             *)

QueueTypeOK ==
    /\ queue \in [Rsc -> Seq(Number)]
    /\ elem \in [Number -> RscQElem]
    /\ due \subseteq Number /\ running \subseteq Number /\ succeeded \subseteq Number
    /\ timer \in BOOLEAN
    /\ active \in Nat /\ count \in 0..MaxReq /\ failed \in 0..MaxSpawnFail
    /\ trusted \subseteq Number /\ misled \subseteq Number

\* "only one operation at a time happens on any given resource" (resourcequeue.c):
\* agents of a resource never overlap, although runqueue is called from the timer
\* and from the exit of any agent.
OneAtATime == \A rsc \in Rsc : Cardinality(Requests(queue[rsc]) \cap running) <= 1

\* The timer stops when it finds nothing to do; it always runs again before
\* anything is queued, or a request would wait for ever.
TimerArmed == (\E rsc \in Rsc : queue[rsc] # <<>>) => timer

\* activechildcnt keeps the queue alive: it never drops below the number of agents
\* that will call back into the queue when they end.
RunningIsCounted == active >= Cardinality(running)

\* What a requestor was told last is how the last run ended, and it is told of
\* the last run of all.  (One that was never told anything assumes a failure.)
ReportsStand == misled = {}

\* No request starves behind others that repeat: it runs again and again, until
\* it ends or is cancelled.
ServedInTurn ==
    \A n \in Number : LET waits == n \notin running /\ \E rsc \in Rsc : n \in Requests(queue[rsc])
                       IN  waits ~> ~waits

\* "Duplicate request id ... we shouldn't obey it in any case" (resourcequeue.c):
\* a resource never has two requests with the same id.
NoDuplicateId ==
    \A rsc \in Rsc : \A i, j \in DOMAIN queue[rsc] :
        elem[queue[rsc][i]].requestid = elem[queue[rsc][j]].requestid => i = j
=============================================================================
