---------------------------- MODULE TaskRoutes ----------------------------
(***************************************************************************)
(* What A2A task routing promises: a table of routes from tasks to the     *)
(* clusters that own them.                                                 *)
(*                                                                         *)
(* A request asks for the cluster of one task and is answered once, from   *)
(* the table as it is at one instant; a hit is sent to the cluster of the  *)
(* route.  The response tells of tasks; what it tells is taken up in order *)
(* and once, for the cluster it came from.  A route holds for the whole of *)
(* its time: only a terminal response for its task takes it away sooner,   *)
(* and the table may refuse a new task but never to renew a route it has.  *)
(***************************************************************************)
EXTENDS Naturals, Sequences

CONSTANTS TaskIds, Clusters, Flows, Ttl, TerminalTtl, None

VARIABLES
    routes,     \* TaskIds -> [cluster, expires_at] or None
    now,
    wanted,     \* Flows -> the task of an unanswered request, or None
    answer,     \* Flows -> the request's answer: a cluster, "miss" or None
    source,     \* Flows -> the cluster of the response that is read, or None
    news,       \* Flows -> what it told and is not taken up: [task, terminal]
    until       \* Flows -> the end of the route being stored, or 0

asking == <<wanted, answer>>
telling == <<source, news, until>>
absVars == <<routes, now, asking, telling>>

AbsInit ==
    /\ routes = [t \in TaskIds |-> None]
    /\ now = 0
    /\ wanted = [f \in Flows |-> None]
    /\ answer = [f \in Flows |-> None]
    /\ source = [f \in Flows |-> None]
    /\ news = [f \in Flows |-> <<>>]
    /\ until = [f \in Flows |-> 0]

\* A request arrives; it may concern a task.
Ask(f) ==
    /\ wanted[f] = None /\ source[f] = None
    /\ \E t \in TaskIds \cup {None} : wanted' = [wanted EXCEPT ![f] = t]
    /\ answer' = [answer EXCEPT ![f] = None]
    /\ UNCHANGED <<routes, now, telling>>

\* It is answered for its own task, once.
Lookup(f) ==
    /\ wanted[f] # None
    /\ answer' = [answer EXCEPT ![f] =
            IF routes[wanted[f]] = None THEN "miss" ELSE routes[wanted[f]].cluster]
    /\ wanted' = [wanted EXCEPT ![f] = None]
    /\ UNCHANGED <<routes, now, telling>>

\* The response begins: of a hit it comes from the route's cluster.
Respond(f) ==
    /\ wanted[f] = None /\ news[f] = <<>>
    /\ \E c \in Clusters :
        /\ answer[f] \in Clusters => c = answer[f]
        /\ source' = [source EXCEPT ![f] = c]
    /\ UNCHANGED <<routes, now, asking, news, until>>

\* A part of it tells of tasks.
Tell(f) ==
    /\ source[f] # None /\ news[f] = <<>>
    /\ news'[f] \in Seq([task : TaskIds, terminal : BOOLEAN])
    /\ news' = [news EXCEPT ![f] = news'[f]]
    /\ UNCHANGED <<routes, now, asking, source, until>>

\* The response ends, or is read no further.
EndOfResponse(f) ==
    /\ news[f] = <<>>
    /\ source' = [source EXCEPT ![f] = None]
    /\ UNCHANGED <<routes, now, asking, news, until>>

\* The time of a route counts from the instant its storing begins.
Begin(f) ==
    /\ news[f] # <<>> /\ until[f] = 0
    /\ until' = [until EXCEPT ![f] =
            now + IF Head(news[f]).terminal THEN TerminalTtl ELSE Ttl]
    /\ UNCHANGED <<routes, now, asking, source, news>>

TakenUp(f) == news' = [news EXCEPT ![f] = Tail(news[f])]

Learn(f) ==
    /\ news[f] # <<>> /\ now < until[f]
    /\ routes' = [routes EXCEPT ![Head(news[f]).task] =
            [cluster |-> source[f], expires_at |-> until[f]]]
    /\ TakenUp(f)
    /\ until' = [until EXCEPT ![f] = 0]
    /\ UNCHANGED <<now, asking, source>>

\* A full table refuses a task it has no route for.
Refuse(f) ==
    /\ news[f] # <<>> /\ now < until[f]
    /\ routes[Head(news[f]).task] = None
    /\ TakenUp(f)
    /\ until' = [until EXCEPT ![f] = 0]
    /\ UNCHANGED <<routes, now, asking, source>>

\* A terminal response may withdraw the route instead.
Withdraw(f) ==
    /\ news[f] # <<>> /\ until[f] = 0
    /\ Head(news[f]).terminal
    /\ routes' = [routes EXCEPT ![Head(news[f]).task] = None]
    /\ TakenUp(f)
    /\ UNCHANGED <<now, asking, source, until>>

\* Time passes and takes with it the routes whose time is up.
Pass ==
    /\ now' = now + 1
    /\ routes' = [t \in TaskIds |->
            IF routes[t] # None /\ now + 1 < routes[t].expires_at
            THEN routes[t] ELSE None]
    /\ UNCHANGED <<asking, telling>>

AbsNext ==
    \/ \E f \in Flows :
        \/ Ask(f) \/ Lookup(f)
        \/ Respond(f) \/ Tell(f) \/ EndOfResponse(f)
        \/ Begin(f) \/ Learn(f) \/ Refuse(f) \/ Withdraw(f)
    \/ Pass

AbsSpec == AbsInit /\ [][AbsNext]_absVars
=============================================================================
