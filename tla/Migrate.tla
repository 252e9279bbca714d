------------------------------- MODULE Migrate -------------------------------
(***************************************************************************)
(* The migration executor (migrate.go: SwapPods, MigratePod, reSchedulePod *)
(* and deletePod) running against the orchestrator.                        *)
(*                                                                         *)
(* One call of the executor is a straight-line program of API calls,      *)
(* Program(call); the executor takes one step per call, and each call may *)
(* fail (the calls named in Failing) or be refused by the API server (a   *)
(* stale resourceVersion, a missing or an existing object).  Between any  *)
(* two calls the orchestrator acts: the replica controllers bring each    *)
(* controller's pods to its spec.replicas, the job controller replaces a  *)
(* job's pod, the scheduler binds pending pods; and the descheduler       *)
(* process may die (MayCrash), after which nothing resumes the call: the  *)
(* executor keeps no state, and a restarted descheduler starts from a new *)
(* snapshot.                                                              *)
(***************************************************************************)
EXTENDS Integers, Sequences, FiniteSets

CONSTANTS
  Workloads,     \* the pods' owners (one bare pod is its own "workload")
  Kind,          \* workload -> "bare" (no owner), "scaled" (a ReplicationController,
                 \* ReplicaSet or Deployment), "job" (a Job or an operator's job)
  Nodes, NoNode, Gone,
  Cap,           \* pods a node can run
  MaxGen,        \* pod objects a workload can have over a behaviour
  InitReplicas,  \* scaled workload -> spec.replicas
  InitNode,      \* initial pod -> its node
  Failing,       \* API calls that may fail: a subset of {"get", "update", "delete", "create"}
  MayCrash,      \* whether the descheduler may die between two calls
  Calls          \* executor calls: [op |-> "swap", a |-> pod, b |-> pod] or [op |-> "move", a |-> pod]

Scaled == {w \in Workloads : Kind[w] = "scaled"}
PodIds == Workloads \X (0..MaxGen - 1)
InitialPods == {p \in PodIds : IF Kind[p[1]] = "scaled" THEN p[2] < InitReplicas[p[1]] ELSE p[2] = 0}
\* Above the largest initial scale by one: the executor's single surge.
MaxReplicas == 1 + CHOOSE m \in {InitReplicas[w] : w \in Scaled} :
                      \A w \in Scaled : InitReplicas[w] <= m

VARIABLES
  loc,       \* pod object -> its node, NoNode while pending, Gone while it does not exist
  born,      \* workload -> number of pod objects created for it so far
  replicas,  \* scaled workload -> spec.replicas of its Scale
  ver,       \* scaled workload -> resourceVersion of its Scale
  call,      \* the executor call being run
  ip,        \* the index of the executor's next API call in Program(call)
  sc,        \* the Scale read by GetScale: spec.replicas ...
  scv,       \* ... and its resourceVersion
  pc         \* "run", then "done", "failed" (an error returned) or "crashed"

vars == <<loc, born, replicas, ver, call, ip, sc, scv, pc>>

(***************************************************************************)
(* The executor's programs.  An instruction names the API call, the pod   *)
(* and whether an error ends the call ("fatal": MigratePod returns it) or *)
(* is only logged (SwapPods' delayed deletions).                          *)
(***************************************************************************)
Instr(op, p, fatal) == [op |-> op, pod |-> p, fatal |-> fatal]

\* A variant of MigrateProg that deletes the pod before raising the Scale.
MigrateProgDeleteFirst(p, isSwap) ==
  LET ops == CASE Kind[p[1]] = "bare"   -> <<"delete", "create">>
               [] Kind[p[1]] = "scaled" -> IF isSwap THEN <<"get", "up", "down">>
                                           ELSE <<"get", "delete", "up", "down">>
               [] OTHER                 -> <<"delete">>
  IN [i \in DOMAIN ops |-> Instr(ops[i], p, TRUE)]

\* MigratePod(pod, fromNode, toNode, isSwap) with a fromNode: the controller
\* found from the first owner reference decides the calls.  A bare pod is
\* deleted and created again (reSchedulePod); a controller's Scale is
\* read, raised by one, the pod deleted unless it is a swap, and the Scale
\* written back one lower; a job's pod is deleted.  Every error returns.
MigrateProg(p, isSwap) ==
  LET ops == CASE Kind[p[1]] = "bare"   -> <<"delete", "create">>
               [] Kind[p[1]] = "scaled" -> IF isSwap THEN <<"get", "up", "down">>
                                           ELSE <<"get", "up", "delete", "down">>
               [] OTHER                 -> <<"delete">>
  IN [i \in DOMAIN ops |-> Instr(ops[i], p, TRUE)]

\* SwapPods' delayed deletion of a pod owned by a ReplicationController or
\* ReplicaSet (a Deployment's pods are owned by its ReplicaSet).
DelayedDelete(p) == IF Kind[p[1]] = "scaled" THEN <<Instr("delete", p, FALSE)>> ELSE <<>>

\* SwapPods(podA, podB): migrate A, then B, stopping at the first error,
\* then the delayed deletions of B and of A.
Program(c) ==
  IF c.op = "swap"
  THEN MigrateProg(c.a, TRUE) \o MigrateProg(c.b, TRUE) \o DelayedDelete(c.b) \o DelayedDelete(c.a)
  ELSE MigrateProg(c.a, FALSE)

Prog == Program(call)
Cur == Prog[ip]
W == Cur.pod[1]
Running == pc = "run" /\ ip \in DOMAIN Prog

\* An error: MigratePod returns it, or SwapPods logs it and goes on.
Fails ==
  IF Cur.fatal THEN pc' = "failed" /\ UNCHANGED ip
  ELSE ip' = ip + 1 /\ UNCHANGED pc

Ok == ip' = ip + 1 /\ UNCHANGED pc

(***************************************************************************)
(* The executor's API calls.                                              *)
(***************************************************************************)
\* GetScale of the controller.
GetScale ==
  /\ Running /\ Cur.op = "get"
  /\ \/ sc' = replicas[W] /\ scv' = ver[W] /\ Ok
     \/ "get" \in Failing /\ Fails /\ UNCHANGED <<sc, scv>>
  /\ UNCHANGED <<loc, born, replicas, ver, call>>

\* UpdateScale of the copy with spec.replicas + 1: it carries the
\* resourceVersion read, so the server refuses it if the Scale changed.
ScaleUp ==
  /\ Running /\ Cur.op = "up"
  /\ \/ /\ ver[W] = scv
        /\ replicas' = [replicas EXCEPT ![W] = sc + 1]
        /\ ver' = [ver EXCEPT ![W] = @ + 1]
        /\ Ok
     \/ ("update" \in Failing \/ ver[W] # scv) /\ Fails /\ UNCHANGED <<replicas, ver>>
  /\ UNCHANGED <<loc, born, call, sc, scv>>

\* A variant of ScaleDown that writes spec.replicas - 1 + 2.
ScaleDownTwice ==
  /\ Running /\ Cur.op = "down"
  /\ \/ /\ replicas' = [replicas EXCEPT ![W] = sc + 2]
        /\ ver' = [ver EXCEPT ![W] = @ + 1]
        /\ Ok
     \/ "update" \in Failing /\ Fails /\ UNCHANGED <<replicas, ver>>
  /\ UNCHANGED <<loc, born, call, sc, scv>>

\* A variant of ScaleDown that leaves out the decrement.
ScaleDownNoDecrement ==
  /\ Running /\ Cur.op = "down"
  /\ \/ /\ replicas' = [replicas EXCEPT ![W] = sc + 1]
        /\ ver' = [ver EXCEPT ![W] = @ + 1]
        /\ Ok
     \/ "update" \in Failing /\ Fails /\ UNCHANGED <<replicas, ver>>
  /\ UNCHANGED <<loc, born, call, sc, scv>>

\* The resourceVersion cleared and spec.replicas back to the value read:
\* the server takes the write whatever the Scale is now.
ScaleDown ==
  /\ Running /\ Cur.op = "down"
  /\ \/ /\ replicas' = [replicas EXCEPT ![W] = sc]
        /\ ver' = [ver EXCEPT ![W] = @ + 1]
        /\ Ok
     \/ "update" \in Failing /\ Fails /\ UNCHANGED <<replicas, ver>>
  /\ UNCHANGED <<loc, born, call, sc, scv>>

\* deletePod: Delete by name with grace period 0; a pod that no longer
\* exists is an error (NotFound).
DeletePod ==
  /\ Running /\ Cur.op = "delete"
  /\ \/ loc[Cur.pod] # Gone /\ loc' = [loc EXCEPT ![Cur.pod] = Gone] /\ Ok
     \/ ("delete" \in Failing \/ loc[Cur.pod] = Gone) /\ Fails /\ UNCHANGED loc
  /\ UNCHANGED <<born, replicas, ver, call, sc, scv>>

\* reSchedulePod: Create a copy of the pod, same name, without a node (with
\* a preferred affinity to toNode on a swap, which binds nothing); an
\* object of that name that exists already is an error (AlreadyExists).
CreatePod ==
  /\ Running /\ Cur.op = "create"
  /\ \/ loc[Cur.pod] = Gone /\ loc' = [loc EXCEPT ![Cur.pod] = NoNode] /\ Ok
     \/ ("create" \in Failing \/ loc[Cur.pod] # Gone) /\ Fails /\ UNCHANGED loc
  /\ UNCHANGED <<born, replicas, ver, call, sc, scv>>

\* The call returns nil.
Finish ==
  /\ pc = "run" /\ ip > Len(Prog)
  /\ pc' = "done"
  /\ UNCHANGED <<loc, born, replicas, ver, call, ip, sc, scv>>

\* The descheduler dies between two API calls.
Crash ==
  /\ MayCrash /\ pc = "run"
  /\ pc' = "crashed"
  /\ UNCHANGED <<loc, born, replicas, ver, call, ip, sc, scv>>

Executor == GetScale \/ ScaleUp \/ ScaleDown \/ DeletePod \/ CreatePod \/ Finish

(***************************************************************************)
(* The orchestrator.                                                      *)
(***************************************************************************)
Live(w) == {p \in PodIds : p[1] = w /\ loc[p] # Gone}
OnNode(n) == {p \in PodIds : loc[p] = n}

\* A controller with fewer pods than spec.replicas creates a pending one.
ReplicaAdd(w) ==
  /\ Kind[w] = "scaled" /\ Cardinality(Live(w)) < replicas[w] /\ born[w] < MaxGen
  /\ loc' = [loc EXCEPT ![<<w, born[w]>>] = NoNode]
  /\ born' = [born EXCEPT ![w] = @ + 1]
  /\ UNCHANGED <<replicas, ver, call, ip, sc, scv, pc>>

\* A controller with more pods than spec.replicas deletes one, a pending
\* one first.
ReplicaRemove(w, p) ==
  /\ Kind[w] = "scaled" /\ Cardinality(Live(w)) > replicas[w] /\ p \in Live(w)
  /\ loc[p] = NoNode \/ \A q \in Live(w) : loc[q] # NoNode
  /\ loc' = [loc EXCEPT ![p] = Gone]
  /\ UNCHANGED <<born, replicas, ver, call, ip, sc, scv, pc>>

\* The job controller replaces a job's deleted pod with a new one.
JobReplace(w) ==
  /\ Kind[w] = "job" /\ Live(w) = {} /\ born[w] < MaxGen
  /\ loc' = [loc EXCEPT ![<<w, born[w]>>] = NoNode]
  /\ born' = [born EXCEPT ![w] = @ + 1]
  /\ UNCHANGED <<replicas, ver, call, ip, sc, scv, pc>>

\* The scheduler binds a pending pod to a node with room.
Schedule(p, n) ==
  /\ loc[p] = NoNode /\ Cardinality(OnNode(n)) < Cap
  /\ loc' = [loc EXCEPT ![p] = n]
  /\ UNCHANGED <<born, replicas, ver, call, ip, sc, scv, pc>>

Orchestrator ==
  \/ \E w \in Workloads : ReplicaAdd(w) \/ JobReplace(w)
  \/ \E w \in Workloads, p \in PodIds : ReplicaRemove(w, p)
  \/ \E p \in PodIds, n \in Nodes : Schedule(p, n)

\* The call has ended and the cluster may be quiet.
Terminating == pc # "run" /\ UNCHANGED vars

Init ==
  /\ loc = [p \in PodIds |-> IF p \in InitialPods THEN InitNode[p] ELSE Gone]
  /\ born = [w \in Workloads |-> Cardinality({p \in InitialPods : p[1] = w})]
  /\ replicas = [w \in Scaled |-> InitReplicas[w]]
  /\ ver = [w \in Scaled |-> 0]
  /\ call \in Calls
  /\ ip = 1 /\ sc = 0 /\ scv = 0
  /\ pc = "run"

Next == Executor \/ Crash \/ Orchestrator \/ Terminating

Spec == Init /\ [][Next]_vars

\* The executor's goroutine makes its API calls one after another, each of
\* which returns (an answer or an error), so it keeps taking steps.
FairSpec == Spec /\ WF_vars(Executor)

-----------------------------------------------------------------------------
TypeOK ==
  /\ loc \in [PodIds -> Nodes \cup {NoNode, Gone}]
  /\ born \in [Workloads -> 0..MaxGen]
  /\ replicas \in [Scaled -> 0..MaxReplicas]
  /\ ip \in 1..Len(Prog) + 1
  /\ pc \in {"run", "done", "failed", "crashed"}

\* The controllers whose Scale the executor has raised and not yet written
\* back: a ScaleUp passed with no ScaleDown after it.  Every ScaleUp the
\* executor has passed succeeded, since MigratePod returns on its error.
Raised(w) ==
  \E i \in 1..ip - 1 :
     /\ Prog[i].op = "up" /\ Prog[i].pod[1] = w
     /\ ~\E j \in i + 1..ip - 1 : Prog[j].op = "down" /\ Prog[j].pod[1] = w

Abs == INSTANCE ScaleProtocol WITH surged <- {w \in Scaled : Raised(w)}

\* The executor's writes to a controller's Scale follow the protocol of
\* spec 4.7: a +1, later a -1 of the value the Scale then has, one raise
\* outstanding per controller, whatever other writers do.  It is about the
\* two UpdateScale calls of MigratePod (the second one drops the
\* resourceVersion).
ScaleSafety == Abs!SafetySpec

\* The same protocol with its promise that every raise is eventually
\* written back.
ScaleProtocolSpec == Abs!Spec

\* Spec scenario S6 on MigratePod: the executor deletes a controller's pod
\* only while it holds the +1 on the controller's Scale; a failed scale-up
\* returns before any deletion.
SurgeBeforeDelete ==
  [][ ( /\ Running /\ Cur.op = "delete" /\ Cur.fatal /\ Kind[W] = "scaled"
        /\ loc[Cur.pod] # Gone /\ loc'[Cur.pod] = Gone /\ ip' = ip + 1 )
       => Raised(W) ]_vars

\* A bare pod has no controller to bring it back: once the executor has
\* deleted it, the pod exists again before the executor's call ends, and
\* is missing only while reSchedulePod's Create is the next call.
NoBarePodLost ==
  \A w \in Workloads :
     Kind[w] = "bare" /\ loc[<<w, 0>>] = Gone =>
        Running /\ Cur.op = "create" /\ Cur.pod = <<w, 0>>

=============================================================================
