---------------------------- MODULE NodeInfoSpec ----------------------------
(***************************************************************************)
(* NodeInfo objects driven through the methods of capacity/node_info.go:   *)
(* NewNodeInfo and SetNode (as GetSystemSnapshot calls them), any          *)
(* interleaving of AddPod and RemovePod (swapIfPossible's trial swap,      *)
(* placeCapacity's removal of a migrated pod), Clone and RemoveNode.  Pods *)
(* may be added twice: AddPodInfo does not look for an existing entry with *)
(* the same key.  Each object carries its Generation, taken from the       *)
(* process-global counter that nextGeneration increments.                  *)
(***************************************************************************)
EXTENDS NodeInfo

CONSTANTS
  Objects,        \* the NodeInfo objects (pointers) that may be created
  MaxPodsOnNode,  \* bound on the length of Pods
  MaxCalls        \* bound on the number of method calls

VARIABLES
  made,        \* the objects created so far, by NewNodeInfo or Clone
  ni,          \* object -> its NodeInfo record
  gen,         \* object -> its Generation field
  generation,  \* the package-level counter behind nextGeneration
  lastErr,     \* outcome of the last RemovePod: "none", "ok", "notfound", "panic"
  calls        \* method calls made so far

vars == <<made, ni, gen, generation, lastErr, calls>>

\* nextGeneration: atomic.AddInt64(&generation, 1) and its result.
nextGeneration == generation + 1

Init ==
  /\ made = {}
  /\ ni = [o \in Objects |-> NewNodeInfo]
  /\ gen = [o \in Objects |-> 0]
  /\ generation = 0
  /\ lastErr = "none"
  /\ calls = 0

\* Every method call counts against MaxCalls; a panic ends the process.
Call ==
  /\ lastErr # "panic"
  /\ calls < MaxCalls
  /\ calls' = calls + 1

\* The object o takes the record r and a fresh Generation.
Bump(o, r) ==
  /\ ni' = [ni EXCEPT ![o] = r]
  /\ gen' = [gen EXCEPT ![o] = nextGeneration]
  /\ generation' = nextGeneration

DoNewNodeInfo(o) ==
  /\ Call
  /\ o \notin made
  /\ made' = made \cup {o}
  /\ Bump(o, NewNodeInfo)
  /\ UNCHANGED lastErr

\* GetSystemSnapshot calls SetNode on a NodeInfo that holds no pods yet.
DoSetNode(o, node) ==
  /\ Call
  /\ o \in made
  /\ ni[o].node = NoNode /\ ni[o].pods = <<>>
  /\ Bump(o, SetNode(ni[o], node))
  /\ UNCHANGED <<made, lastErr>>

DoAddPod(o, p) ==
  /\ Call
  /\ o \in made
  /\ ni[o].node # NoNode
  /\ Len(ni[o].pods) < MaxPodsOnNode
  /\ Bump(o, AddPod(ni[o], p))
  /\ UNCHANGED <<made, lastErr>>

\* Generation is bumped only on the path that finds the pod.
DoRemovePod(o, p) ==
  /\ Call
  /\ o \in made
  /\ LET r == RemovePod(ni[o], p) IN
       /\ lastErr' = r.status
       /\ IF r.status = "ok"
            THEN Bump(o, r.ni)
            ELSE /\ ni' = [ni EXCEPT ![o] = r.ni]
                 /\ UNCHANGED <<gen, generation>>
  /\ UNCHANGED made

\* Clone: a new object with the same node, pods and resources, and the
\* source's Generation.
DoClone(o, c) ==
  /\ Call
  /\ o \in made /\ c \notin made
  /\ made' = made \cup {c}
  /\ ni' = [ni EXCEPT ![c] = ni[o]]
  /\ gen' = [gen EXCEPT ![c] = gen[o]]
  /\ UNCHANGED <<generation, lastErr>>

\* RemoveNode with the Generation left as it was.
DoRemoveNodeKeepGen(o) ==
  /\ Call
  /\ o \in made
  /\ ni' = [ni EXCEPT ![o].node = NoNode]
  /\ UNCHANGED <<made, gen, generation, lastErr>>

\* RemoveNode: the node is dropped, the pods and resources kept.
DoRemoveNode(o) ==
  /\ Call
  /\ o \in made
  /\ Bump(o, [ni[o] EXCEPT !.node = NoNode])
  /\ UNCHANGED <<made, lastErr>>

Next ==
  \E o \in Objects :
    \/ DoNewNodeInfo(o)
    \/ \E node \in Nodes : DoSetNode(o, node)
    \/ \E p \in Pods : DoAddPod(o, p) \/ DoRemovePod(o, p)
    \/ \E c \in Objects : DoClone(o, c)
    \/ DoRemoveNode(o)

Spec == Init /\ [][Next]_vars

-----------------------------------------------------------------------------
\* The multiset of pods held, as a function pod -> number of entries.
Count(s, p) == Len(SelectSeq(s, LAMBDA q : q = p))

\* Sum over the entries of Pods of a per-pod quantity.
SumPods(s, F(_)) == FoldLeft(LAMBDA acc, p : acc + F(p), 0, s)

Res(p) == CalculateResource(p).res

TypeOK ==
  /\ made \subseteq Objects
  /\ \A o \in Objects :
       /\ ni[o].node \in Nodes \cup {NoNode}
       /\ ni[o].pods \in Seq(Pods)
       /\ ni[o].podsWithAffinity \in Seq(Pods)
       /\ ni[o].podsWithRequiredAntiAffinity \in Seq(Pods)
       /\ \A f \in {"requested", "nonZeroRequested", "allocatable", "available"} :
             /\ ni[o][f].cpu \in Int /\ ni[o][f].mem \in Int
             /\ DOMAIN ni[o][f].sr \subseteq ScalarNames
       /\ gen[o] \in 0..generation
  /\ generation \in 0..MaxCalls
  /\ lastErr \in {"none", "ok", "notfound", "panic"}
  /\ calls \in 0..MaxCalls

(***************************************************************************)
(* Resource accounting (spec section 3 and property 1): for every NodeInfo *)
(* with a node, after any sequence of AddPod, RemovePod and Clone,         *)
(* Requested and NonZeroRequested are the sums of the requests of the pods *)
(* in Pods, Available is Allocatable minus NonZeroRequested for CPU and    *)
(* memory, and the affinity subsets hold exactly the pods of Pods that     *)
(* have affinity.                                                          *)
(***************************************************************************)
ResourceAccounting ==
  \A o \in made : LET n == ni[o] IN
  n.node # NoNode =>
    /\ n.requested.cpu = SumPods(n.pods, LAMBDA p : Res(p).cpu)
    /\ n.requested.mem = SumPods(n.pods, LAMBDA p : Res(p).mem)
    /\ \A k \in ScalarNames : Get(n.requested.sr, k) = SumPods(n.pods, LAMBDA p : Get(Res(p).sr, k))
    /\ n.nonZeroRequested.cpu = SumPods(n.pods, LAMBDA p : CalculateResource(p).non0CPU)
    /\ n.nonZeroRequested.mem = SumPods(n.pods, LAMBDA p : CalculateResource(p).non0Mem)
    /\ n.available.cpu = n.allocatable.cpu - n.nonZeroRequested.cpu
    /\ n.available.mem = n.allocatable.mem - n.nonZeroRequested.mem
    /\ \A p \in Pods :
         /\ Count(n.podsWithAffinity, p) = IF p \in AffinityPods THEN Count(n.pods, p) ELSE 0
         /\ Count(n.podsWithRequiredAntiAffinity, p) =
              IF p \in AntiAffinityPods THEN Count(n.pods, p) ELSE 0

(***************************************************************************)
(* Generation identifies content (spec section 3, the comment on           *)
(* nextGeneration): two NodeInfo objects with the same Generation hold the *)
(* same node, pods and resources.  Clone copies Generation, so this holds  *)
(* only if every method that changes a NodeInfo after it was cloned        *)
(* (SetNode, AddPodInfo, RemovePod on the found path, RemoveNode) takes a  *)
(* fresh number from the global counter.                                   *)
(***************************************************************************)
GenerationIdentifiesContent ==
  \A o1, o2 \in made : gen[o1] = gen[o2] => ni[o1] = ni[o2]

=============================================================================
