-------------------------- MODULE TcamProp_proofs ---------------------------
(***************************************************************************)
(* The nodes of the property interface, for every set of threads, every    *)
(* family of cameras and every structure of settings: a node is used only  *)
(* while its camera is open, and its references are accounted for.         *)
(***************************************************************************)
EXTENDS TcamProp, FiniteSetTheorems, TLAPS

-----------------------------------------------------------------------------
(* The references of a thread to node n: the one it got from fetch_item,   *)
(* unless it uses the node it keeps, and the one it keeps.                 *)
Taken(x, n) == x.pc \in {"got", "use"} /\ x.op # "held" /\ x.node = n
Own(x, n) == (IF Taken(x, n) THEN 1 ELSE 0) + (IF x.held = n THEN 1 ELSE 0)

Takers(th, n) == {t \in TpThreads : Taken(th[t], n)}
Keepers(th, n) == {t \in TpThreads : th[t].held = n}
Count(th, n) == Cardinality(Takers(th, n)) + Cardinality(Keepers(th, n))

Same(x, y) == x.pc = y.pc /\ x.op = y.op /\ x.node = y.node /\ x.held = y.held

(* Finitely many threads have a node.                                      *)
LEMMA CountIsNat == \A th, n : Cardinality(Takers(th, n)) \in Nat /\ Cardinality(Keepers(th, n)) \in Nat
                               /\ IsFiniteSet(Takers(th, n)) /\ IsFiniteSet(Keepers(th, n))
<1> SUFFICES ASSUME NEW th, NEW n
             PROVE  Cardinality(Takers(th, n)) \in Nat /\ Cardinality(Keepers(th, n)) \in Nat
                    /\ IsFiniteSet(Takers(th, n)) /\ IsFiniteSet(Keepers(th, n))
  OBVIOUS
<1>1. Takers(th, n) \in SUBSET TpThreads /\ Keepers(th, n) \in SUBSET TpThreads
  BY DEF Takers, Keepers
<1>2. IsFiniteSet(Takers(th, n)) /\ IsFiniteSet(Keepers(th, n))
  BY <1>1, TpAssumption, FS_Subset
<1> QED BY <1>2, FS_CardinalityType

(* One element more or less.                                               *)
LEMMA OneMore ==
  ASSUME NEW S, NEW T, NEW t, IsFiniteSet(S), IsFiniteSet(T), S \ {t} = T \ {t}
  PROVE  Cardinality(T) = Cardinality(S) - (IF t \in S THEN 1 ELSE 0) + (IF t \in T THEN 1 ELSE 0)
<1>1. Cardinality(S \ {t}) = Cardinality(S) - (IF t \in S THEN 1 ELSE 0)
  BY FS_RemoveElement, FS_CardinalityType
<1>2. Cardinality(T \ {t}) = Cardinality(T) - (IF t \in T THEN 1 ELSE 0)
  BY FS_RemoveElement, FS_CardinalityType
<1>3. Cardinality(S) \in Nat /\ Cardinality(T) \in Nat
  BY FS_CardinalityType
<1> QED BY <1>1, <1>2, <1>3

(* When one thread moves, the references of a node change by its own.      *)
LEMMA CountMoves ==
  ASSUME NEW th, NEW th2, NEW t \in TpThreads, NEW n,
         \A u \in TpThreads \ {t} : Same(th[u], th2[u])
  PROVE  Count(th2, n) = Count(th, n) - Own(th[t], n) + Own(th2[t], n)
<1>1. Takers(th, n) \ {t} = Takers(th2, n) \ {t} /\ Keepers(th, n) \ {t} = Keepers(th2, n) \ {t}
  BY DEF Takers, Keepers, Same, Taken
<1>2. /\ t \in Takers(th, n) <=> Taken(th[t], n)
      /\ t \in Takers(th2, n) <=> Taken(th2[t], n)
      /\ t \in Keepers(th, n) <=> th[t].held = n
      /\ t \in Keepers(th2, n) <=> th2[t].held = n
  BY DEF Takers, Keepers
<1>3. Cardinality(Takers(th2, n)) = Cardinality(Takers(th, n))
        - (IF Taken(th[t], n) THEN 1 ELSE 0) + (IF Taken(th2[t], n) THEN 1 ELSE 0)
  BY <1>1, <1>2, CountIsNat, OneMore
<1>4. Cardinality(Keepers(th2, n)) = Cardinality(Keepers(th, n))
        - (IF th[t].held = n THEN 1 ELSE 0) + (IF th2[t].held = n THEN 1 ELSE 0)
  BY <1>1, <1>2, CountIsNat, OneMore
<1> QED BY <1>3, <1>4, CountIsNat DEF Count, Own

-----------------------------------------------------------------------------
(* What a thread that is somewhere in its call has.                        *)
SomeNode == TpNodes \cup {NoNode}
Shape(x) ==
  /\ DOMAIN x = DOMAIN IdleThread
  /\ x.pc \in {"idle", "fetch", "create", "got", "use"}
  /\ x.node \in SomeNode /\ x.held \in SomeNode
  /\ IF x.pc \in {"got", "use"} THEN x.node # NoNode ELSE x.node = NoNode /\ x.op # "held"
  /\ x.op = "held" => x.node = x.held /\ Tail(x.todo) = <<>>
  /\ x.op = "hold" => x.held = NoNode /\ x.pc # "use"

(* Its nodes belong to cameras that have been opened; it is inside a node, *)
(* or about to create one, only while the list it belongs to is there.     *)
Timely(t) ==
  LET x == tpThread[t] IN
  /\ x.node[1] <= tpOpened /\ x.held[1] <= tpOpened
  /\ x.pc = "use" => x.node[1] = tpData
  /\ x.pc = "create" => tpData # 0 /\ entry(t).name \in tpHas

(* Lists and cameras: every list but the one that is offered is closed.    *)
Lists ==
  /\ tpOpened \in 0..TpOpens /\ tpOpen \in 0..tpOpened
  /\ tpData = (IF tpCloser = "device" THEN 0 ELSE tpOpen) /\ (tpCloser = "destroy" => tpOpen # 0)
  /\ tpClosed \subseteq 1..tpOpened
  /\ \A g \in 1..tpOpened : g \notin tpClosed => g = tpData
  /\ tpHas \subseteq DOMAIN TpProps

Cached(n) == IF n[1] = tpData /\ n[3] = Nobody /\ n[2] \in tpCache THEN 1 ELSE 0

(* Every reference is accounted for, but for the nodes that may have more. *)
Referenced(n) ==
  /\ tpRefs[n] \in Int
  /\ tpRefs[n] >= Cached(n) + Count(tpThread, n)
  /\ n \notin tpOdd => tpRefs[n] = Cached(n) + Count(tpThread, n)

TpInv ==
  /\ Lists
  /\ DOMAIN tpThread = TpThreads /\ \A t \in TpThreads : Shape(tpThread[t]) /\ Timely(t)
  /\ DOMAIN tpRefs = TpNodes /\ \A n \in TpNodes : Referenced(n)

(* No node of a camera is the null pointer.                                *)
LEMMA NodesDiffer == NoNode \notin TpNodes /\ \A n \in TpNodes : n[1] \in 1..TpOpens /\ n[1] # 0
<1>1. \A n \in TpNodes : n[1] \in 1..TpOpens
  BY DEF TpNodes
<1>2. NoNode[1] = 0
  BY DEF NoNode
<1> QED BY <1>1, <1>2, TpAssumption

(* The invariant implies what the property promises.                       *)
LEMMA InvIsSafe == TpInv => NodesAreSafe
<1> SUFFICES ASSUME TpInv PROVE NodesAreSafe
  OBVIOUS
<1>1. ASSUME NEW t \in TpThreads, at(t, "use") PROVE tpThread[t].node[1] = tpOpen
  <2>1. tpThread[t].node[1] = tpData /\ tpThread[t].node \in TpNodes
    BY <1>1 DEF TpInv, Timely, Shape, at, SomeNode
  <2> QED BY <2>1, NodesDiffer DEF TpInv, Lists
<1>2. ASSUME NEW n \in TpNodes, Has(n) # {} PROVE tpRefs[n] > 0
  <2>1. PICK t \in TpThreads : n \in {tpThread[t].node, tpThread[t].held}
    BY <1>2 DEF Has
  <2>2. Shape(tpThread[t])
    BY DEF TpInv
  <2>3. Taken(tpThread[t], n) \/ tpThread[t].held = n
    BY <2>1, <2>2, NodesDiffer DEF Shape, Taken
  <2>4. t \in Takers(tpThread, n) \/ t \in Keepers(tpThread, n)
    BY <2>3 DEF Takers, Keepers
  <2>5. Count(tpThread, n) > 0
    BY <2>4, CountIsNat, FS_EmptySet DEF Count
  <2>6. Referenced(n) /\ Cached(n) \in {0, 1} /\ Count(tpThread, n) \in Int
    BY CountIsNat DEF TpInv, Cached, Count
  <2> QED BY <2>5, <2>6 DEF Referenced
<1>3. ASSUME NEW n \in TpNodes, Has(n) = {}, n[1] # tpData, n \notin tpOdd PROVE tpRefs[n] = 0
  <2>1. Takers(tpThread, n) = {} /\ Keepers(tpThread, n) = {}
    BY <1>3 DEF Has, Takers, Keepers, Taken
  <2>2. Count(tpThread, n) = 0
    BY <2>1, FS_EmptySet DEF Count
  <2> QED BY <1>3, <2>2 DEF TpInv, Referenced, Cached
<1> QED BY <1>1, <1>2, <1>3 DEF NodesAreSafe

-----------------------------------------------------------------------------
(* A step of thread t keeps the references accounted for if the count of   *)
(* every node follows what t and the list have of it.                      *)
Follows(t, n) ==
  /\ tpRefs'[n] \in Int
  /\ tpRefs'[n] - Cached(n)' - Own(tpThread'[t], n) >= tpRefs[n] - Cached(n) - Own(tpThread[t], n)
  /\ n \notin tpOdd' => n \notin tpOdd /\
       tpRefs'[n] - Cached(n)' - Own(tpThread'[t], n) = tpRefs[n] - Cached(n) - Own(tpThread[t], n)

(* If the count follows what t has, it follows what all have.              *)
LEMMA StaysReferenced ==
  ASSUME TpInv, NEW t \in TpThreads, NEW n \in TpNodes, Follows(t, n),
         \A u \in TpThreads \ {t} : Same(tpThread[u], tpThread'[u])
  PROVE  Referenced(n)'
<1> DEFINE c == Count(tpThread, n)
           d == Count(tpThread', n)
           o == Own(tpThread[t], n)
           p == Own(tpThread'[t], n)
           k == Cached(n)
           l == Cached(n)'
           a == tpRefs[n]
           b == tpRefs'[n]
<1>1. d = c - o + p
  BY CountMoves, ZenonT(30)
<1>2. c \in Int /\ d \in Int /\ o \in Int /\ p \in Int /\ k \in Int /\ l \in Int
  BY CountIsNat DEF Count, Own, Cached
<1>3. a \in Int /\ a >= k + c /\ (n \notin tpOdd => a = k + c)
  BY DEF TpInv, Referenced
<1>4. /\ b \in Int /\ b - l - p >= a - k - o
      /\ n \notin tpOdd' => n \notin tpOdd /\ b - l - p = a - k - o
  BY DEF Follows
<1> HIDE DEF a, b, c, d, o, p, k, l
<1>5. b >= l + d
  BY <1>1, <1>2, <1>3, <1>4
<1>6. n \notin tpOdd' => b = l + d
  BY <1>1, <1>2, <1>3, <1>4
<1> QED BY <1>4, <1>5, <1>6 DEF Referenced, b, l, d

(* When only the state of thread t changes, what it has is to be looked at *)
(* and nothing else.                                                       *)
Steps(t, x) ==
  /\ tpThread' = [tpThread EXCEPT ![t] = x]
  /\ UNCHANGED <<tpHas, tpOpen, tpOpened, tpData, tpClosed, tpCloser>>
Quiet(t, x) ==
  /\ Shape(x) /\ x.node[1] <= tpOpened /\ x.held[1] <= tpOpened
  /\ x.pc = "use" => x.node[1] = tpData
  /\ x.pc = "create" => tpData # 0 /\ Head(x.todo).name \in tpHas

(* A step of thread t preserves the invariant if what t has afterwards is  *)
(* in order and the references follow.                                     *)
LEMMA StepKeeps ==
  ASSUME TpInv, NEW t \in TpThreads, NEW x, Steps(t, x), Quiet(t, x),
         DOMAIN tpRefs' = TpNodes, \A n \in TpNodes : Follows(t, n)
  PROVE  TpInv'
<1>1. tpThread'[t] = x /\ DOMAIN tpThread' = TpThreads /\ \A u \in TpThreads \ {t} : tpThread'[u] = tpThread[u]
  BY DEF Steps, TpInv
<1>2. UNCHANGED <<tpHas, tpOpen, tpOpened, tpData, tpClosed, tpCloser>>
  BY DEF Steps
<1>3. Lists'
  BY <1>2 DEF TpInv, Lists
<1>4. ASSUME NEW u \in TpThreads PROVE Shape(tpThread'[u]) /\ Timely(u)'
  <2>1. CASE u = t
    BY <1>1, <1>2, <2>1 DEF Quiet, Timely, entry
  <2>2. CASE u # t
    BY <1>1, <1>2, <2>2 DEF TpInv, Timely, entry
  <2> QED BY <2>1, <2>2
<1>5. ASSUME NEW n \in TpNodes PROVE Referenced(n)'
  <2>1. \A u \in TpThreads \ {t} : Same(tpThread[u], tpThread'[u])
    BY <1>1 DEF Same
  <2> QED BY <2>1, StaysReferenced
<1> QED BY <1>1, <1>3, <1>4, <1>5 DEF TpInv

(* A step that leaves the references, and what t has of them, alone.       *)
LEMMA IdleStepKeeps ==
  ASSUME TpInv, NEW t \in TpThreads, NEW x, Steps(t, x), Quiet(t, x), UNCHANGED <<tpRefs, tpCache>>,
         tpOdd \subseteq tpOdd',
         \A n \in TpNodes : Own(x, n) = Own(tpThread[t], n) \/ (n \in tpOdd' /\ Own(x, n) <= Own(tpThread[t], n))
  PROVE  TpInv'
<1>1. tpThread'[t] = x
  BY DEF Steps, TpInv
<1>2. \A n \in TpNodes : Cached(n)' = Cached(n)
  BY DEF Steps, Cached
<1>3. ASSUME NEW n \in TpNodes PROVE Follows(t, n)
  <2>1. Own(x, n) \in Int /\ Own(tpThread[t], n) \in Int /\ Cached(n) \in Int /\ tpRefs[n] \in Int
    BY DEF Own, Cached, TpInv, Referenced
  <2> QED BY <1>1, <1>2, <2>1 DEF Follows
<1> QED BY <1>3, StepKeeps DEF TpInv

-----------------------------------------------------------------------------
(* What a call leaves when one of its entries is over.                     *)
LEMMA AfterSettles ==
  ASSUME TpInv, NEW t \in TpThreads, NEW err, tpThread[t].op # "hold" \/ tpThread[t].held = NoNode
  PROVE  /\ Quiet(t, after(t, err)) /\ after(t, err).held = tpThread[t].held
         /\ after(t, err).node = NoNode /\ after(t, err).pc \in {"fetch", "idle"}
<1> DEFINE x == tpThread[t]
           y == after(t, err)
<1>1. Shape(x) /\ Timely(t)
  BY DEF TpInv
<1>2. /\ DOMAIN y = DOMAIN IdleThread /\ y.pc \in {"fetch", "idle"} /\ y.node = NoNode /\ y.held = x.held
      /\ y.op = "" \/ (y.op = x.op /\ x.op # "held")
  <2>1. CASE Tail(x.todo) # <<>>
    BY <1>1, <2>1 DEF after, Shape, IdleThread
  <2>2. CASE Tail(x.todo) = <<>>
    BY <1>1, <2>2 DEF after, Shape, IdleThread
  <2> QED BY <2>1, <2>2
<1>3. NoNode[1] = 0 /\ NoNode \in SomeNode
  BY DEF NoNode, SomeNode
<1> HIDE DEF y
<1>4. tpOpened \in Nat
  BY DEF TpInv, Lists
<1>5. Shape(y)
  BY <1>1, <1>2, <1>3 DEF Shape
<1>6. y.node[1] <= tpOpened /\ y.held[1] <= tpOpened
  <2>1. x.held[1] <= tpOpened
    BY <1>1 DEF Timely
  <2>2. y.node = NoNode /\ y.held = x.held
    BY <1>2
  <2>3. 0 <= tpOpened
    BY <1>4
  <2> HIDE DEF x
  <2> QED BY <2>1, <2>2, <2>3, <1>3
<1>7. Quiet(t, y)
  BY <1>2, <1>5, <1>6 DEF Quiet
<1> QED BY <1>2, <1>7 DEF y

(* Settings are given to a thread that has nothing else to do.             *)
LEMMA AppliesQuiet ==
  ASSUME NEW t \in TpThreads, NEW list, Shape(tpThread[t]), at(t, "idle"), applies(t, list)
  PROVE  \E x : /\ tpThread' = [tpThread EXCEPT ![t] = x] /\ Shape(x)
                /\ x.pc = "fetch" /\ x.node = NoNode /\ x.held = tpThread[t].held
                /\ \A n \in TpNodes : Own(x, n) = Own(tpThread[t], n)
<1> DEFINE x == [tpThread[t] EXCEPT !.pc = "fetch", !.op = "apply", !.todo = list, !.asked = list,
                                    !.calm = tpCloser = "idle"]
<1>1. tpThread' = [tpThread EXCEPT ![t] = x]
  BY DEF applies, goes
<1>2. /\ x.pc = "fetch" /\ x.op = "apply" /\ x.node = NoNode /\ x.held = tpThread[t].held
      /\ DOMAIN x = DOMAIN IdleThread /\ tpThread[t].pc = "idle"
  BY DEF at, Shape, IdleThread
<1> HIDE DEF x
<1>3. Shape(x)
  BY <1>2 DEF Shape, SomeNode
<1>4. \A n \in TpNodes : Own(x, n) = Own(tpThread[t], n)
  BY <1>2 DEF Own, Taken
<1> QED BY <1>1, <1>2, <1>3, <1>4

(* apply_properties is begun.                                              *)
LEMMA AppliesKeeps ==
  ASSUME TpInv, NEW t \in TpThreads, NEW list, at(t, "idle"), applies(t, list),
         UNCHANGED <<tpHas, tpOpen, tpOpened, tpData, tpClosed, tpCloser, tpRefs, tpCache, tpOdd>>
  PROVE  TpInv'
<1>1. Shape(tpThread[t]) /\ Timely(t) /\ tpOpened \in Nat
  BY DEF TpInv, Lists
<1>2. PICK x : /\ tpThread' = [tpThread EXCEPT ![t] = x] /\ Shape(x)
               /\ x.pc = "fetch" /\ x.node = NoNode /\ x.held = tpThread[t].held
               /\ \A n \in TpNodes : Own(x, n) = Own(tpThread[t], n)
  BY <1>1, AppliesQuiet
<1>3. Quiet(t, x)
  <2>1. NoNode[1] = 0
    BY DEF NoNode
  <2>2. tpThread[t].held[1] <= tpOpened
    BY <1>1 DEF Timely
  <2> QED BY <1>1, <1>2, <2>1, <2>2 DEF Quiet
<1>4. Steps(t, x)
  BY <1>2 DEF Steps
<1> QED BY <1>2, <1>3, <1>4, IdleStepKeeps

(* A call begins, with the node it keeps or without.                       *)
LEMMA BeginKeeps ==
  ASSUME TpInv, NEW t \in TpThreads, TpBegins(t)
  PROVE  TpInv'
<1> DEFINE th == tpThread[t]
<1>1. Shape(th) /\ Timely(t)
  BY DEF TpInv
<1>2. ASSUME NEW op, NEW list, begin(t, op, list), op # "held", op = "hold" => th.held = NoNode PROVE TpInv'
  <2> DEFINE x == [th EXCEPT !.pc = "fetch", !.op = op, !.todo = list]
  <2>1. Steps(t, x) /\ UNCHANGED <<tpRefs, tpCache>> /\ UNCHANGED tpOdd /\ th.pc = "idle"
    BY <1>2 DEF begin, goes, Steps, at, cameraVars
  <2>2. x.pc = "fetch" /\ x.op = op /\ x.node = NoNode /\ x.held = th.held /\ DOMAIN x = DOMAIN IdleThread
    BY <1>1, <2>1 DEF Shape, IdleThread
  <2> HIDE DEF x
  <2>3. Quiet(t, x)
    BY <1>1, <1>2, <2>2, <2>1 DEF Shape, Quiet, Timely
  <2>4. \A n \in TpNodes : Own(x, n) = Own(th, n)
    BY <2>1, <2>2 DEF Own, Taken
  <2> QED BY <2>1, <2>3, <2>4, IdleStepKeeps
<1>3. CASE TpCallByName(t)
  BY <1>2, <1>3 DEF TpCallByName
<1>4. CASE TpHold(t)
  BY <1>2, <1>4 DEF TpHold
<1>5. CASE serialize_properties(t)
  BY <1>2, <1>5 DEF serialize_properties
<1>6. CASE TpUseHeld(t)
  <2> DEFINE x == [th EXCEPT !.pc = "got", !.op = "held", !.node = th.held,
                             !.todo = <<[name |-> th.held[2], gtype |-> "", n |-> 1]>>]
  <2>1. Steps(t, x) /\ UNCHANGED <<tpRefs, tpCache>> /\ UNCHANGED tpOdd /\ th.pc = "idle" /\ th.held # NoNode
    BY <1>6 DEF TpUseHeld, goes, Steps, at, cameraVars
  <2>2. x.pc = "got" /\ x.op = "held" /\ x.node = th.held /\ x.held = th.held /\ DOMAIN x = DOMAIN IdleThread
        /\ Tail(x.todo) = <<>>
    BY <1>1, <2>1 DEF Shape, IdleThread
  <2> HIDE DEF x
  <2>3. Quiet(t, x)
    BY <1>1, <2>2, <2>1 DEF Shape, Quiet, Timely
  <2>4. \A n \in TpNodes : Own(x, n) = Own(th, n)
    BY <2>1, <2>2 DEF Own, Taken
  <2> QED BY <2>1, <2>3, <2>4, IdleStepKeeps
<1>7. CASE set_tcam_properties(t)
  <2>1. PICK list : /\ at(t, "idle")
                    /\ IF tpOpen = 0 THEN tpPending' = list /\ UNCHANGED tpThread
                                     ELSE applies(t, list)
                    /\ UNCHANGED <<tpHas, tpOpen, tpOpened, tpData, tpClosed, tpCloser, tpRefs, tpCache, tpOdd>>
    BY <1>7 DEF set_tcam_properties
  <2>2. CASE tpThread' = tpThread
    BY <2>1, <2>2 DEF TpInv, Lists, Timely, entry, Referenced, Cached
  <2> QED BY <2>1, <2>2, AppliesKeeps
<1> QED BY <1>3, <1>4, <1>5, <1>6, <1>7 DEF TpBegins

-----------------------------------------------------------------------------
(* The node of a thread that is given back, or of the thread's own.        *)
LEMMA UnrefKeeps ==
  ASSUME TpInv, NEW t \in TpThreads, NEW err, tpThread[t].pc \in {"got", "use"},
         tpThread[t].op # "hold", unref(t),
         UNCHANGED <<tpHas, tpOpen, tpOpened, tpData, tpClosed, tpCloser, tpCache, tpOdd>>,
         DOMAIN tpThread' = TpThreads, tpThread'[t] = after(t, err),
         \A u \in TpThreads \ {t} : /\ Same(tpThread[u], tpThread'[u]) /\ DOMAIN tpThread'[u] = DOMAIN tpThread[u]
                                    /\ tpThread'[u].todo = tpThread[u].todo
  PROVE  TpInv'
<1> DEFINE th == tpThread[t]
           x == after(t, err)
<1>1. Quiet(t, x) /\ x.held = th.held /\ x.node = NoNode /\ x.pc \in {"fetch", "idle"}
  BY AfterSettles
<1>2. Shape(th) /\ th.node \in TpNodes
  BY DEF TpInv, Shape, SomeNode
<1>3. DOMAIN tpRefs' = TpNodes
  BY DEF unref, TpInv
<1>4. ASSUME NEW n \in TpNodes PROVE Referenced(n)'
  <2>1. tpRefs[n] \in Int /\ Cached(n)' = Cached(n) /\ Cached(n) \in Int
    BY DEF TpInv, Referenced, Cached
  <2>2. CASE th.op = "held"
    <3>1. Own(x, n) = Own(th, n)
      BY <1>1, <2>2 DEF Own, Taken
    <3>2. tpRefs' = tpRefs
      BY <2>2 DEF unref
    <3>3. Own(th, n) \in Int
      BY DEF Own
    <3>4. Follows(t, n)
      BY <2>1, <3>1, <3>2, <3>3 DEF Follows
    <3> QED BY <3>4, StaysReferenced
  <2>3. CASE th.op # "held"
    <3>1. Own(th, n) = Own(x, n) + (IF th.node = n THEN 1 ELSE 0)
      BY <1>1, <2>3 DEF Own, Taken
    <3>2. tpRefs'[n] = tpRefs[n] - (IF th.node = n THEN 1 ELSE 0)
      BY <1>2, <2>1, <2>3, SMTT(30) DEF unref, TpInv
    <3>3. Own(x, n) \in Int
      BY DEF Own
    <3>4. Follows(t, n)
      BY <2>1, <3>1, <3>2, <3>3, SMTT(30) DEF Follows
    <3> QED BY <3>4, StaysReferenced
  <2> QED BY <2>2, <2>3
<1>5. Lists'
  BY DEF TpInv, Lists
<1>6. ASSUME NEW u \in TpThreads PROVE Shape(tpThread'[u]) /\ Timely(u)'
  <2>1. CASE u = t
    BY <1>1, <2>1 DEF Quiet, Timely, entry
  <2>2. CASE u # t
    BY <2>2, SMTT(30) DEF TpInv, Timely, entry, Same, Shape
  <2> QED BY <2>1, <2>2
<1> QED BY <1>3, <1>4, <1>5, <1>6 DEF TpInv

(* skip_entry, fill_GError_device_lost, set_value and get_value.           *)
LEMMA UseKeeps ==
  ASSUME TpInv, NEW t \in TpThreads,
         skip_entry(t) \/ fill_GError_device_lost(t) \/ set_value(t) \/ get_value(t)
  PROVE  TpInv'
<1>1. ASSUME NEW err, tpThread[t].pc \in {"got", "use"}, tpThread[t].op # "hold", unref(t),
             goes(t, after(t, err)), UNCHANGED <<cameraVars, tpOdd>>
      PROVE  TpInv'
  <2>1. DOMAIN tpThread' = TpThreads /\ tpThread'[t] = after(t, err)
        /\ \A u \in TpThreads \ {t} : tpThread'[u] = tpThread[u]
    BY <1>1 DEF goes, TpInv
  <2> QED BY <1>1, <2>1, UnrefKeeps DEF cameraVars, Same
<1>2. CASE skip_entry(t)
  BY <1>1, <1>2 DEF skip_entry, at, Skipped
<1>3. CASE fill_GError_device_lost(t)
  BY <1>1, <1>3 DEF fill_GError_device_lost, at, Entering
<1>0. tpThread[t].pc = "use" => tpThread[t].op # "hold"
  BY DEF TpInv, Shape
<1>4. CASE get_value(t)
  BY <1>0, <1>1, <1>4 DEF get_value, at
<1>5. CASE set_value(t)
  <2>1. PICK err : tpThread' = [u \in TpThreads |->
                       IF u = t THEN after(t, err)
                       ELSE [tpThread[u] EXCEPT !.calm = @ /\ tpVal' = tpVal]]
    BY <1>5 DEF set_value
  <2>2. tpThread[t].pc = "use" /\ unref(t) /\ UNCHANGED <<cameraVars, tpOdd>>
    BY <1>5 DEF set_value, at
  <2>3. \A u \in TpThreads \ {t} : /\ Same(tpThread[u], tpThread'[u]) /\ DOMAIN tpThread'[u] = DOMAIN tpThread[u]
                                    /\ tpThread'[u].todo = tpThread[u].todo
    BY <2>1 DEF Same, TpInv, Shape, IdleThread
  <2>4. DOMAIN tpThread' = TpThreads /\ tpThread'[t] = after(t, err)
    BY <2>1
  <2> QED BY <1>0, <2>2, <2>3, <2>4, UnrefKeeps DEF cameraVars
<1> QED BY <1>2, <1>3, <1>4, <1>5

-----------------------------------------------------------------------------
(* fetch_item fails: nothing was taken, and the next entry is up.          *)
LEMMA FetchKeeps ==
  ASSUME TpInv, NEW t \in TpThreads, fetch_item(t)
  PROVE  TpInv'
<1> DEFINE th == tpThread[t]
           x == after(t, "TCAM_ERROR_PROPERTY_NOT_IMPLEMENTED")
<1>1. /\ Steps(t, x) /\ UNCHANGED <<tpRefs, tpCache>> /\ UNCHANGED tpOdd /\ th.pc = "fetch"
  BY DEF fetch_item, goes, Steps, at, cameraVars
<1>2. Shape(th)
  BY DEF TpInv
<1>3. Quiet(t, x) /\ x.held = th.held /\ x.node = NoNode /\ x.pc \in {"fetch", "idle"}
  BY <1>2, AfterSettles DEF Shape
<1> HIDE DEF x
<1>4. \A n \in TpNodes : Own(x, n) = Own(th, n)
  BY <1>1, <1>3 DEF Own, Taken
<1> QED BY <1>1, <1>3, <1>4, IdleStepKeeps

(* The node that find_or_create_entry answers with is one of the list that *)
(* is offered.                                                             *)
LEMMA NodeOfList ==
  ASSUME TpInv, tpData # 0, NEW name \in tpHas, NEW copy \in {Nobody} \cup TpThreads
  PROVE  /\ <<tpData, name, copy>> \in TpNodes /\ <<tpData, name, copy>>[1] = tpData
         /\ tpData <= tpOpened
<1>1. tpData \in 1..TpOpens /\ tpData <= tpOpened
  BY TpAssumption DEF TpInv, Lists
<1>2. name \in DOMAIN TpProps
  BY DEF TpInv, Lists
<1> QED BY <1>1, <1>2 DEF TpNodes

(* A thread that was given node m has one reference more, of m.            *)
LEMMA GotNode ==
  ASSUME TpInv, NEW t \in TpThreads, NEW copy \in {Nobody} \cup TpThreads, got(t, copy),
         tpThread[t].pc \in {"fetch", "create"}, tpData # 0, entry(t).name \in tpHas,
         UNCHANGED <<tpHas, tpOpen, tpOpened, tpData, tpClosed, tpCloser>>
  PROVE  LET m == <<tpData, entry(t).name, copy>>
         IN \E x : /\ Steps(t, x) /\ Quiet(t, x)
                   /\ \A n \in TpNodes : Own(x, n) = Own(tpThread[t], n) + (IF n = m THEN 1 ELSE 0)
<1> DEFINE th == tpThread[t]
           m == <<tpData, entry(t).name, copy>>
           x == [th EXCEPT !.pc = "got", !.node = m]
<1>1. Shape(th) /\ Timely(t)
  BY DEF TpInv
<1>2. Steps(t, x)
  BY DEF got, goes, Steps
<1>3. m \in TpNodes /\ m[1] = tpData /\ tpData <= tpOpened
  BY NodeOfList
<1>4. x.pc = "got" /\ x.node = m /\ x.held = th.held /\ x.op = th.op /\ DOMAIN x = DOMAIN IdleThread
  BY <1>1 DEF Shape, IdleThread
<1>5. th.op # "held" /\ (th.op = "hold" => th.held = NoNode) /\ th.held \in SomeNode
  BY <1>1 DEF Shape
<1> HIDE DEF m, x
<1>6. Shape(x)
  BY <1>3, <1>4, <1>5, NodesDiffer DEF Shape, SomeNode
<1>7. Quiet(t, x)
  BY <1>1, <1>3, <1>4, <1>6 DEF Quiet, Timely
<1>8. \A n \in TpNodes : Own(x, n) = Own(th, n) + (IF n = m THEN 1 ELSE 0)
  BY <1>4, <1>5 DEF Own, Taken
<1> QED BY <1>2, <1>7, <1>8 DEF m

(* find_or_create_entry                                                    *)
LEMMA FindKeeps ==
  ASSUME TpInv, NEW t \in TpThreads, find_or_create_entry(t)
  PROVE  TpInv'
<1> DEFINE th == tpThread[t]
           m == <<tpData, entry(t).name, Nobody>>
<1>1. /\ th.pc = "fetch" /\ tpData # 0 /\ entry(t).name \in tpHas
      /\ UNCHANGED <<tpHas, tpOpen, tpOpened, tpData, tpClosed, tpCloser>>
      /\ UNCHANGED <<tpCache>> /\ UNCHANGED <<tpOdd>>
  BY DEF find_or_create_entry, at, cameraVars
<1>2. CASE entry(t).name \in tpCache
  <2>1. got(t, Nobody) /\ tpRefs' = [tpRefs EXCEPT ![m] = @ + 1]
    BY <1>2 DEF find_or_create_entry
  <2>2. PICK x : /\ Steps(t, x) /\ Quiet(t, x)
                 /\ \A n \in TpNodes : Own(x, n) = Own(tpThread[t], n) + (IF n = m THEN 1 ELSE 0)
    BY <1>1, <2>1, GotNode
  <2>3. tpThread'[t] = x /\ DOMAIN tpRefs' = TpNodes
    BY <2>1, <2>2 DEF Steps, TpInv
  <2>4. ASSUME NEW n \in TpNodes PROVE Follows(t, n)
    <3> HIDE DEF m
    <3>1. Own(th, n) \in Int /\ Cached(n) \in Int /\ tpRefs[n] \in Int /\ Cached(n)' = Cached(n)
      BY <1>1 DEF Own, Cached, TpInv, Referenced
    <3>2. tpRefs'[n] = tpRefs[n] + (IF n = m THEN 1 ELSE 0)
      BY <2>1, <3>1 DEF TpInv
    <3>3. Own(x, n) = Own(th, n) + (IF n = m THEN 1 ELSE 0)
      BY <2>2
    <3> QED BY <1>1, <2>3, <3>1, <3>2, <3>3 DEF Follows
  <2> QED BY <2>2, <2>3, <2>4, StepKeeps
<1>3. CASE entry(t).name \notin tpCache
  <2> DEFINE x == [th EXCEPT !.pc = "create"]
  <2>1. Steps(t, x) /\ UNCHANGED <<tpRefs, tpCache>>
    BY <1>1, <1>3 DEF find_or_create_entry, Steps, goes
  <2>2. Shape(th) /\ Timely(t)
    BY DEF TpInv
  <2>3. /\ x.pc = "create" /\ x.node = th.node /\ x.held = th.held /\ x.op = th.op
        /\ DOMAIN x = DOMAIN IdleThread /\ x.todo = th.todo
    BY <2>2 DEF Shape, IdleThread
  <2> HIDE DEF x
  <2>4. Shape(x)
    BY <1>1, <2>2, <2>3 DEF Shape
  <2>5. Quiet(t, x)
    BY <1>1, <2>2, <2>3, <2>4 DEF Quiet, Timely, entry
  <2>6. \A n \in TpNodes : Own(x, n) = Own(th, n)
    BY <1>1, <2>3 DEF Own, Taken
  <2> QED BY <1>1, <2>1, <2>5, <2>6, IdleStepKeeps
<1> QED BY <1>2, <1>3

(* tcamprop_impl_create_node: one reference for the container and one for  *)
(* the caller; a second node of the same name keeps the container's.       *)
LEMMA CreateKeeps ==
  ASSUME TpInv, NEW t \in TpThreads, tcamprop_impl_create_node(t)
  PROVE  TpInv'
<1> DEFINE th == tpThread[t]
           name == entry(t).name
           copy == IF name \in tpCache THEN t ELSE Nobody
           m == <<tpData, name, copy>>
<1>1. /\ th.pc = "create" /\ got(t, copy) /\ tpCache' = tpCache \cup {name}
      /\ tpRefs' = [tpRefs EXCEPT ![m] = @ + 2]
      /\ tpOdd' = tpOdd \cup {<<tpData, name, c>> : c \in {copy} \ {Nobody}}
      /\ UNCHANGED <<tpHas, tpOpen, tpOpened, tpData, tpClosed, tpCloser>>
  BY DEF tcamprop_impl_create_node, at
<1>2. tpData # 0 /\ name \in tpHas
  BY <1>1 DEF TpInv, Timely
<1>3. PICK x : /\ Steps(t, x) /\ Quiet(t, x)
               /\ \A n \in TpNodes : Own(x, n) = Own(th, n) + (IF n = m THEN 1 ELSE 0)
  BY <1>1, <1>2, GotNode
<1>4. tpThread'[t] = x /\ DOMAIN tpRefs' = TpNodes
  BY <1>1, <1>3 DEF Steps, TpInv
<1>5. ASSUME NEW n \in TpNodes PROVE Follows(t, n)
  <2>1. Own(th, n) \in Int /\ Cached(n) \in Int /\ tpRefs[n] \in Int /\ tpOdd \subseteq tpOdd'
    BY <1>1, SMTT(30) DEF Own, Cached, TpInv, Referenced
  <2>2. tpRefs'[n] = tpRefs[n] + (IF n = m THEN 2 ELSE 0)
    BY <1>1, <2>1, SMTT(30) DEF TpInv
  <2>3. Own(x, n) = Own(th, n) + (IF n = m THEN 1 ELSE 0)
    BY <1>3
  <2>4. CASE name \in tpCache
    <3>1. Cached(n)' = Cached(n) /\ (n = m => n \in tpOdd')
      BY <1>1, <2>4, TpAssumption DEF Cached
    <3> HIDE DEF m
    <3> QED BY <1>4, <2>1, <2>2, <2>3, <3>1 DEF Follows
  <2>5. CASE name \notin tpCache
    <3>1. n = m <=> n[1] = tpData /\ n[2] = name /\ n[3] = Nobody
      BY <2>5 DEF TpNodes
    <3>2. Cached(n)' = Cached(n) + (IF n = m THEN 1 ELSE 0)
      BY <1>1, <2>5, <3>1 DEF Cached
    <3>3. tpOdd' = tpOdd
      BY <1>1, <2>5
    <3> HIDE DEF m
    <3> QED BY <1>4, <2>1, <2>2, <2>3, <3>2, <3>3 DEF Follows
  <2> QED BY <2>4, <2>5
<1> QED BY <1>3, <1>4, <1>5, StepKeeps

-----------------------------------------------------------------------------
(* A call with the wrong type keeps its reference for ever: the node joins *)
(* the ones that may have more.                                            *)
LEMMA IncompatibleKeeps ==
  ASSUME TpInv, NEW t \in TpThreads, type_incompatible(t)
  PROVE  TpInv'
<1> DEFINE th == tpThread[t]
           x == after(t, map_error("parameter_type_incompatible"))
<1>1. /\ Steps(t, x) /\ UNCHANGED <<tpRefs, tpCache>> /\ tpOdd' = tpOdd \cup {th.node}
      /\ th.pc = "got" /\ th.op = "call"
  BY DEF type_incompatible, WrongType, goes, Steps, at, cameraVars
<1>2. Quiet(t, x) /\ x.held = th.held /\ x.node = NoNode /\ x.pc \in {"fetch", "idle"}
  BY <1>1, AfterSettles
<1> HIDE DEF x
<1>3. \A n \in TpNodes : Own(x, n) = Own(th, n) \/ (n \in tpOdd' /\ Own(x, n) <= Own(th, n))
  BY <1>1, <1>2 DEF Own, Taken
<1> QED BY <1>1, <1>2, <1>3, IdleStepKeeps

(* The application keeps the node it got.                                  *)
LEMMA GetNodeKeeps ==
  ASSUME TpInv, NEW t \in TpThreads, get_tcam_property(t)
  PROVE  TpInv'
<1> DEFINE th == tpThread[t]
           x == [IdleThread EXCEPT !.held = th.node]
<1>1. Steps(t, x) /\ UNCHANGED <<tpRefs, tpCache>> /\ UNCHANGED tpOdd /\ th.pc = "got" /\ th.op = "hold"
  BY DEF get_tcam_property, goes, Steps, at, cameraVars
<1>2. Shape(th) /\ Timely(t) /\ tpOpened \in Nat /\ NoNode[1] = 0
  BY DEF TpInv, Lists, NoNode
<1>3. /\ x.pc = "idle" /\ x.op = "" /\ x.node = NoNode /\ x.held = th.node /\ DOMAIN x = DOMAIN IdleThread
  BY DEF IdleThread
<1> HIDE DEF x
<1>4. th.held = NoNode /\ th.node \in TpNodes /\ NoNode \notin TpNodes
  BY <1>1, <1>2, NodesDiffer DEF Shape, SomeNode
<1>5. Shape(x)
  BY <1>3, <1>4 DEF Shape, SomeNode
<1>6. Quiet(t, x)
  <2>1. th.node[1] <= tpOpened /\ 0 <= tpOpened
    BY <1>2 DEF Timely
  <2> HIDE DEF th
  <2>2. x.node[1] <= tpOpened /\ x.held[1] <= tpOpened
    BY <1>2, <1>3, <2>1
  <2> QED BY <1>3, <1>5, <2>2 DEF Quiet
<1>7. ASSUME NEW n \in TpNodes PROVE Own(x, n) = Own(th, n)
  <2>1. n # NoNode
    BY <1>4
  <2>2. Own(x, n) = (IF th.node = n THEN 1 ELSE 0)
    <3>1. ~Taken(x, n) /\ x.held = th.node
      BY <1>3 DEF Taken
    <3> HIDE DEF th
    <3> QED BY <3>1 DEF Own
  <2>3. Own(th, n) = (IF th.node = n THEN 1 ELSE 0)
    BY <1>1, <1>4, <2>1 DEF Own, Taken
  <2> QED BY <2>2, <2>3
<1> QED BY <1>1, <1>6, <1>7, IdleStepKeeps

(* make_guard: a list that is not closed is the one that is offered.       *)
LEMMA GuardKeeps ==
  ASSUME TpInv, NEW t \in TpThreads, make_guard(t)
  PROVE  TpInv'
<1> DEFINE th == tpThread[t]
           x == [th EXCEPT !.pc = "use"]
<1>1. /\ Steps(t, x) /\ UNCHANGED <<tpRefs, tpCache>> /\ UNCHANGED tpOdd /\ th.pc = "got"
      /\ th.op # "hold" /\ th.node[1] \notin tpClosed
  BY DEF make_guard, Entering, owning_lock, goes, Steps, at, cameraVars
<1>2. Shape(th) /\ Timely(t)
  BY DEF TpInv
<1>3. /\ x.pc = "use" /\ x.op = th.op /\ x.node = th.node /\ x.held = th.held /\ DOMAIN x = DOMAIN IdleThread
      /\ x.todo = th.todo
  BY <1>2 DEF Shape, IdleThread
<1> HIDE DEF x
<1>4. th.node \in TpNodes /\ th.node[1] <= tpOpened
  BY <1>1, <1>2 DEF Shape, SomeNode, Timely
<1>5. th.node[1] = tpData
  <2>1. th.node[1] \in 1..TpOpens /\ tpOpened \in Nat /\ \A g \in 1..tpOpened : g \notin tpClosed => g = tpData
    BY <1>4, NodesDiffer DEF TpInv, Lists
  <2> DEFINE g == th.node[1]
  <2>2. g \in 1..TpOpens /\ g <= tpOpened /\ g \notin tpClosed
    BY <1>1, <1>4, <2>1
  <2> HIDE DEF g
  <2>3. g \in 1..tpOpened
    BY <2>1, <2>2
  <2>4. g = tpData
    BY <2>1, <2>2, <2>3
  <2> QED BY <2>4 DEF g
<1>6. Shape(x)
  BY <1>1, <1>2, <1>3 DEF Shape
<1>7. Quiet(t, x)
  BY <1>2, <1>3, <1>5, <1>6 DEF Quiet, Timely
<1>8. \A n \in TpNodes : Own(x, n) = Own(th, n)
  BY <1>1, <1>3 DEF Own, Taken
<1> QED BY <1>1, <1>7, <1>8, IdleStepKeeps

(* An application gives back the node it kept.                             *)
LEMMA DropKeeps ==
  ASSUME TpInv, NEW t \in TpThreads, TpDropHeld(t)
  PROVE  TpInv'
<1> DEFINE th == tpThread[t]
           m == th.held
           x == [th EXCEPT !.held = NoNode]
<1>1. /\ Steps(t, x) /\ UNCHANGED tpCache /\ UNCHANGED tpOdd /\ th.pc = "idle" /\ th.held # NoNode
      /\ tpRefs' = [tpRefs EXCEPT ![m] = @ - 1]
  BY DEF TpDropHeld, goes, Steps, at, cameraVars
<1>2. Shape(th) /\ Timely(t) /\ tpOpened \in Nat /\ NoNode[1] = 0
  BY DEF TpInv, Lists, NoNode
<1>3. /\ x.pc = "idle" /\ x.op = th.op /\ x.node = th.node /\ x.held = NoNode /\ DOMAIN x = DOMAIN IdleThread
  BY <1>1, <1>2 DEF Shape, IdleThread
<1>4. tpThread'[t] = x /\ DOMAIN tpRefs' = TpNodes
  BY <1>1 DEF Steps, TpInv
<1> HIDE DEF x
<1>5. Shape(x)
  BY <1>1, <1>2, <1>3 DEF Shape, SomeNode
<1>6. Quiet(t, x)
  BY <1>1, <1>2, <1>3, <1>5, SMTT(30) DEF Quiet, Timely
<1>7. ASSUME NEW n \in TpNodes PROVE Follows(t, n)
  <2>1. Own(x, n) \in Int /\ Cached(n) \in Int /\ tpRefs[n] \in Int /\ Cached(n)' = Cached(n)
    BY <1>1 DEF Own, Cached, TpInv, Referenced, Steps
  <2>2. Own(th, n) = Own(x, n) + (IF n = m THEN 1 ELSE 0)
    BY <1>1, <1>3, NodesDiffer DEF Own, Taken
  <2>3. tpRefs'[n] = tpRefs[n] - (IF n = m THEN 1 ELSE 0)
    BY <1>1, <2>1, SMTT(30) DEF TpInv
  <2> HIDE DEF m
  <2> QED BY <1>1, <1>4, <2>1, <2>2, <2>3 DEF Follows
<1> QED BY <1>1, <1>4, <1>6, <1>7, StepKeeps

-----------------------------------------------------------------------------
(* What no thread does: opening and closing.  The threads keep what they   *)
(* have, and the references stay.                                          *)
LEMMA SameCounts ==
  ASSUME NEW th, NEW th2, \A u \in TpThreads : Same(th[u], th2[u])
  PROVE  \A n : Count(th2, n) = Count(th, n)
<1>1. \A n : Takers(th2, n) = Takers(th, n) /\ Keepers(th2, n) = Keepers(th, n)
  BY DEF Takers, Keepers, Same, Taken
<1> QED BY <1>1 DEF Count

(* clear_list                                                              *)
LEMMA ClearKeeps == TpInv /\ clear_list => TpInv'
<1> SUFFICES ASSUME TpInv, clear_list PROVE TpInv'
  OBVIOUS
<1>1. /\ tpOpen # 0 /\ tpCloser = "idle" /\ tpCloser' = "destroy"
      /\ tpThread' = [t \in TpThreads |-> [tpThread[t] EXCEPT !.calm = FALSE]]
      /\ UNCHANGED <<tpOpen, tpOpened, tpData, tpClosed, tpCache, tpRefs, tpHas, tpOdd>>
  BY DEF clear_list
<1>2. ASSUME NEW u \in TpThreads
      PROVE  /\ Same(tpThread[u], tpThread'[u]) /\ DOMAIN tpThread'[u] = DOMAIN tpThread[u]
             /\ tpThread'[u].todo = tpThread[u].todo
  BY <1>1 DEF TpInv, Shape, IdleThread, Same
<1>3. Lists'
  BY <1>1 DEF TpInv, Lists
<1>4. ASSUME NEW u \in TpThreads PROVE Shape(tpThread'[u]) /\ Timely(u)'
  <2>1. Shape(tpThread[u]) /\ Timely(u)
    BY DEF TpInv
  <2> QED BY <1>1, <1>2, <2>1 DEF Timely, entry, Same, Shape
<1>5. ASSUME NEW n \in TpNodes PROVE Referenced(n)'
  <2>1. Count(tpThread', n) = Count(tpThread, n)
    BY <1>2, SameCounts
  <2>2. Referenced(n) /\ Cached(n)' = Cached(n)
    BY <1>1 DEF TpInv, Cached
  <2> QED BY <1>1, <2>1, <2>2 DEF Referenced
<1>6. DOMAIN tpThread' = TpThreads /\ DOMAIN tpRefs' = TpNodes
  BY <1>1 DEF TpInv
<1> QED BY <1>3, <1>4, <1>5, <1>6 DEF TpInv

(* DestroyList: the container gives its references back, and no thread is  *)
(* inside a node of the list that goes.                                    *)
LEMMA DestroyKeeps == TpInv /\ DestroyList => TpInv'
<1> SUFFICES ASSUME TpInv, DestroyList PROVE TpInv'
  OBVIOUS
<1>1. /\ tpCloser = "destroy" /\ tpCloser' = "device" /\ Guarded(tpData) = {}
      /\ tpClosed' = tpClosed \cup {tpData} /\ tpCache' = {} /\ tpData' = 0
      /\ UNCHANGED <<tpOpen, tpOpened, tpThread, tpHas, tpOdd>>
  BY DEF DestroyList
<1>2. tpRefs' = [n \in TpNodes |-> IF n[1] = tpData /\ n[3] = Nobody /\ n[2] \in tpCache
                               THEN tpRefs[n] - 1 ELSE tpRefs[n]]
  BY DEF DestroyList, UnrefNodes
<1>3. tpData \in 1..tpOpened /\ tpOpened \in Nat
  BY <1>1 DEF TpInv, Lists
<1>4. Lists'
  BY <1>1, <1>3 DEF TpInv, Lists
<1>5. ASSUME NEW u \in TpThreads PROVE Shape(tpThread'[u]) /\ Timely(u)'
  <2>1. Shape(tpThread[u]) /\ Timely(u)
    BY DEF TpInv
  <2>2. tpThread[u].pc # "create" /\ tpThread[u].pc # "use"
    BY <1>1, <2>1 DEF Guarded, at, Timely
  <2> QED BY <1>1, <2>1, <2>2 DEF Timely
<1>6. ASSUME NEW n \in TpNodes PROVE Referenced(n)'
  <2>1. Referenced(n) /\ Count(tpThread', n) = Count(tpThread, n) /\ Count(tpThread, n) \in Int
    BY <1>1, CountIsNat DEF TpInv, Count
  <2>2. Cached(n)' = 0
    BY <1>1 DEF Cached
  <2>3. tpRefs'[n] = tpRefs[n] - Cached(n)
    BY <1>2, <2>1 DEF Cached, Referenced
  <2>4. Cached(n) \in Int
    BY DEF Cached
  <2> QED BY <1>1, <2>1, <2>2, <2>3, <2>4 DEF Referenced
<1>7. DOMAIN tpThread' = TpThreads /\ DOMAIN tpRefs' = TpNodes
  BY <1>1, <1>2 DEF TpInv
<1> QED BY <1>4, <1>5, <1>6, <1>7 DEF TpInv

(* The rest of close, and steps that change nothing.                       *)
LEMMA CloseKeeps == TpInv /\ (TpClose \/ UNCHANGED tpVars) => TpInv'
<1> SUFFICES ASSUME TpInv, TpClose \/ UNCHANGED tpVars PROVE TpInv'
  OBVIOUS
<1>1. /\ UNCHANGED <<tpOpened, tpData, tpClosed, tpCache, tpRefs, tpThread, tpHas, tpOdd>>
      /\ \/ UNCHANGED <<tpOpen, tpCloser>>
         \/ tpCloser = "device" /\ tpCloser' = "idle" /\ tpOpen' = 0
  BY DEF TpClose, tpVars
<1>2. Lists'
  <2>1. CASE UNCHANGED <<tpOpen, tpCloser>>
    BY <1>1, <2>1 DEF TpInv, Lists
  <2>2. CASE tpCloser = "device" /\ tpCloser' = "idle" /\ tpOpen' = 0
    <3>1. tpData = 0 /\ tpOpened \in Nat
      BY <2>2 DEF TpInv, Lists
    <3> QED BY <1>1, <2>2, <3>1 DEF TpInv, Lists
  <2> QED BY <1>1, <2>1, <2>2
<1>3. \A u \in TpThreads : Shape(tpThread'[u]) /\ Timely(u)'
  BY <1>1 DEF TpInv, Timely, entry
<1>4. \A n \in TpNodes : Referenced(n)'
  BY <1>1 DEF TpInv, Referenced, Cached
<1> QED BY <1>1, <1>2, <1>3, <1>4 DEF TpInv

(* TpOpenCamera: the list of the new camera is empty and has no user.      *)
LEMMA OpenKeeps ==
  ASSUME TpInv, NEW t \in TpThreads, TpOpenCamera(t)
  PROVE  TpInv'
<1>1. /\ at(t, "idle") /\ tpOpen = 0 /\ tpCloser = "idle" /\ tpOpened < TpOpens /\ Fetching = {}
      /\ tpOpened' = tpOpened + 1 /\ tpOpen' = tpOpened + 1 /\ tpData' = tpOpened + 1 /\ tpCache' = {}
      /\ tpHas' \in TpCameras
      /\ UNCHANGED <<tpClosed, tpRefs, tpCloser, tpOdd>>
      /\ UNCHANGED tpThread \/ applies(t, tpPending)
  BY DEF TpOpenCamera
<1>2. tpData = 0 /\ tpOpened \in Nat /\ TpOpens \in Nat
  BY <1>1, TpAssumption DEF TpInv, Lists
<1>3. Lists'
  <2>1. tpHas' \subseteq DOMAIN TpProps
    BY <1>1, TpAssumption
  <2> QED BY <1>1, <1>2, <2>1 DEF TpInv, Lists
<1>4. \A u \in TpThreads : /\ Shape(tpThread[u]) /\ tpThread[u].pc \notin {"create", "use"}
                           /\ tpThread[u].node[1] <= tpOpened /\ tpThread[u].held[1] <= tpOpened
  <2> TAKE u \in TpThreads
  <2>1. Shape(tpThread[u]) /\ Timely(u)
    BY DEF TpInv
  <2>2. tpThread[u].pc # "create"
    BY <1>1 DEF Fetching, at
  <2>3. tpThread[u].pc # "use"
    BY <1>2, <2>1, NodesDiffer DEF Shape, Timely, SomeNode
  <2> QED BY <2>1, <2>2, <2>3 DEF Timely
<1>5. ASSUME NEW n \in TpNodes PROVE Cached(n) = 0 /\ Cached(n)' = 0
  BY <1>1, <1>2, NodesDiffer DEF Cached
<1>6. PICK y : /\ tpThread'[t] = y /\ Shape(y) /\ y.pc \notin {"create", "use"}
               /\ DOMAIN tpThread' = TpThreads /\ \A u \in TpThreads \ {t} : tpThread'[u] = tpThread[u]
               /\ y.node \in {tpThread[t].node, NoNode} /\ y.held = tpThread[t].held
               /\ \A n \in TpNodes : Own(y, n) = Own(tpThread[t], n)
  <2>1. CASE tpThread' = tpThread
    BY <1>4, <2>1 DEF TpInv
  <2>2. CASE applies(t, tpPending)
    <3>1. PICK x : /\ tpThread' = [tpThread EXCEPT ![t] = x] /\ Shape(x)
                   /\ x.pc = "fetch" /\ x.node = NoNode /\ x.held = tpThread[t].held
                   /\ \A n \in TpNodes : Own(x, n) = Own(tpThread[t], n)
      BY <1>1, <1>4, <2>2, AppliesQuiet
    <3>2. tpThread'[t] = x /\ DOMAIN tpThread' = TpThreads /\ \A u \in TpThreads \ {t} : tpThread'[u] = tpThread[u]
      BY <3>1 DEF TpInv
    <3> QED BY <3>1, <3>2
  <2> QED BY <1>1, <2>1, <2>2
<1>7. tpThread'[t] = y /\ DOMAIN tpThread' = TpThreads /\ \A u \in TpThreads \ {t} : tpThread'[u] = tpThread[u]
  BY <1>6
<1>8. ASSUME NEW u \in TpThreads PROVE Shape(tpThread'[u]) /\ Timely(u)'
  <2>1. ASSUME NEW g, g \in Int, g <= tpOpened PROVE g <= tpOpened + 1
    BY <1>2, <2>1
  <2>2. tpThread'[u].node \in {tpThread[u].node, NoNode} /\ tpThread'[u].held = tpThread[u].held
    BY <1>6, <1>7
  <2>3. NoNode[1] = 0 /\ \A n \in SomeNode : n[1] \in Int
    <3>1. NoNode[1] = 0
      BY DEF NoNode
    <3>2. \A n \in TpNodes : n[1] \in Int
      BY NodesDiffer
    <3> QED BY <3>1, <3>2 DEF SomeNode
  <2>4. Shape(tpThread'[u]) /\ tpThread'[u].pc \notin {"create", "use"}
    BY <1>4, <1>6, <1>7
  <2>5. tpThread[u].node[1] <= tpOpened + 1 /\ tpThread[u].held[1] <= tpOpened + 1 /\ NoNode[1] <= tpOpened + 1
    <3>1. tpThread[u].node[1] \in Int /\ tpThread[u].held[1] \in Int
      BY <1>4, <2>3 DEF Shape
    <3>2. tpThread[u].node[1] <= tpOpened /\ tpThread[u].held[1] <= tpOpened
      BY <1>4
    <3>3. 0 <= tpOpened + 1
      BY <1>2
    <3> QED BY <2>1, <2>3, <3>1, <3>2, <3>3
  <2>6. tpThread'[u].node[1] <= tpOpened + 1 /\ tpThread'[u].held[1] <= tpOpened + 1
    BY <2>2, <2>5
  <2> QED BY <1>1, <2>4, <2>6 DEF Timely
<1>9. ASSUME NEW n \in TpNodes PROVE Referenced(n)'
  <2>1. \A u \in TpThreads \ {t} : Same(tpThread[u], tpThread'[u])
    BY <1>7 DEF Same
  <2>2. tpRefs[n] \in Int /\ Own(tpThread[t], n) \in Int
    BY DEF TpInv, Referenced, Own
  <2>3. Follows(t, n)
    <3>1. tpRefs' = tpRefs /\ tpOdd' = tpOdd
      BY <1>1, Zenon
    <3>2. Own(tpThread'[t], n) = Own(tpThread[t], n)
      BY <1>6, <1>7, Zenon
    <3>3. Cached(n) = 0 /\ Cached(n)' = 0
      BY <1>5
    <3> QED BY <2>2, <3>1, <3>2, <3>3 DEF Follows
  <2> QED BY <2>1, <2>3, StaysReferenced
<1> QED BY <1>1, <1>3, <1>7, <1>8, <1>9 DEF TpInv

(* TpInit                                                                  *)
LEMMA TpInitInv == TpInit => TpInv
<1> SUFFICES ASSUME TpInit PROVE TpInv
  OBVIOUS
<1>1. Lists
  BY TpAssumption DEF TpInit, Lists
<1>2. /\ \A t \in TpThreads : tpThread[t] = IdleThread
      /\ DOMAIN tpThread = TpThreads /\ DOMAIN tpRefs = TpNodes /\ \A n \in TpNodes : tpRefs[n] = 0
      /\ tpOpened = 0 /\ tpCache = {}
  BY DEF TpInit
<1>3. /\ IdleThread.pc = "idle" /\ IdleThread.op = "" /\ IdleThread.node = NoNode /\ IdleThread.held = NoNode
      /\ NoNode[1] = 0 /\ NoNode \in SomeNode
  BY DEF IdleThread, NoNode, SomeNode
<1>4. Shape(IdleThread)
  BY <1>3 DEF Shape
<1>5. ASSUME NEW t \in TpThreads PROVE Shape(tpThread[t]) /\ Timely(t)
  <2>1. tpThread[t] = IdleThread
    BY <1>2
  <2>2. 0 <= tpOpened
    BY <1>2
  <2>3. IdleThread.node[1] <= tpOpened /\ IdleThread.held[1] <= tpOpened
    BY <1>3, <2>2, Zenon
  <2> QED BY <1>3, <1>4, <2>1, <2>3 DEF Timely
<1>6. ASSUME NEW n \in TpNodes PROVE Referenced(n)
  <2>1. Takers(tpThread, n) = {} /\ Keepers(tpThread, n) = {}
    BY <1>2, <1>3, NodesDiffer DEF Takers, Keepers, Taken
  <2>2. Count(tpThread, n) = 0
    BY <2>1, FS_EmptySet DEF Count
  <2>3. Cached(n) = 0
    BY <1>2 DEF Cached
  <2> QED BY <1>2, <2>2, <2>3 DEF Referenced
<1> QED BY <1>1, <1>2, <1>5, <1>6 DEF TpInv

(* However threads look up, keep, use and give back properties while the   *)
(* camera is opened and closed, a node is used only while its camera is    *)
(* open, is never freed while somebody has it, and is freed once nobody    *)
(* has it and its list is closed, save for the nodes that were asked for   *)
(* as a wrong type or created twice (tcam_property_provider, make_guard).  *)
THEOREM NodesSafe == TpSpec => []NodesAreSafe
<1>1. TpInit => TpInv
  BY TpInitInv
<1>2. TpInv /\ [TpNext]_tpVars => TpInv'
  <2> SUFFICES ASSUME TpInv, [TpNext]_tpVars PROVE TpInv'
    OBVIOUS
  <2>1. CASE clear_list
    BY <2>1, ClearKeeps
  <2>2. CASE DestroyList
    BY <2>2, DestroyKeeps
  <2>3. CASE TpClose \/ UNCHANGED tpVars
    BY <2>3, CloseKeeps
  <2>4. ASSUME NEW t \in TpThreads, TpOpenCamera(t) \/ TpBegins(t) \/ TpDropHeld(t) PROVE TpInv'
    BY <2>4, OpenKeeps, BeginKeeps, DropKeeps
  <2>5. ASSUME NEW t \in TpThreads, TpGoesOn(t) PROVE TpInv'
    BY <2>5, FetchKeeps, FindKeeps, CreateKeeps, IncompatibleKeeps, GetNodeKeeps, GuardKeeps, UseKeeps DEF TpGoesOn
  <2> QED BY <2>1, <2>2, <2>3, <2>4, <2>5 DEF TpNext
<1> QED BY <1>1, <1>2, InvIsSafe, PTL DEF TpSpec
=============================================================================
