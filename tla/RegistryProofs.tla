---------------------------- MODULE RegistryProofs ----------------------------
(***************************************************************************)
(* Proofs about Registry, for any number of threads, nodes, names and      *)
(* rules, and any choice of faults.                                        *)
(*                                                                         *)
(* That a delivery reaches whom it should is not inductive as it stands:   *)
(* it depends on what the walk has passed and on what it has still to      *)
(* visit.  IInv says that the guard is held exactly during a walk, that    *)
(* what was passed is registered and was called if it matches, and that    *)
(* each member that is due was called or is ahead of the walk.             *)
(***************************************************************************)
EXTENDS Registry, FiniteSetTheorems, TLAPS

Walking == at[MainThread] \in {"walk", "visit"}

(* The guard is held by the main loop's thread for the whole delivery. *)
GuardInv ==
    /\ guard = MainThread <=> Walking
    /\ \A t \in Threads : at[t] \in {"walk", "visit"} => t = MainThread

(* The interface a thread has in hand. *)
HandInv ==
    /\ \A t \in Threads : at[t] = "append" => arg[t] \in Ifaces
    /\ at[MainThread] = "visit" =>
         /\ arg[MainThread] \in listed
         /\ Same(spelling[arg[MainThread]], msg[1])

WalkInv ==
    /\ guard = MainThread => msg \in Messages
    /\ guard = Null =>
         msg = Null /\ toVisit = {} /\ seen = {} /\ called = {} /\ due = {}
    /\ toVisit \subseteq listed

(* Member s is registered and asks for the message in delivery. *)
Hit(s) ==
    /\ s \in Registered
    /\ Same(topic[s], msg[2])
    /\ \E i \in listed : s \in members[i] /\ Same(spelling[i], msg[1])

SeenInv ==
    /\ seen \subseteq Registered
    /\ called \subseteq seen
    /\ \A s \in seen : Same(topic[s], msg[2]) => s \in called
    /\ \A s \in called : Hit(s)

Ahead(s) ==
    \/ \E i \in toVisit : s \in members[i]
    \/ at[MainThread] = "visit" /\ s \in members[arg[MainThread]]

DueInv == \A s \in due : Hit(s) /\ (s \in called \/ Ahead(s))

IInv ==
    /\ TypeOK
    /\ GuardInv
    /\ HandInv
    /\ NodesConsistent
    /\ WalkInv
    /\ SeenInv
    /\ DueInv
    /\ RuleKept

-----------------------------------------------------------------------------
(* Facts about the registry *)

(* A thread that takes the guard finds no walk in progress. *)
LEMMA NoWalk ==
  ASSUME IInv, guard = Null
  PROVE  /\ at[MainThread] \notin {"walk", "visit"}
         /\ \A t \in Threads : at[t] \notin {"walk", "visit"}
         /\ msg = Null /\ toVisit = {} /\ seen = {} /\ called = {} /\ due = {}
  BY ThreadsAssumption, NullAssumption DEF IInv, GuardInv, Walking, WalkInv

(* A set of interface nodes is finite, and so are those of one name. *)
LEMMA SpelledFinite ==
  ASSUME listed \subseteq Ifaces, NEW n
  PROVE  /\ IsFiniteSet(SpelledLike(n) \ failed)
         /\ Cardinality(SpelledLike(n) \ failed) \in Nat
<1>1. SpelledLike(n) \ failed \subseteq Ifaces
  BY DEF SpelledLike
<1> QED BY <1>1, FiniteAssumption, FS_Subset, FS_CardinalityType

-----------------------------------------------------------------------------
(* The initial states *)

(* The invariant holds before anything is subscribed. *)
LEMMA InitInv == Init => IInv
<1> SUFFICES ASSUME Init PROVE IInv
  OBVIOUS
<1>1. TypeOK
  BY DEF Init, TypeOK
<1>2. GuardInv
  BY ThreadsAssumption, NullAssumption DEF Init, GuardInv, Walking
<1>3. HandInv /\ WalkInv
  BY ThreadsAssumption, NullAssumption DEF Init, HandInv, WalkInv
<1>4. NodesConsistent
  BY DEF Init, NodesConsistent, Registered
<1>5. SeenInv /\ DueInv
  BY DEF Init, SeenInv, DueInv
<1>6. RuleKept
  <2> SUFFICES ASSUME NEW n \in Names
               PROVE  Cardinality(SpelledLike(n) \ failed) <= rules[n]
    BY DEF RuleKept
  <2>1. SpelledLike(n) \ failed = {}
    BY DEF Init, SpelledLike
  <2>2. rules[n] = 0
    BY DEF Init
  <2> QED BY <2>1, <2>2, FS_EmptySet
<1> QED BY <1>1, <1>2, <1>3, <1>4, <1>5, <1>6 DEF IInv

-----------------------------------------------------------------------------
(* The steps of a client that has the guard *)

(* A thread goes to another position that is not of the walk: the node it  *)
(* has in hand is all that matters.                                        *)
LEMMA GotoStep ==
  ASSUME IInv, NEW t \in Threads, NEW label \in {"idle", "append"}, NEW i,
         label = "append" => i \in Ifaces, i \in Ifaces \union {Null},
         at[t] \in {"idle", "append"},
         Goto(t, label, i)
  PROVE  /\ at' \in [Threads -> {"idle", "append", "walk", "visit"}]
         /\ arg' \in [Threads -> Ifaces \union {Null}]
         /\ \A u \in Threads :
              at[u] \in {"walk", "visit"} \/ at'[u] \in {"walk", "visit"} =>
                at'[u] = at[u] /\ arg'[u] = arg[u]
         /\ \A u \in Threads : at'[u] = "append" => arg'[u] \in Ifaces
<1>1. /\ at  \in [Threads -> {"idle", "append", "walk", "visit"}]
      /\ arg \in [Threads -> Ifaces \union {Null}]
  BY DEF IInv, TypeOK
<1>2. at' = [at EXCEPT ![t] = label] /\ arg' = [arg EXCEPT ![t] = i]
  BY DEF Goto
<1>3. \A u \in Threads : at[u] = "append" => arg[u] \in Ifaces
  BY DEF IInv, HandInv
<1> QED BY <1>1, <1>2, <1>3

(* Threads may have moved to positions that are not of the walk. *)
Moved ==
    /\ at' \in [Threads -> {"idle", "append", "walk", "visit"}]
    /\ arg' \in [Threads -> Ifaces \union {Null}]
    /\ \A u \in Threads :
         at[u] \in {"walk", "visit"} \/ at'[u] \in {"walk", "visit"} =>
           at'[u] = at[u] /\ arg'[u] = arg[u]
    /\ \A u \in Threads : at'[u] = "append" => arg'[u] \in Ifaces

(* No thread has moved. *)
LEMMA StayStep == IInv /\ UNCHANGED <<at, arg>> => Moved
  BY DEF IInv, TypeOK, HandInv, Moved

(* A new node is listed, with a rule of its own unless its add_match has   *)
(* failed.                                                                 *)
LEMMA NodeStep ==
  ASSUME IInv, guard = Null, Moved,
         NEW i \in Ifaces, NEW n \in Names, NEW S \in SUBSET Fresh,
         NewNode(i, n, S),
         topic' \in [Subs -> Topics \union {Null}],
         \A s \in S : topic'[s] # Null,
         \A s \in Subs \ S : topic'[s] = topic[s],
         \/ failed' = failed /\ rules' = [rules EXCEPT ![n] = @ + 1]
         \/ failed' = failed \union {i} /\ rules' = rules,
         UNCHANGED <<guard, open, raceVars, walkVars>>
  PROVE  IInv'
<1>1. TypeOK /\ NodesConsistent
  BY DEF IInv
<1>2. /\ i \notin listed
      /\ listed' = listed \union {i}
      /\ spelling' = [spelling EXCEPT ![i] = n]
      /\ members' = [members EXCEPT ![i] = S]
  BY DEF NewNode
<1>3. /\ S \subseteq Subs
      /\ \A s \in S : topic[s] = Null
  BY DEF Fresh
<1>4. TypeOK'
  <2>1. /\ listed' \subseteq Ifaces
        /\ spelling' \in [Ifaces -> Names \union {Null}]
        /\ members' \in [Ifaces -> SUBSET Subs]
        /\ failed' \subseteq listed'
        /\ lost' = lost /\ loose' = loose
        /\ lost' \subseteq Subs /\ loose' \subseteq listed'
    BY <1>1, <1>2, <1>3 DEF TypeOK, raceVars
  <2>2. rules' \in [Names -> Nat]
    BY <1>1 DEF TypeOK
  <2>3. /\ guard' \in {MainThread, Null}
        /\ open' \in BOOLEAN
        /\ msg' \in Messages \union {Null}
        /\ toVisit' \subseteq Ifaces /\ seen' \subseteq Subs
        /\ called' \subseteq Subs /\ due' \subseteq Subs
    BY <1>1 DEF TypeOK, walkVars, Messages
  <2> QED BY <2>1, <2>2, <2>3 DEF TypeOK, Moved
<1>5. /\ \A u \in Threads : at'[u] \notin {"walk", "visit"}
      /\ msg' = Null /\ toVisit' = {} /\ seen' = {} /\ called' = {}
      /\ due' = {}
  BY NoWalk DEF Moved, walkVars
<1>6. GuardInv' /\ HandInv' /\ WalkInv'
  BY <1>5, ThreadsAssumption, NullAssumption
     DEF GuardInv, HandInv, WalkInv, Walking, Moved
<1>7. SeenInv' /\ DueInv'
  BY <1>5 DEF SeenInv, DueInv
<1>8. NodesConsistent'
  <2>1. \A j \in Ifaces : j \in listed' <=> spelling'[j] # Null
    BY <1>1, <1>2, NullAssumption DEF TypeOK, NodesConsistent
  <2>2. \A j \in Ifaces \ listed' : members'[j] = {}
    BY <1>1, <1>2 DEF TypeOK, NodesConsistent
  <2>3. \A j \in listed : S \intersect members[j] = {}
    BY <1>1, <1>3 DEF TypeOK, NodesConsistent, Registered
  <2>4. \A j, k \in listed' : j # k => members'[j] \intersect members'[k] = {}
    BY <1>1, <1>2, <2>3 DEF TypeOK, NodesConsistent
  <2>5. Registered' = Registered \union S
    BY <1>1, <1>2 DEF TypeOK, Registered
  <2>6. lost' = lost /\ lost \intersect S = {}
    BY <1>1, <1>3 DEF NodesConsistent, raceVars
  <2>7. \A s \in Subs : topic'[s] # Null <=> s \in Registered' \union lost'
    BY <1>1, <1>3, <2>5, <2>6 DEF NodesConsistent
  <2>8. lost' \intersect Registered' = {}
    BY <1>1, <2>5, <2>6 DEF NodesConsistent
  <2> QED BY <2>1, <2>2, <2>4, <2>7, <2>8 DEF NodesConsistent
<1>9. RuleKept'
  <2> SUFFICES ASSUME NEW m \in Names
               PROVE  Cardinality(SpelledLike(m)' \ failed') <= rules'[m]
    BY DEF RuleKept, SpelledLike
  <2> DEFINE Old == SpelledLike(m) \ failed
  <2>1. /\ IsFiniteSet(Old)
        /\ Cardinality(Old) \in Nat
        /\ Cardinality(Old) <= rules[m]
        /\ rules[m] \in Nat
    BY <1>1, SpelledFinite DEF IInv, RuleKept, TypeOK
  <2>2. i \notin failed /\ i \notin Old
    BY <1>1, <1>2 DEF TypeOK, SpelledLike
  <2>3. SpelledLike(m)' = IF m = n THEN SpelledLike(m) \union {i}
                                   ELSE SpelledLike(m)
    BY <1>1, <1>2 DEF TypeOK, SpelledLike
  <2>4. CASE failed' = failed \union {i} /\ rules' = rules
    <3>1. SpelledLike(m)' \ failed' = Old
      BY <2>2, <2>3, <2>4
    <3> QED BY <2>1, <2>4, <3>1
  <2>5. CASE failed' = failed /\ rules' = [rules EXCEPT ![n] = @ + 1]
    <3>1. CASE m = n
      <4>1. SpelledLike(m)' \ failed' = Old \union {i}
        BY <2>2, <2>3, <2>5, <3>1
      <4>2. Cardinality(Old \union {i}) = Cardinality(Old) + 1
        BY <2>1, <2>2, FS_AddElement
      <4>3. rules'[m] = rules[m] + 1
        BY <1>1, <2>5, <3>1 DEF TypeOK
      <4>4. Cardinality(SpelledLike(m)' \ failed') = Cardinality(Old) + 1
        BY <4>1, <4>2
      <4> HIDE DEF Old
      <4> QED BY <2>1, <4>3, <4>4
    <3>2. CASE m # n
      <4>1. SpelledLike(m)' \ failed' = Old
        BY <2>3, <2>5, <3>2
      <4>2. rules'[m] = rules[m]
        BY <1>1, <2>5, <3>2 DEF TypeOK
      <4> QED BY <2>1, <4>1, <4>2
    <3> QED BY <3>1, <3>2
  <2> QED BY <2>4, <2>5
<1> QED BY <1>4, <1>6, <1>7, <1>8, <1>9 DEF IInv

(* Nodes are erased, and no member of an erased interface stays.           *)
LEMMA EraseStep ==
  ASSUME IInv, guard = Null,
         NEW Gone \in SUBSET listed, NEW Taken \in SUBSET Registered,
         \A i \in Gone : members[i] \subseteq Taken,
         Erase(Gone, Taken),
         open' \in BOOLEAN,
         UNCHANGED <<threadVars, rules, walkVars>>
  PROVE  IInv'
<1>1. TypeOK /\ NodesConsistent
  BY DEF IInv
<1>2. /\ listed' = listed \ Gone
      /\ spelling' = [i \in Ifaces |-> IF i \in Gone THEN Null ELSE spelling[i]]
      /\ members' = [i \in Ifaces |-> members[i] \ Taken]
      /\ topic' = [s \in Subs |-> IF s \in Taken THEN Null ELSE topic[s]]
      /\ failed' = failed \ Gone
      /\ lost' = lost
      /\ \E torn \in SUBSET Touched(Gone, Taken) :
           loose' = (loose \ (Gone \union Touched(Gone, Taken))) \union torn
  BY DEF Erase
<1>3. Moved /\ guard' = guard
  BY StayStep DEF threadVars
<1>4. TypeOK'
  <2>1. /\ listed' \subseteq Ifaces
        /\ spelling' \in [Ifaces -> Names \union {Null}]
        /\ members' \in [Ifaces -> SUBSET Subs]
        /\ topic' \in [Subs -> Topics \union {Null}]
        /\ failed' \subseteq listed'
    BY <1>1, <1>2 DEF TypeOK
  <2>2. /\ lost' \subseteq Subs
        /\ loose' \subseteq listed'
    BY <1>1, <1>2 DEF TypeOK, Touched
  <2>3. /\ guard' \in {MainThread, Null}
        /\ rules' \in [Names -> Nat]
        /\ msg' \in Messages \union {Null}
        /\ toVisit' \subseteq Ifaces /\ seen' \subseteq Subs
        /\ called' \subseteq Subs /\ due' \subseteq Subs
    BY <1>1, <1>3 DEF TypeOK, walkVars, Messages
  <2> QED BY <1>3, <2>1, <2>2, <2>3 DEF TypeOK, Moved
<1>5. /\ \A u \in Threads : at'[u] \notin {"walk", "visit"}
      /\ msg' = Null /\ toVisit' = {} /\ seen' = {} /\ called' = {}
      /\ due' = {}
  BY <1>3, NoWalk DEF Moved, walkVars
<1>6. GuardInv' /\ HandInv' /\ WalkInv'
  BY <1>3, <1>5, ThreadsAssumption, NullAssumption
     DEF GuardInv, HandInv, WalkInv, Walking, Moved
<1>7. SeenInv' /\ DueInv'
  BY <1>5 DEF SeenInv, DueInv
<1>8. NodesConsistent'
  <2>1. \A i \in Ifaces : i \in listed' <=> spelling'[i] # Null
    BY <1>1, <1>2 DEF NodesConsistent
  <2>2. \A i \in Ifaces \ listed' : members'[i] = {}
    BY <1>1, <1>2 DEF NodesConsistent
  <2>3. \A i, j \in listed' : i # j => members'[i] \intersect members'[j] = {}
    BY <1>1, <1>2 DEF TypeOK, NodesConsistent
  <2>4. Registered' = Registered \ Taken
    BY <1>1, <1>2 DEF TypeOK, Registered
  <2>5. \A s \in Subs : topic'[s] # Null <=> s \in Registered' \union lost'
    BY <1>1, <1>2, <2>4 DEF NodesConsistent
  <2>6. lost' \intersect Registered' = {}
    BY <1>1, <1>2, <2>4 DEF NodesConsistent
  <2> QED BY <2>1, <2>2, <2>3, <2>5, <2>6 DEF NodesConsistent
<1>9. RuleKept'
  <2> SUFFICES ASSUME NEW n \in Names
               PROVE  Cardinality(SpelledLike(n)' \ failed') <= rules'[n]
    BY DEF RuleKept, SpelledLike
  <2>1. /\ IsFiniteSet(SpelledLike(n) \ failed)
        /\ Cardinality(SpelledLike(n) \ failed) \in Nat
        /\ Cardinality(SpelledLike(n) \ failed) <= rules[n]
        /\ rules'[n] = rules[n]
        /\ rules[n] \in Nat
    BY <1>1, SpelledFinite DEF IInv, RuleKept, TypeOK
  <2>2. SpelledLike(n)' \ failed' \subseteq SpelledLike(n) \ failed
    BY <1>1, <1>2 DEF TypeOK, SpelledLike
  <2>3. /\ Cardinality(SpelledLike(n)' \ failed')
             <= Cardinality(SpelledLike(n) \ failed)
        /\ IsFiniteSet(SpelledLike(n)' \ failed')
    BY <2>1, <2>2, FS_Subset
  <2>4. Cardinality(SpelledLike(n)' \ failed') \in Nat
    BY <2>3, FS_CardinalityType
  <2> QED BY <2>1, <2>3, <2>4
<1> QED BY <1>4, <1>6, <1>7, <1>8, <1>9 DEF IInv

(* No node and no rule changes: what is left of the invariant is about the *)
(* walk and the threads.                                                   *)
LEMMA SameNodes ==
  ASSUME IInv, UNCHANGED <<registryVars, rules>>
  PROVE  /\ NodesConsistent' /\ RuleKept'
         /\ Registered' = Registered
         /\ listed' \subseteq Ifaces
         /\ open' \in BOOLEAN
         /\ spelling' \in [Ifaces -> Names \union {Null}]
         /\ members' \in [Ifaces -> SUBSET Subs]
         /\ topic' \in [Subs -> Topics \union {Null}]
         /\ rules' \in [Names -> Nat]
         /\ failed' \subseteq listed'
         /\ lost' \subseteq Subs /\ loose' \subseteq listed'
<1>1. TypeOK /\ NodesConsistent /\ RuleKept
  BY DEF IInv
<1>2. /\ listed' = listed /\ open' = open /\ spelling' = spelling
      /\ members' = members /\ topic' = topic /\ failed' = failed
      /\ lost' = lost /\ loose' = loose /\ rules' = rules
  BY DEF registryVars, raceVars
<1>3. NodesConsistent' /\ Registered' = Registered
  BY <1>1, <1>2 DEF NodesConsistent, Registered
<1>4. RuleKept'
  BY <1>1, <1>2 DEF RuleKept, SpelledLike
<1> QED BY <1>1, <1>2, <1>3, <1>4 DEF TypeOK

(* Only the position of a client has changed. *)
LEMMA MoveStep ==
  ASSUME IInv, Moved, UNCHANGED <<guard, registryVars, rules, walkVars>>
  PROVE  IInv'
<1>1. TypeOK /\ GuardInv /\ HandInv /\ WalkInv /\ SeenInv /\ DueInv
  BY DEF IInv
<1>2. /\ listed' = listed /\ spelling' = spelling /\ members' = members
      /\ topic' = topic /\ guard' = guard
      /\ msg' = msg /\ toVisit' = toVisit /\ seen' = seen
      /\ called' = called /\ due' = due
  BY DEF registryVars, walkVars
<1>3. TypeOK'
  BY <1>1, <1>2, SameNodes DEF TypeOK, Moved, Messages
<1>4. GuardInv' /\ HandInv' /\ WalkInv'
  BY <1>1, <1>2, ThreadsAssumption
     DEF GuardInv, HandInv, WalkInv, Walking, Moved, Messages
<1>5. SeenInv'
  BY <1>1, <1>2, SameNodes DEF SeenInv, Hit
<1>6. DueInv'
  BY <1>1, <1>2, SameNodes, ThreadsAssumption DEF DueInv, Hit, Ahead, Moved
<1> QED BY <1>3, <1>4, <1>5, <1>6, SameNodes DEF IInv

(* The second half of subscribe makes a node of an address no member had. *)
LEMMA NewMemberIs ==
  ASSUME IInv, NEW t \in Threads, NewMember(t)
  PROVE  /\ Moved
         /\ \E s \in Subs, m \in Topics :
              /\ topic[s] = Null /\ s \notin Registered \union lost
              /\ topic' = [topic EXCEPT ![s] = m]
              /\ Added = {s}
<1>1. TypeOK /\ NodesConsistent
  BY DEF IInv
<1>2. at[t] = "append" /\ Goto(t, "idle", Null)
  BY DEF NewMember
<1>3. Moved
  BY <1>2, GotoStep DEF Moved
<1>4. PICK s \in Fresh, m \in Topics : topic' = [topic EXCEPT ![s] = m]
  BY DEF NewMember
<1>5. s \in Subs /\ topic[s] = Null /\ s \notin Registered \union lost
  BY <1>1, <1>4 DEF Fresh, NodesConsistent
<1>6. Added = {s}
  BY <1>1, <1>4, <1>5, NullAssumption DEF Added, Fresh, TypeOK
<1> QED BY <1>3, <1>4, <1>5, <1>6

(* A member that was of no interface is appended to a listed one, during a *)
(* walk or not.                                                            *)
LEMMA AppendStep ==
  ASSUME IInv, NEW t \in Threads, Append(t)
  PROVE  IInv'
<1>1. TypeOK /\ GuardInv /\ HandInv /\ NodesConsistent /\ WalkInv /\ SeenInv
      /\ DueInv /\ RuleKept
  BY DEF IInv
<1>2. /\ NewMember(t)
      /\ at[t] = "append" /\ arg[t] \in listed
      /\ guard' = guard /\ open' = open /\ listed' = listed
      /\ spelling' = spelling /\ failed' = failed /\ rules' = rules
      /\ msg' = msg /\ toVisit' = toVisit /\ seen' = seen
      /\ called' = called /\ due' = due
      /\ lost' = lost /\ loose' \subseteq loose \union {arg[t]}
      /\ members' = [members EXCEPT ![arg[t]] = @ \union Added]
  BY DEF Append, NewMember, walkVars
<1>3. PICK s \in Subs, m \in Topics :
        /\ topic[s] = Null /\ s \notin Registered \union lost
        /\ topic' = [topic EXCEPT ![s] = m]
        /\ Added = {s}
  BY <1>2, NewMemberIs
<1>4. Moved
  BY <1>2, NewMemberIs
<1>5. /\ s \notin Registered /\ s \notin lost
      /\ arg[t] \in Ifaces
  BY <1>1, <1>2, <1>3 DEF TypeOK
<1>6. Registered' = Registered \union {s}
  BY <1>1, <1>2, <1>3, <1>5 DEF TypeOK, Registered
<1>7. TypeOK'
  <2>1. /\ members' \in [Ifaces -> SUBSET Subs]
        /\ topic' \in [Subs -> Topics \union {Null}]
        /\ lost' \subseteq Subs /\ loose' \subseteq listed'
    BY <1>1, <1>2, <1>3, <1>5 DEF TypeOK
  <2> QED BY <1>1, <1>2, <1>4, <2>1 DEF TypeOK, Moved, Messages
<1>8. GuardInv' /\ HandInv' /\ WalkInv'
  BY <1>1, <1>2, <1>4, ThreadsAssumption
     DEF GuardInv, HandInv, WalkInv, Walking, Moved, Messages
<1>9. NodesConsistent'
  <2>1. \A i \in Ifaces \ listed' : members'[i] = {}
    BY <1>1, <1>2, <1>3, <1>5 DEF TypeOK, NodesConsistent
  <2>2. \A i \in listed : s \notin members[i]
    BY <1>5 DEF Registered
  <2>3. \A i, j \in listed' : i # j => members'[i] \intersect members'[j] = {}
    BY <1>1, <1>2, <1>3, <2>2 DEF TypeOK, NodesConsistent
  <2>4. \A r \in Subs : topic'[r] # Null <=> r \in Registered' \union lost'
    BY <1>1, <1>2, <1>3, <1>5, <1>6, NullAssumption DEF TypeOK, NodesConsistent
  <2>5. lost' \intersect Registered' = {}
    BY <1>1, <1>2, <1>5, <1>6 DEF NodesConsistent
  <2> QED BY <1>1, <1>2, <2>1, <2>3, <2>4, <2>5 DEF NodesConsistent
<1>10. \A r \in Registered : topic'[r] = topic[r]
  BY <1>1, <1>3, <1>5 DEF TypeOK
<1>11. \A i \in Ifaces : members[i] \subseteq members'[i]
  BY <1>1, <1>2 DEF TypeOK
<1>12. \A r : Hit(r) => Hit(r)'
  BY <1>1, <1>2, <1>6, <1>10, <1>11 DEF Hit, TypeOK, Same
<1>13. SeenInv'
  BY <1>1, <1>2, <1>6, <1>10, <1>12 DEF SeenInv, Same
<1>14. \A r : Ahead(r) => Ahead(r)'
  BY <1>1, <1>2, <1>4, <1>11, ThreadsAssumption DEF Ahead, Moved, TypeOK, HandInv
<1>15. DueInv'
  BY <1>1, <1>2, <1>12, <1>14 DEF DueInv
<1>16. RuleKept'
  BY <1>1, <1>2 DEF RuleKept, SpelledLike
<1> QED BY <1>7, <1>8, <1>9, <1>13, <1>15, <1>16 DEF IInv

(* A member that no list gets leaves the walk as it was. *)
LEMMA AppendLostStep ==
  ASSUME IInv, NEW t \in Threads, AppendLost(t)
  PROVE  IInv'
<1>1. TypeOK /\ GuardInv /\ HandInv /\ NodesConsistent /\ WalkInv /\ SeenInv
      /\ DueInv /\ RuleKept
  BY DEF IInv
<1>2. /\ NewMember(t)
      /\ guard' = guard /\ open' = open /\ listed' = listed
      /\ spelling' = spelling /\ members' = members
      /\ failed' = failed /\ rules' = rules
      /\ msg' = msg /\ toVisit' = toVisit /\ seen' = seen
      /\ called' = called /\ due' = due
      /\ lost' = lost \union Added
      /\ loose' \subseteq listed
  BY <1>1 DEF AppendLost, NewMember, walkVars, TypeOK
<1>3. PICK s \in Subs, m \in Topics :
        /\ topic[s] = Null /\ s \notin Registered \union lost
        /\ topic' = [topic EXCEPT ![s] = m]
        /\ Added = {s}
  BY <1>2, NewMemberIs
<1>4. Moved
  BY <1>2, NewMemberIs
<1>5. Registered' = Registered /\ \A r \in Registered : topic'[r] = topic[r]
  BY <1>1, <1>2, <1>3 DEF Registered, TypeOK
<1>6. TypeOK'
  <2>1. /\ topic' \in [Subs -> Topics \union {Null}]
        /\ lost' \subseteq Subs /\ loose' \subseteq listed'
    BY <1>1, <1>2, <1>3 DEF TypeOK
  <2> QED BY <1>1, <1>2, <1>4, <2>1 DEF TypeOK, Moved, Messages
<1>7. GuardInv' /\ HandInv' /\ WalkInv'
  BY <1>1, <1>2, <1>4, ThreadsAssumption
     DEF GuardInv, HandInv, WalkInv, Walking, Moved, Messages
<1>8. NodesConsistent'
  <2>1. \A r \in Subs : topic'[r] # Null <=> r \in Registered' \union lost'
    BY <1>1, <1>2, <1>3, <1>5, NullAssumption DEF TypeOK, NodesConsistent
  <2>2. lost' \intersect Registered' = {}
    BY <1>1, <1>2, <1>3, <1>5 DEF NodesConsistent
  <2> QED BY <1>1, <1>2, <2>1, <2>2 DEF NodesConsistent
<1>9. \A r : Hit(r) => Hit(r)'
  BY <1>2, <1>5 DEF Hit, Same
<1>10. SeenInv'
  BY <1>1, <1>2, <1>5, <1>9 DEF SeenInv, Same
<1>11. DueInv'
  BY <1>1, <1>2, <1>4, <1>9, ThreadsAssumption DEF DueInv, Ahead, Moved
<1>12. RuleKept'
  BY <1>1, <1>2 DEF RuleKept, SpelledLike
<1> QED BY <1>6, <1>7, <1>8, <1>10, <1>11, <1>12 DEF IInv

-----------------------------------------------------------------------------
(* The steps of a client, one by one *)

(* Everything a client does keeps the invariant. *)
LEMMA ClientInv ==
  ASSUME IInv, NEW t \in Threads, ClientStep(t)
  PROVE  IInv'
<1>1. TypeOK /\ NodesConsistent
  BY DEF IInv
<1>2. ASSUME NEW n \in Names, WatchListed(t, n)
      PROVE  IInv'
  <2>1. PICK i \in listed : Goto(t, "append", i)
    BY <1>2 DEF WatchListed
  <2>2. i \in Ifaces /\ at[t] \in {"idle", "append"}
    BY <1>1, <1>2 DEF TypeOK, WatchListed, Client
  <2>3. Moved
    BY <2>1, <2>2, GotoStep DEF Moved
  <2> QED BY <1>2, <2>3, MoveStep DEF WatchListed
<1>3. ASSUME NEW n \in Names, Watch(t, n)
      PROVE  IInv'
  <2>1. PICK i \in Ifaces : NewNode(i, n, {}) /\ Goto(t, "append", i)
    BY <1>3 DEF Watch
  <2>2. at[t] \in {"idle", "append"} /\ guard = Null
    BY <1>3 DEF Watch, Client
  <2>3. Moved
    BY <2>1, <2>2, GotoStep DEF Moved
  <2>4. /\ rules' = [rules EXCEPT ![n] = @ + 1]
        /\ topic' = topic /\ failed' = failed
        /\ UNCHANGED <<guard, open, raceVars, walkVars>>
    BY <1>3 DEF Watch, AddRule
  <2>5. topic' \in [Subs -> Topics \union {Null}]
    BY <1>1, <2>4 DEF TypeOK
  <2>6. /\ {} \in SUBSET Fresh
        /\ \A s \in {} : topic'[s] # Null
        /\ \A s \in Subs \ {} : topic'[s] = topic[s]
    BY <2>4
  <2> QED BY <2>1, <2>2, <2>3, <2>4, <2>5, <2>6, NodeStep
<1>4. ASSUME NEW n \in Names, WatchFails(t, n)
      PROVE  IInv'
  <2>1. PICK i \in Ifaces : NewNode(i, n, {}) /\ failed' = failed \union {i}
    BY <1>4 DEF WatchFails
  <2>2. /\ guard = Null
        /\ UNCHANGED <<at, arg>>
        /\ topic' = topic /\ rules' = rules
        /\ UNCHANGED <<guard, open, raceVars, walkVars>>
    BY <1>4 DEF WatchFails, Client, threadVars
  <2>3. Moved
    BY <2>2, StayStep
  <2>4. topic' \in [Subs -> Topics \union {Null}]
    BY <1>1, <2>2 DEF TypeOK
  <2>5. /\ {} \in SUBSET Fresh
        /\ \A s \in {} : topic'[s] # Null
        /\ \A s \in Subs \ {} : topic'[s] = topic[s]
    BY <2>2
  <2> QED BY <2>1, <2>2, <2>3, <2>4, <2>5, NodeStep
<1>5. ASSUME NEW n \in Names, PushBack(t, n)
      PROVE  IInv'
  <2>1. /\ guard = Null
        /\ UNCHANGED <<at, arg>>
        /\ rules' = [rules EXCEPT ![n] = @ + 1]
        /\ failed' = failed
        /\ UNCHANGED <<guard, open, raceVars, walkVars>>
    BY <1>5 DEF PushBack, Client, AddRule, threadVars
  <2>2. Moved
    BY <2>1, StayStep
  <2>3. PICK i \in Ifaces :
          \/ NewNode(i, n, {}) /\ UNCHANGED topic
          \/ \E s \in Fresh, m \in Topics :
               NewNode(i, n, {s}) /\ topic' = [topic EXCEPT ![s] = m]
    BY <1>5 DEF PushBack
  <2>4. CASE NewNode(i, n, {}) /\ UNCHANGED topic
    <3>1. topic' \in [Subs -> Topics \union {Null}]
      BY <1>1, <2>4 DEF TypeOK
    <3>2. /\ {} \in SUBSET Fresh
          /\ \A s \in {} : topic'[s] # Null
          /\ \A s \in Subs \ {} : topic'[s] = topic[s]
      BY <2>4
    <3> QED BY <2>1, <2>2, <2>4, <3>1, <3>2, NodeStep
  <2>5. ASSUME NEW s \in Fresh, NEW m \in Topics,
               NewNode(i, n, {s}), topic' = [topic EXCEPT ![s] = m]
        PROVE  IInv'
    <3>1. s \in Subs
      BY DEF Fresh
    <3>2. /\ topic' \in [Subs -> Topics \union {Null}]
          /\ \A r \in {s} : topic'[r] # Null
          /\ \A r \in Subs \ {s} : topic'[r] = topic[r]
      BY <1>1, <2>5, <3>1, NullAssumption DEF TypeOK
    <3>3. {s} \in SUBSET Fresh
      OBVIOUS
    <3> QED BY <2>1, <2>2, <2>5, <3>2, <3>3, NodeStep
  <2> QED BY <2>3, <2>4, <2>5
<1>6. ASSUME NEW s \in Subs, RemoveMember(t, s)
      PROVE  IInv'
  <2> DEFINE Gone == {i \in listed : members[i] \subseteq {s}}
             Taken == {s} \intersect Registered
  <2>1. /\ guard = Null /\ open' \in BOOLEAN
        /\ Erase(Gone, Taken)
        /\ UNCHANGED <<threadVars, rules, walkVars>>
    BY <1>1, <1>6 DEF RemoveMember, Client, TypeOK
  <2>2. /\ Gone \in SUBSET listed /\ Taken \in SUBSET Registered
        /\ \A i \in Gone : members[i] \subseteq Taken
    BY DEF Registered
  <2> HIDE DEF Gone, Taken
  <2> QED BY <2>1, <2>2, EraseStep
<1>7. ASSUME NEW n \in Names, RemoveInterface(t, n)
      PROVE  IInv'
  <2> DEFINE Gone == {i \in listed : spelling[i] = n}
             Taken == UNION {members[i] : i \in Gone}
  <2>1. /\ guard = Null /\ open' \in BOOLEAN
        /\ Erase(Gone, Taken)
        /\ UNCHANGED <<threadVars, rules, walkVars>>
    BY <1>1, <1>7 DEF RemoveInterface, Client, TypeOK
  <2>2. /\ Gone \in SUBSET listed /\ Taken \in SUBSET Registered
        /\ \A i \in Gone : members[i] \subseteq Taken
    BY DEF Registered
  <2> HIDE DEF Gone, Taken
  <2> QED BY <2>1, <2>2, EraseStep
<1>8. CASE Append(t)
  BY <1>8, AppendStep
<1>9. CASE AppendLost(t)
  BY <1>9, AppendLostStep
<1>10. CASE Clear(t)
  <2>1. /\ guard = Null /\ open' \in BOOLEAN
        /\ Erase(listed, Registered)
        /\ UNCHANGED <<threadVars, rules, walkVars>>
    BY <1>10 DEF Clear, Client
  <2>2. Registered \in SUBSET Registered
        /\ \A i \in listed : members[i] \subseteq Registered
    BY DEF Registered
  <2> QED BY <2>1, <2>2, EraseStep
<1> QED BY <1>2, <1>3, <1>4, <1>5, <1>6, <1>7, <1>8, <1>9, <1>10 DEF ClientStep

-----------------------------------------------------------------------------
(* The steps of a delivery *)

(* on_message takes the guard. *)
LEMMA ReceiveStep ==
  ASSUME IInv, NEW n \in Names, NEW m \in Topics, Receive(n, m)
  PROVE  IInv'
<1>1. TypeOK /\ GuardInv /\ HandInv /\ NodesConsistent
  BY DEF IInv
<1>2. /\ guard = Null /\ guard' = MainThread
      /\ at' = [at EXCEPT ![MainThread] = "walk"]
      /\ arg' = [arg EXCEPT ![MainThread] = Null]
      /\ msg' = <<n, m>> /\ toVisit' = listed
      /\ seen' = {} /\ called' = {}
      /\ due' = {s \in Registered : \E i \in listed :
                   s \in members[i] /\ Same(spelling[i], n) /\ Same(topic[s], m)}
      /\ UNCHANGED <<registryVars, rules>>
  BY NoWalk DEF Receive, Goto
<1>3. /\ listed' = listed /\ spelling' = spelling /\ members' = members
      /\ topic' = topic
  BY <1>2 DEF registryVars
<1>4. Registered \subseteq Subs
  BY <1>1 DEF TypeOK, Registered
<1>5. msg' \in Messages /\ msg'[1] = n /\ msg'[2] = m
  BY <1>2 DEF Messages
<1>6. TypeOK'
  BY <1>1, <1>2, <1>3, <1>4, <1>5, SameNodes, ThreadsAssumption
     DEF TypeOK, Messages
<1>7. GuardInv'
  BY <1>1, <1>2, NoWalk, ThreadsAssumption DEF GuardInv, Walking, TypeOK
<1>8. HandInv'
  BY <1>1, <1>2, ThreadsAssumption DEF HandInv, TypeOK
<1>9. WalkInv'
  BY <1>2, <1>3, <1>5, ThreadsAssumption, NullAssumption DEF WalkInv, Messages
<1>10. SeenInv'
  BY <1>2 DEF SeenInv
<1>11. DueInv'
  BY <1>2, <1>3, <1>5, SameNodes DEF DueInv, Hit, Ahead, Same
<1> QED BY <1>2, <1>6, <1>7, <1>8, <1>9, <1>10, <1>11, SameNodes DEF IInv

(* Connection::filter goes to the next interface, and past those of        *)
(* another name.                                                           *)
LEMMA EnterStep ==
  ASSUME IInv, EnterInterface
  PROVE  IInv'
<1>1. TypeOK /\ GuardInv /\ HandInv /\ NodesConsistent /\ WalkInv /\ SeenInv
      /\ DueInv
  BY DEF IInv
<1>2. PICK i \in toVisit :
        /\ toVisit' = toVisit \ {i}
        /\ IF Same(spelling[i], msg[1])
           THEN Goto(MainThread, "visit", i)
           ELSE UNCHANGED <<at, arg>>
  BY DEF EnterInterface
<1>3. /\ at[MainThread] = "walk"
      /\ guard' = guard /\ listed' = listed /\ spelling' = spelling
      /\ members' = members /\ topic' = topic /\ msg' = msg
      /\ seen' = seen /\ called' = called /\ due' = due
      /\ UNCHANGED <<registryVars, rules>>
  BY DEF EnterInterface, registryVars
<1>4. i \in listed /\ i \in Ifaces
  BY <1>1, <1>2 DEF WalkInv, TypeOK
<1>5. guard = MainThread /\ msg \in Messages
  BY <1>1, <1>3 DEF GuardInv, Walking, WalkInv
<1>6. /\ Same(spelling[i], msg[1]) =>
           /\ at' = [at EXCEPT ![MainThread] = "visit"]
           /\ arg' = [arg EXCEPT ![MainThread] = i]
      /\ ~Same(spelling[i], msg[1]) => at' = at /\ arg' = arg
  BY <1>2 DEF Goto
<1>7. /\ at' \in [Threads -> {"idle", "append", "walk", "visit"}]
      /\ arg' \in [Threads -> Ifaces \union {Null}]
  BY <1>1, <1>4, <1>6 DEF TypeOK
<1>8. TypeOK'
  BY <1>1, <1>2, <1>3, <1>7, SameNodes DEF TypeOK, Messages
<1>9. GuardInv'
  BY <1>1, <1>3, <1>6, <1>5, ThreadsAssumption DEF GuardInv, Walking, TypeOK
<1>10. HandInv'
  BY <1>1, <1>3, <1>4, <1>6, ThreadsAssumption DEF HandInv, TypeOK, Same
<1>11. WalkInv'
  BY <1>1, <1>2, <1>3, <1>5, ThreadsAssumption, NullAssumption
     DEF WalkInv, Messages
<1>12. SeenInv' /\ \A s : Hit(s) => Hit(s)'
  BY <1>1, <1>3, SameNodes DEF SeenInv, Hit, Same
<1>13. \A s : Hit(s) /\ Ahead(s) => Ahead(s)'
  <2> SUFFICES ASSUME NEW s, Hit(s), Ahead(s)
               PROVE  Ahead(s)'
    OBVIOUS
  <2>1. PICK j \in toVisit : s \in members[j]
    BY <1>3 DEF Ahead
  <2>2. CASE j # i
    BY <1>2, <1>3, <2>1, <2>2 DEF Ahead
  <2>3. CASE j = i
    <3>1. PICK k \in listed : s \in members[k] /\ Same(spelling[k], msg[1])
      BY DEF Hit
    <3>2. k = i
      BY <1>1, <1>4, <2>1, <2>3, <3>1 DEF NodesConsistent
    <3>3. at'[MainThread] = "visit" /\ arg'[MainThread] = i
      BY <1>1, <1>6, <3>1, <3>2, ThreadsAssumption DEF TypeOK
    <3> QED BY <1>3, <2>1, <2>3, <3>3 DEF Ahead
  <2> QED BY <2>2, <2>3
<1>14. DueInv'
  BY <1>1, <1>3, <1>12, <1>13 DEF DueInv
<1> QED BY <1>3, <1>8, <1>9, <1>10, <1>11, <1>12, <1>14, SameNodes DEF IInv

(* Interface::filter passes a member, and calls it if it matches. *)
LEMMA VisitStep ==
  ASSUME IInv, NEW s \in Subs, VisitMember(s)
  PROVE  IInv'
<1>1. TypeOK /\ GuardInv /\ HandInv /\ NodesConsistent /\ WalkInv /\ SeenInv
      /\ DueInv
  BY DEF IInv
<1>2. /\ at[MainThread] = "visit"
      /\ s \in members[arg[MainThread]] \ seen
      /\ seen' = seen \union {s}
      /\ called' = IF Same(topic[s], msg[2]) THEN called \union {s} ELSE called
      /\ at' = at /\ arg' = arg /\ guard' = guard /\ listed' = listed
      /\ spelling' = spelling /\ members' = members /\ topic' = topic
      /\ msg' = msg /\ toVisit' = toVisit /\ due' = due
      /\ UNCHANGED <<registryVars, rules>>
  BY DEF VisitMember, NextMember, threadVars, registryVars
<1>3. /\ arg[MainThread] \in listed
      /\ Same(spelling[arg[MainThread]], msg[1])
      /\ guard = MainThread
  BY <1>1, <1>2 DEF HandInv, GuardInv, Walking
<1>4. s \in Registered
  BY <1>2, <1>3 DEF Registered
<1>5. TypeOK'
  BY <1>1, <1>2, SameNodes DEF TypeOK, Messages
<1>6. GuardInv' /\ HandInv'
  BY <1>1, <1>2 DEF GuardInv, Walking, HandInv, Same
<1>7. WalkInv'
  BY <1>1, <1>2, <1>3, ThreadsAssumption, NullAssumption DEF WalkInv, Messages
<1>8. \A r : Hit(r) => Hit(r)'
  BY <1>2, SameNodes DEF Hit, Same
<1>9. Same(topic[s], msg[2]) => Hit(s)
  BY <1>2, <1>3, <1>4 DEF Hit
<1>10. SeenInv'
  <2>1. seen' \subseteq Registered' /\ called' \subseteq seen'
    BY <1>1, <1>2, <1>4, SameNodes DEF SeenInv
  <2>2. \A r \in seen' : Same(topic[r], msg[2]) => r \in called'
    BY <1>1, <1>2 DEF SeenInv
  <2>3. \A r \in called' : Hit(r)'
    BY <1>1, <1>2, <1>8, <1>9 DEF SeenInv
  <2> QED BY <1>2, <2>1, <2>2, <2>3 DEF SeenInv, Same
<1>11. DueInv'
  BY <1>1, <1>2, <1>8 DEF DueInv, Ahead
<1> QED BY <1>2, <1>5, <1>6, <1>7, <1>10, <1>11, SameNodes DEF IInv

(* Every member of the interface has been passed. *)
LEMMA LeaveStep ==
  ASSUME IInv, LeaveInterface
  PROVE  IInv'
<1>1. TypeOK /\ GuardInv /\ HandInv /\ NodesConsistent /\ WalkInv /\ SeenInv
      /\ DueInv
  BY DEF IInv
<1>2. /\ at[MainThread] = "visit"
      /\ members[arg[MainThread]] \subseteq seen
      /\ at' = [at EXCEPT ![MainThread] = "walk"]
      /\ arg' = [arg EXCEPT ![MainThread] = Null]
      /\ guard' = guard /\ listed' = listed
      /\ spelling' = spelling /\ members' = members /\ topic' = topic
      /\ msg' = msg /\ toVisit' = toVisit /\ seen' = seen
      /\ called' = called /\ due' = due
      /\ UNCHANGED <<registryVars, rules>>
  BY DEF LeaveInterface, Goto, registryVars, walkVars
<1>3. TypeOK'
  BY <1>1, <1>2, SameNodes, ThreadsAssumption DEF TypeOK, Messages
<1>4. GuardInv' /\ HandInv'
  BY <1>1, <1>2, ThreadsAssumption DEF GuardInv, Walking, HandInv, TypeOK
<1>5. WalkInv'
  BY <1>1, <1>2 DEF WalkInv, Messages
<1>6. SeenInv' /\ \A r : Hit(r) => Hit(r)'
  BY <1>1, <1>2, SameNodes DEF SeenInv, Hit, Same
<1>7. \A r \in due : r \in called \/ Ahead(r)'
  <2> SUFFICES ASSUME NEW r \in due, r \notin called
               PROVE  Ahead(r)'
    OBVIOUS
  <2>1. Ahead(r) /\ Same(topic[r], msg[2])
    BY <1>1 DEF DueInv, Hit
  <2>2. r \notin seen
    BY <1>1, <2>1 DEF SeenInv
  <2> QED BY <1>2, <2>1, <2>2 DEF Ahead
<1>8. DueInv'
  BY <1>1, <1>2, <1>6, <1>7 DEF DueInv
<1> QED BY <1>2, <1>3, <1>4, <1>5, <1>6, <1>8, SameNodes DEF IInv

(* on_message gives the guard back. *)
LEMMA WalkOverStep ==
  ASSUME IInv, at[MainThread] \in {"walk", "visit"}, WalkOver
  PROVE  IInv'
<1>1. TypeOK /\ GuardInv /\ HandInv
  BY DEF IInv
<1>2. /\ guard' = Null
      /\ at' = [at EXCEPT ![MainThread] = "idle"]
      /\ arg' = [arg EXCEPT ![MainThread] = Null]
      /\ msg' = Null /\ toVisit' = {} /\ seen' = {} /\ called' = {} /\ due' = {}
      /\ UNCHANGED <<registryVars, rules>>
  BY DEF WalkOver, Goto
<1>3. TypeOK'
  BY <1>1, <1>2, SameNodes, ThreadsAssumption DEF TypeOK, Messages
<1>4. GuardInv' /\ HandInv'
  BY <1>1, <1>2, ThreadsAssumption, NullAssumption
     DEF GuardInv, Walking, HandInv, TypeOK
<1>5. WalkInv' /\ SeenInv' /\ DueInv'
  BY <1>2, ThreadsAssumption, NullAssumption DEF WalkInv, SeenInv, DueInv
<1> QED BY <1>2, <1>3, <1>4, <1>5, SameNodes DEF IInv

-----------------------------------------------------------------------------
(* The invariant *)

(* Every step keeps the invariant. *)
LEMMA NextInv == IInv /\ [Next]_vars => IInv'
<1> SUFFICES ASSUME IInv, [Next]_vars PROVE IInv'
  OBVIOUS
<1>1. ASSUME NEW t \in Threads, ClientStep(t) PROVE IInv'
  BY <1>1, ClientInv
<1>2. ASSUME NEW n \in Names, NEW m \in Topics, Receive(n, m) PROVE IInv'
  BY <1>2, ReceiveStep
<1>3. CASE EnterInterface
  BY <1>3, EnterStep
<1>4. CASE LeaveInterface
  BY <1>4, LeaveStep
<1>5. CASE WalkEnd
  BY <1>5, WalkOverStep DEF WalkEnd
<1>6. ASSUME NEW s \in Subs, VisitMember(s) PROVE IInv'
  BY <1>6, VisitStep
<1>7. ASSUME NEW s \in Subs, CallThrows(s) PROVE IInv'
  BY <1>7, WalkOverStep DEF CallThrows, NextMember
<1>8. CASE UNCHANGED vars
  <2>1. UNCHANGED <<at, arg, guard, registryVars, rules, walkVars>>
    BY <1>8 DEF vars, threadVars
  <2> QED BY <2>1, StayStep, MoveStep
<1> QED BY <1>1, <1>2, <1>3, <1>4, <1>5, <1>6, <1>7, <1>8
        DEF Next, Walk, Halt, Rest

(* IInv holds in every reachable state. *)
THEOREM Invariance == Spec => []IInv
<1>1. Init => IInv
  BY InitInv
<1>2. IInv /\ [Next]_vars => IInv'
  BY NextInv
<1> QED BY <1>1, <1>2, PTL DEF Spec

-----------------------------------------------------------------------------
(* Invariants *)

(* Every variable has its type; the guard is left locked by a delivery     *)
(* only.                                                                   *)
THEOREM TypeCorrect == Spec => []TypeOK
<1>1. IInv => TypeOK
  BY DEF IInv
<1> QED BY <1>1, Invariance, PTL

(* A member is a node of exactly one listed interface until it is taken    *)
(* back, or it is lost and a node of none; lost ones have overlapping      *)
(* subscriptions to blame (LostByOverlapOnly).                             *)
THEOREM NodesCorrect == Spec => []NodesConsistent
<1>1. IInv => NodesConsistent
  BY DEF IInv
<1> QED BY <1>1, Invariance, PTL

(* A delivery that has no interface left to go to has called every member  *)
(* that matched the message when it arrived.                               *)
THEOREM DeliveryCorrect == Spec => []DeliveryComplete
<1>1. IInv => DeliveryComplete
  BY DEF IInv, DueInv, Ahead, DeliveryComplete
<1> QED BY <1>1, Invariance, PTL

(* Whoever is called is registered, and matches the message. *)
THEOREM RemovedNotCalled == Spec => []NoCallAfterRemove
<1>1. IInv => NoCallAfterRemove
  BY DEF IInv, SeenInv, Hit, NoCallAfterRemove
<1> QED BY <1>1, Invariance, PTL

(* A signal is delivered to the members that were listening when it came,  *)
(* and to none that remove() has taken out.                                *)
THEOREM DeliveredExactly == Spec => []DeliveryExact
BY DeliveryCorrect, RemovedNotCalled, PTL DEF DeliveryExact

(* No order of subscriptions, removals and failures takes a rule from an   *)
(* interface that had one.                                                 *)
THEOREM RulesCorrect == Spec => []RuleKept
<1>1. IInv => RuleKept
  BY DEF IInv
<1> QED BY <1>1, Invariance, PTL

-----------------------------------------------------------------------------
(* What a step may take *)

(* An add_match that fails is all that makes subscribe() go on without a   *)
(* rule: while no listed interface has met one, no thread appends a member *)
(* that no signal can reach, whatever was removed meanwhile.               *)
THEOREM RuleMissedByFault == Spec => [](failed = {} => WatchedHasRule)
<1>1. IInv /\ failed = {} => WatchedHasRule
  <2> SUFFICES ASSUME IInv, failed = {}, NEW t \in Threads, arg[t] \in listed
               PROVE  rules[spelling[arg[t]]] > 0
    BY DEF WatchedHasRule
  <2> DEFINE n == spelling[arg[t]]
             S == SpelledLike(n) \ failed
  <2>1. n \in Names
    BY DEF IInv, TypeOK, NodesConsistent
  <2>2. arg[t] \in S
    BY DEF SpelledLike
  <2>3. IsFiniteSet(S) /\ Cardinality(S) \in Nat
    BY SpelledFinite DEF IInv, TypeOK
  <2>4. Cardinality(S) # 0
    BY <2>2, <2>3, FS_EmptySet
  <2>5. Cardinality(S) <= rules[n] /\ rules[n] \in Nat
    BY <2>1 DEF IInv, TypeOK, RuleKept
  <2> HIDE DEF S
  <2> QED BY <2>3, <2>4, <2>5
<1> QED BY <1>1, Invariance, PTL

(* The bus daemon has a rule of this connection only for a name that a     *)
(* listed interface has.                                                   *)
RuleIsListed == \A n \in Names : rules[n] > 0 => SpelledLike(n) # {}

(* A rule that no listed interface asked for is left by an operation that  *)
(* erases an interface, and by nothing else.                               *)
THEOREM StaleByErasureOnly == Spec /\ [][listed \subseteq listed']_vars => []RuleIsListed
<1>1. Init => RuleIsListed
  BY DEF Init, RuleIsListed
<1>2. IInv /\ RuleIsListed /\ [Next]_vars /\ [listed \subseteq listed']_vars => RuleIsListed'
  <2> SUFFICES ASSUME IInv, RuleIsListed, [Next]_vars, [listed \subseteq listed']_vars
               PROVE  RuleIsListed'
    OBVIOUS
  <2>1. CASE UNCHANGED <<rules, listed, spelling>>
    BY <2>1 DEF RuleIsListed, SpelledLike
  <2>2. CASE UNCHANGED vars
    BY <2>1, <2>2 DEF vars, registryVars
  <2>3. (TypeOK /\ listed \subseteq listed') \/ UNCHANGED vars
    BY DEF IInv
  <2>4. ASSUME TypeOK, NEW i \in Ifaces \ listed, NEW n \in Names, NEW S, NewNode(i, n, S),
               rules' = rules \/ rules' = [rules EXCEPT ![n] = @ + 1]
        PROVE  RuleIsListed'
    BY <2>4 DEF TypeOK, NewNode, RuleIsListed, SpelledLike
  <2>5. ASSUME TypeOK, listed \subseteq listed', NEW Gone, NEW Taken, Erase(Gone, Taken),
               Gone \subseteq listed, UNCHANGED rules
        PROVE  RuleIsListed'
    <3>1. Gone = {}
      BY <2>5 DEF Erase
    <3> QED BY <2>1, <2>5, <3>1 DEF Erase, TypeOK
  <2>6. ASSUME NEW t \in Threads, ClientStep(t) PROVE RuleIsListed'
    <3>1. CASE Append(t) \/ AppendLost(t) \/ \E n \in Names : WatchListed(t, n)
      BY <2>1, <3>1 DEF Append, AppendLost, NewMember, WatchListed, registryVars
    <3>2. ASSUME NEW n \in Names, Watch(t, n) \/ WatchFails(t, n) \/ PushBack(t, n)
          PROVE  RuleIsListed'
      <4>1. \E i \in Ifaces \ listed : \E S : NewNode(i, n, S)
        BY <3>2 DEF Watch, WatchFails, PushBack, NewNode
      <4>2. rules' = rules \/ rules' = [rules EXCEPT ![n] = @ + 1]
        BY <3>2 DEF Watch, WatchFails, PushBack, AddRule
      <4> QED BY <2>2, <2>3, <2>4, <4>1, <4>2
    <3>3. ASSUME NEW n \in Names, RemoveInterface(t, n) PROVE RuleIsListed'
      BY <2>2, <2>3, <2>5, <3>3 DEF RemoveInterface
    <3>4. ASSUME NEW s \in Subs, RemoveMember(t, s) PROVE RuleIsListed'
      BY <2>2, <2>3, <2>5, <3>4 DEF RemoveMember
    <3>5. CASE Clear(t)
      BY <2>2, <2>3, <2>5, <3>5 DEF Clear
    <3> QED BY <2>6, <3>1, <3>2, <3>3, <3>4, <3>5 DEF ClientStep
  <2>7. CASE Walk
    BY <2>1, <2>7 DEF Walk, EnterInterface, LeaveInterface, WalkEnd, VisitMember, CallThrows,
         WalkOver, registryVars
  <2>8. CASE \E n \in Names, m \in Topics : Receive(n, m)
    BY <2>1, <2>8 DEF Receive, registryVars
  <2> QED BY <2>2, <2>6, <2>7, <2>8 DEF Next, Halt, Rest
<1> QED BY <1>1, <1>2, Invariance, PTL DEF Spec

(* "Subscribe to d-bus signal. @return Member handling the signal."        *)
(* (connection.h:150): when subscribe() returns, the interface it found or *)
(* made, and that is listed still, has one member more to call.            *)
SubscribeAdds ==
    [][\A t \in Threads :
         at[t] = "append" /\ at'[t] = "idle" /\ arg[t] \in listed =>
             members[arg[t]] # members'[arg[t]]]_vars

(* Each thread has the interface it appends to for itself, and finds it in *)
(* the list.                                                               *)
AppendsAlone ==
    \A t \in Threads : at[t] = "append" =>
        arg[t] \in listed /\ ~AppendRaces(t)

(* No member is taken from an interface that a thread appends to. *)
AppendersKeep ==
    \A t \in Threads : at[t] = "append" => members[arg[t]] \subseteq members'[arg[t]]

(* A step that erases nothing from under a thread leaves no list loose.    *)
LEMMA EraseLeavesTight ==
  ASSUME IInv, AppendersKeep, loose = {}, NEW Gone, NEW Taken, Erase(Gone, Taken)
  PROVE  loose' = {} /\ lost' = lost
<1>1. Touched(Gone, Taken) = {}
  <2> SUFFICES ASSUME NEW i \in Touched(Gone, Taken) PROVE FALSE
    OBVIOUS
  <2>1. PICK t \in Threads : AppendsTo(t, i)
    BY DEF Touched
  <2>2. members[i] \subseteq members'[i]
    BY <2>1 DEF AppendersKeep, AppendsTo
  <2>3. i \in Ifaces /\ members'[i] = members[i] \ Taken
    BY DEF Touched, Erase, IInv, TypeOK
  <2> QED BY <2>2, <2>3 DEF Touched
<1> QED BY <1>1 DEF Erase

(* Only overlapping subscriptions lose a member: while no two threads      *)
(* append to one interface at a time, and none takes from an interface     *)
(* that another appends to, no member is lost, and subscribe() returns one *)
(* that a delivery finds.                                                  *)
THEOREM LostByOverlapOnly ==
  Spec /\ []AppendsAlone /\ [][AppendersKeep]_vars => SubscribeAdds /\ [](lost = {})
<1> DEFINE Tight == loose = {} /\ lost = {}
<1>1. Init => Tight
  BY DEF Init
<1>2. ASSUME IInv, Tight, AppendsAlone, AppendersKeep, NEW t \in Threads, ClientStep(t)
      PROVE  Tight'
  <2>1. CASE AppendLost(t)
    BY <1>2, <2>1 DEF AppendLost, NewMember, AppendsAlone
  <2>2. CASE Append(t)
    BY <1>2, <2>2 DEF Append, NewMember, AppendsAlone
  <2>3. ASSUME NEW n \in Names, \/ WatchListed(t, n) \/ Watch(t, n)
                                \/ WatchFails(t, n) \/ PushBack(t, n)
        PROVE  Tight'
    BY <1>2, <2>3 DEF WatchListed, Watch, WatchFails, PushBack, registryVars, raceVars
  <2>4. ASSUME NEW Gone, NEW Taken, Erase(Gone, Taken) PROVE Tight'
    BY <1>2, <2>4, EraseLeavesTight
  <2>5. ASSUME NEW s \in Subs, RemoveMember(t, s) PROVE Tight'
    BY <2>4, <2>5 DEF RemoveMember
  <2>6. ASSUME NEW n \in Names, RemoveInterface(t, n) PROVE Tight'
    BY <2>4, <2>6 DEF RemoveInterface
  <2>7. CASE Clear(t)
    BY <2>4, <2>7 DEF Clear
  <2> QED BY <1>2, <2>1, <2>2, <2>3, <2>5, <2>6, <2>7 DEF ClientStep
<1>3. IInv /\ Tight /\ AppendsAlone /\ [Next]_vars /\ [AppendersKeep]_vars => Tight'
  <2> SUFFICES ASSUME IInv, Tight, AppendsAlone, [Next]_vars, [AppendersKeep]_vars
               PROVE  Tight'
    OBVIOUS
  <2>1. CASE UNCHANGED vars
    BY <2>1 DEF vars, registryVars, raceVars
  <2>2. CASE \E n \in Names, m \in Topics : Receive(n, m)
    BY <2>2 DEF Receive, registryVars, raceVars
  <2>3. CASE Walk
    BY <2>3 DEF Walk, EnterInterface, LeaveInterface, WalkEnd, VisitMember, CallThrows,
         WalkOver, registryVars, raceVars
  <2> QED BY <1>2, <2>1, <2>2, <2>3 DEF Next, Halt, Rest
<1>4. ASSUME IInv, Tight, AppendsAlone, Next,
             NEW t \in Threads, at[t] = "append", at'[t] = "idle", arg[t] \in listed
      PROVE  members[arg[t]] # members'[arg[t]]
  <2>1. t # MainThread \/ ~Walking
    BY <1>4 DEF Walking
  <2>2. at \in [Threads -> {"idle", "append", "walk", "visit"}] /\ MainThread \in Threads
    BY <1>4, ThreadsAssumption DEF IInv, TypeOK
  <2>3. Append(t)
    <3>1. ASSUME NEW u \in Threads, ClientStep(u) PROVE Append(t)
      <4>1. Append(u) \/ AppendLost(u)
        BY <1>4, <2>2, <3>1 DEF ClientStep, WatchListed, Watch, WatchFails, PushBack,
             RemoveMember, RemoveInterface, Clear, Client, Goto, threadVars
      <4>2. u = t
        BY <1>4, <2>2, <4>1 DEF Append, AppendLost, NewMember, Goto
      <4> QED BY <1>4, <4>1, <4>2 DEF AppendLost, AppendsAlone
    <3>2. ASSUME NEW n \in Names, NEW m \in Topics, Receive(n, m) PROVE FALSE
      BY <1>4, <2>2, <3>2 DEF Receive, Goto
    <3>3. ASSUME Walk PROVE FALSE
      BY <1>4, <2>2, <3>3 DEF Walk, EnterInterface, LeaveInterface, WalkEnd, VisitMember,
           CallThrows, NextMember, WalkOver, Goto, threadVars
    <3>4. ~UNCHANGED vars
      BY <1>4 DEF vars, threadVars
    <3> QED BY <1>4, <3>1, <3>2, <3>3, <3>4 DEF Next, Halt, Rest
  <2>4. PICK s \in Subs : s \notin Registered /\ Added = {s}
    BY <1>4, <2>3, NewMemberIs DEF Append
  <2>5. s \in members'[arg[t]] /\ s \notin members[arg[t]]
    BY <1>4, <2>3, <2>4 DEF Append, Registered, IInv, TypeOK
  <2> QED BY <2>5
<1>5. IInv /\ Tight /\ AppendsAlone /\ [Next]_vars =>
        [\A t \in Threads :
           at[t] = "append" /\ at'[t] = "idle" /\ arg[t] \in listed =>
             members[arg[t]] # members'[arg[t]]]_vars
  BY <1>4
<1>6. Tight => lost = {}
  OBVIOUS
<1> HIDE DEF Tight
<1> QED BY <1>1, <1>3, <1>5, <1>6, Invariance, PTL DEF Spec, SubscribeAdds

(* An operation that erases no node leaves every member what it asks for.  *)
LEMMA NothingLost ==
  ASSUME IInv, NEW t \in Threads,
         \/ \E n \in Names : \/ WatchListed(t, n) \/ Watch(t, n)
                             \/ WatchFails(t, n) \/ PushBack(t, n)
         \/ Append(t)
         \/ AppendLost(t)
  PROVE  \A s \in Registered : topic'[s] = topic[s] /\ topic[s] # Null
<1>1. TypeOK /\ NodesConsistent
  BY DEF IInv
<1>2. /\ Registered \subseteq Subs
      /\ \A s \in Registered : topic[s] # Null /\ s \notin Fresh
  BY <1>1 DEF TypeOK, NodesConsistent, Registered, Fresh
<1>3. CASE UNCHANGED topic
  BY <1>2, <1>3
<1>4. ASSUME NEW r \in Fresh, NEW m \in Topics, topic' = [topic EXCEPT ![r] = m]
      PROVE  \A s \in Registered : topic'[s] = topic[s] /\ topic[s] # Null
  BY <1>1, <1>2, <1>4 DEF TypeOK
<1>5. \/ UNCHANGED topic
      \/ \E r \in Fresh, m \in Topics : topic' = [topic EXCEPT ![r] = m]
  <2>1. ASSUME NEW n \in Names, WatchListed(t, n) PROVE UNCHANGED topic
    BY <2>1 DEF WatchListed, registryVars
  <2>2. ASSUME NEW n \in Names, Watch(t, n) PROVE UNCHANGED topic
    BY <2>2 DEF Watch
  <2>3. ASSUME NEW n \in Names, WatchFails(t, n) PROVE UNCHANGED topic
    BY <2>3 DEF WatchFails
  <2>4. ASSUME NEW n \in Names, PushBack(t, n) PROVE <1>5!1 \/ <1>5!2
    BY <2>4 DEF PushBack
  <2>5. CASE Append(t) \/ AppendLost(t)
    BY <2>5 DEF Append, AppendLost, NewMember
  <2> QED BY <2>1, <2>2, <2>3, <2>4, <2>5
<1> QED BY <1>3, <1>4, <1>5

TakenNow == {s \in Registered : topic'[s] = Null}

TakesItsOwn ==
    \/ \A r, s \in TakenNow : r = s
    \/ \E n \in Names : TakenNow = UNION {members[i] : i \in SpelledLike(n)}
    \/ ~open'

(* Unsubscribing takes one member or the members of one name, and nothing  *)
(* from anybody else.                                                      *)
THEOREM OthersCorrect == Spec => OthersKept
<1>1. ASSUME IInv, Next
      PROVE  TakesItsOwn
  <2>1. TypeOK /\ NodesConsistent
    BY <1>1 DEF IInv
  <2>2. /\ Registered \subseteq Subs
        /\ \A s \in Registered : topic[s] # Null
    BY <2>1 DEF TypeOK, NodesConsistent, Registered
  <2>3. CASE UNCHANGED topic
    BY <2>2, <2>3 DEF TakenNow, TakesItsOwn
  <2>4. ASSUME NEW t \in Threads, ClientStep(t)
        PROVE  TakesItsOwn
    <3>1. CASE \/ \E n \in Names : \/ WatchListed(t, n) \/ Watch(t, n)
                                   \/ WatchFails(t, n) \/ PushBack(t, n)
               \/ Append(t)
               \/ AppendLost(t)
      BY <1>1, <3>1, NothingLost DEF TakenNow, TakesItsOwn
    <3>2. ASSUME NEW s \in Subs, RemoveMember(t, s)
          PROVE  \A q, r \in TakenNow : q = r
      <4>1. topic' = [r \in Subs |->
                        IF r \in {s} \intersect Registered THEN Null ELSE topic[r]]
        BY <3>2 DEF RemoveMember, Erase
      <4> QED BY <2>2, <4>1 DEF TakenNow
    <3>3. ASSUME NEW n \in Names, RemoveInterface(t, n)
          PROVE  TakenNow = UNION {members[i] : i \in SpelledLike(n)}
      <4> DEFINE Taken == UNION {members[i] : i \in SpelledLike(n)}
      <4>1. topic' = [r \in Subs |-> IF r \in Taken THEN Null ELSE topic[r]]
        BY <3>3 DEF RemoveInterface, Erase, SpelledLike
      <4>2. Taken \subseteq Registered
        BY DEF SpelledLike, Registered
      <4> HIDE DEF Taken
      <4>3. TakenNow = Taken
        BY <2>2, <4>1, <4>2 DEF TakenNow
      <4> QED BY <4>3 DEF Taken
    <3>4. ASSUME Clear(t) PROVE ~open'
      BY <3>4 DEF Clear
    <3> QED BY <2>4, <3>1, <3>2, <3>3, <3>4 DEF ClientStep, TakesItsOwn
  <2>5. ASSUME NEW n \in Names, NEW m \in Topics, Receive(n, m)
        PROVE  UNCHANGED topic
    BY <2>5 DEF Receive, registryVars
  <2>6. CASE Walk
    <3>1. UNCHANGED topic
      BY <2>6 DEF Walk, EnterInterface, LeaveInterface, WalkEnd, WalkOver,
                  VisitMember, CallThrows, registryVars
    <3> QED BY <2>3, <3>1
  <2>7. CASE Halt \/ Rest
    <3>1. UNCHANGED topic
      BY <2>7 DEF Halt, Rest, vars, registryVars
    <3> QED BY <2>3, <3>1
  <2> QED BY <1>1, <2>3, <2>4, <2>5, <2>6, <2>7 DEF Next
<1>2. IInv /\ [Next]_vars =>
        [LET Taken == {s \in Registered : topic'[s] = Null} IN
           \/ \A r, s \in Taken : r = s
           \/ \E n \in Names : Taken = UNION {members[i] : i \in SpelledLike(n)}
           \/ ~open']_vars
  BY <1>1 DEF TakenNow, TakesItsOwn
<1> QED BY <1>2, Invariance, PTL DEF Spec, OthersKept

-----------------------------------------------------------------------------
(* A delivery comes to its end *)

One(p) == IF p THEN 1 ELSE 0

(* What the walk has left to do, in steps. *)
Left ==
    2 * Cardinality(toVisit) + Cardinality(Subs \ seen) + One(at[MainThread] = "visit")

LEMMA LeftIsNat == IInv => Left \in Nat
<1> SUFFICES ASSUME IInv PROVE Left \in Nat
  OBVIOUS
<1>1. IsFiniteSet(toVisit) /\ IsFiniteSet(Subs \ seen)
  BY FiniteAssumption, FS_Subset, FS_Difference DEF IInv, TypeOK
<1>2. Cardinality(toVisit) \in Nat /\ Cardinality(Subs \ seen) \in Nat
  BY <1>1, FS_CardinalityType
<1> QED BY <1>2 DEF Left, One

(* Each step of the walk ends it or leaves less to do, ...                 *)
LEMMA WalkLess ==
  ASSUME IInv, Walk
  PROVE  guard' = Null \/ Left' < Left
<1>1. /\ IsFiniteSet(toVisit) /\ IsFiniteSet(Subs \ seen)
      /\ Cardinality(toVisit) \in Nat /\ Cardinality(Subs \ seen) \in Nat
  BY FiniteAssumption, FS_Subset, FS_Difference, FS_CardinalityType DEF IInv, TypeOK
<1>2. at \in [Threads -> {"idle", "append", "walk", "visit"}] /\ MainThread \in Threads
  BY ThreadsAssumption DEF IInv, TypeOK
<1>3. CASE EnterInterface
  <2>1. PICK i \in toVisit : toVisit' = toVisit \ {i}
    BY <1>3 DEF EnterInterface
  <2>2. at[MainThread] = "walk" /\ seen' = seen
    BY <1>3 DEF EnterInterface
  <2>3. Cardinality(toVisit') = Cardinality(toVisit) - 1
    BY <1>1, <2>1, FS_RemoveElement
  <2> QED BY <1>1, <2>2, <2>3 DEF Left, One
<1>4. CASE LeaveInterface
  BY <1>1, <1>2, <1>4 DEF LeaveInterface, Goto, walkVars, Left, One
<1>5. ASSUME NEW s \in Subs, VisitMember(s) PROVE Left' < Left
  <2>1. s \in Subs \ seen /\ Subs \ seen' = (Subs \ seen) \ {s}
    BY <1>5 DEF VisitMember, NextMember
  <2>2. Cardinality(Subs \ seen') = Cardinality(Subs \ seen) - 1
    BY <1>1, <2>1, FS_RemoveElement
  <2>3. toVisit' = toVisit /\ at' = at
    BY <1>5 DEF VisitMember, threadVars
  <2> QED BY <1>1, <2>2, <2>3 DEF Left, One
<1>6. CASE WalkEnd \/ \E s \in Subs : CallThrows(s)
  BY <1>6 DEF WalkEnd, CallThrows, WalkOver
<1> QED BY <1>3, <1>4, <1>5, <1>6 DEF Walk

(* ... and no other step gives it more.                                    *)
LEMMA OthersLeave ==
  ASSUME IInv, [Next]_vars, guard = MainThread, ~Walk
  PROVE  UNCHANGED <<guard, toVisit, seen>> /\ at'[MainThread] = at[MainThread]
<1>1. at \in [Threads -> {"idle", "append", "walk", "visit"}] /\ MainThread \in Threads
  BY ThreadsAssumption DEF IInv, TypeOK
<1>2. at[MainThread] \in {"walk", "visit"} /\ guard # Null
  BY ThreadsAssumption, NullAssumption DEF IInv, GuardInv, Walking
<1>3. ASSUME NEW t \in Threads, ClientStep(t)
      PROVE  UNCHANGED <<guard, toVisit, seen>> /\ at'[MainThread] = at[MainThread]
  <2>1. Append(t) \/ AppendLost(t)
    BY <1>2, <1>3 DEF ClientStep, WatchListed, Watch, WatchFails, PushBack, RemoveInterface,
         RemoveMember, Clear, Client
  <2>2. t # MainThread
    BY <1>2, <2>1 DEF Append, AppendLost, NewMember
  <2> QED BY <1>1, <2>1, <2>2 DEF Append, AppendLost, NewMember, Goto, walkVars
<1>4. \A n \in Names, m \in Topics : ~Receive(n, m)
  BY <1>2 DEF Receive
<1>5. CASE UNCHANGED vars
  BY <1>5 DEF vars, threadVars, walkVars
<1> QED BY <1>3, <1>4, <1>5 DEF Next, Halt, Rest

(* A delivery goes forward only: each of its steps gives the guard back or *)
(* leaves it strictly less to do, and no step of another thread gives it   *)
(* more, takes the guard from it, or ends it: a member that is appended    *)
(* meanwhile is met once, and none is met twice.                           *)
THEOREM WalkAdvances ==
  Spec => /\ [](Left \in Nat)
          /\ [][guard = MainThread =>
                  IF Walk THEN guard' = Null \/ (guard' = MainThread /\ Left' < Left)
                          ELSE guard' = MainThread /\ Left' = Left]_vars
<1>1. IInv /\ IInv' /\ [Next]_vars =>
        [guard = MainThread =>
           IF Walk THEN guard' = Null \/ (guard' = MainThread /\ Left' < Left)
                   ELSE guard' = MainThread /\ Left' = Left]_vars
  <2>1. IInv' => guard' \in {MainThread, Null}
    BY DEF IInv, TypeOK
  <2>2. IInv /\ [Next]_vars /\ guard = MainThread /\ ~Walk =>
          guard' = MainThread /\ Left' = Left
    BY OthersLeave DEF Left
  <2> QED BY <2>1, <2>2, WalkLess
<1> QED BY <1>1, LeftIsNat, Invariance, PTL DEF Spec

(* What WalkEnds promises, one step down: a delivery with n steps left     *)
(* comes to its end or to fewer, under the fairness of FairSpec and if it  *)
(* is possible to go on when WalkReady says so (which only the run shows). *)
(* As n is a natural number it comes to its end: this last step is an      *)
(* induction over a temporal formula.                                      *)
THEOREM WalkGoesDown ==
  FairSpec /\ []WalkReady =>
    \A n \in Nat : (guard = MainThread /\ Left = n) ~>
                      (guard = Null \/ (guard = MainThread /\ Left < n))
<1> SUFFICES ASSUME NEW n \in Nat
             PROVE  FairSpec /\ []WalkReady =>
                      ((guard = MainThread /\ Left = n) ~>
                         (guard = Null \/ (guard = MainThread /\ Left < n)))
  OBVIOUS
<1>1. IInv /\ IInv' /\ [Next]_vars /\ guard = MainThread /\ Left = n =>
        \/ (guard = MainThread /\ Left = n)'
        \/ (guard = Null \/ (guard = MainThread /\ Left < n))'
  <2>1. IInv' => guard' \in {MainThread, Null}
    BY DEF IInv, TypeOK
  <2> QED BY <2>1, WalkLess, OthersLeave DEF Left
<1>2. IInv /\ IInv' /\ guard = MainThread /\ Left = n /\ <<Walk>>_vars =>
        (guard = Null \/ (guard = MainThread /\ Left < n))'
  <2>1. IInv' => guard' \in {MainThread, Null}
    BY DEF IInv, TypeOK
  <2> QED BY <2>1, WalkLess
<1>3. IInv /\ WalkReady => (guard = MainThread => ENABLED <<Walk>>_vars)
  BY DEF WalkReady, IInv, GuardInv, Walking
<1> QED BY <1>1, <1>2, <1>3, Invariance, PTL DEF FairSpec, Spec

-----------------------------------------------------------------------------
(* Registry implements SignalRouter *)

(* The refinement mapping of topic, over the four variables it reads. *)
TopicMap(L, N, M, T) ==
    [s \in Subs |->
        IF s \in UNION {M[i] : i \in L}
        THEN <<N[CHOOSE i \in L : s \in M[i]], T[s]>>
        ELSE Null]

Subscriptions == TopicMap(listed, spelling, members, topic)

Mapped == [s \in Subs |-> IF s \in Registered
                          THEN <<spelling[InterfaceOf(s)], topic[s]>>
                          ELSE Null]

(* The mapping of RouterSpec is TopicMap, in this state and in the next.   *)
LEMMA MappingIs ==
  Mapped = Subscriptions /\ Mapped' = Subscriptions'
  BY DEF Mapped, Subscriptions, TopicMap, Registered, InterfaceOf

(* With disjoint lists a member has the name of the interface it is in.    *)
LEMMA TopicMapValue ==
  ASSUME NEW L, NEW N, NEW M, NEW T, NEW s \in Subs, NEW i \in L, s \in M[i],
         \A j, k \in L : j # k => M[j] \intersect M[k] = {}
  PROVE  TopicMap(L, N, M, T)[s] = <<N[i], T[s]>>
<1>1. (CHOOSE j \in L : s \in M[j]) = i
  <2> DEFINE c == CHOOSE j \in L : s \in M[j]
  <2>1. c \in L /\ s \in M[c]
    OBVIOUS
  <2> QED BY <2>1
<1>2. s \in UNION {M[j] : j \in L}
  OBVIOUS
<1> QED BY <1>1, <1>2 DEF TopicMap

(* What Subscriptions is of a member that is registered, and of one that   *)
(* is not.                                                                 *)
LEMMA SubscriptionsValue ==
  ASSUME IInv, NEW s \in Subs
  PROVE  /\ s \notin Registered => Subscriptions[s] = Null
         /\ \A i \in listed : s \in members[i] =>
              Subscriptions[s] = <<spelling[i], topic[s]>>
         /\ s \in Registered =>
              Subscriptions[s] \in Names \X Topics /\ Subscriptions[s] # Null
<1>1. TypeOK /\ NodesConsistent
  BY DEF IInv
<1>2. s \notin Registered => Subscriptions[s] = Null
  BY DEF Subscriptions, TopicMap, Registered
<1>3. ASSUME NEW i \in listed, s \in members[i]
      PROVE  Subscriptions[s] = <<spelling[i], topic[s]>>
  BY <1>1, <1>3, TopicMapValue DEF NodesConsistent, Subscriptions
<1>4. ASSUME s \in Registered
      PROVE  Subscriptions[s] \in Names \X Topics
  <2>1. PICK i \in listed : s \in members[i]
    BY <1>4 DEF Registered
  <2>2. spelling[i] \in Names /\ topic[s] \in Topics
    BY <1>1, <1>4, <2>1 DEF TypeOK, NodesConsistent
  <2> QED BY <1>3, <2>1, <2>2
<1> QED BY <1>2, <1>3, <1>4, NullAssumption

(* The same in the next state, where the invariant holds as well. *)
LEMMA SubscriptionsNext ==
  ASSUME IInv', NEW s \in Subs
  PROVE  /\ s \notin Registered' => Subscriptions'[s] = Null
         /\ \A i \in listed' : s \in members'[i] =>
              Subscriptions'[s] = <<spelling'[i], topic'[s]>>
<1>1. NodesConsistent'
  BY DEF IInv
<1>2. s \notin Registered' => Subscriptions'[s] = Null
  BY DEF Subscriptions, TopicMap, Registered
<1>3. ASSUME NEW i \in listed', s \in members'[i]
      PROVE  Subscriptions'[s] = <<spelling'[i], topic'[s]>>
  <2>1. \A j, k \in listed' : j # k => members'[j] \intersect members'[k] = {}
    BY <1>1 DEF NodesConsistent
  <2> QED BY <1>3, <2>1, TopicMapValue DEF Subscriptions
<1> QED BY <1>2, <1>3

(* Nodes that do not change leave the subscriptions as they are. *)
LEMMA SubscriptionsStay ==
  UNCHANGED registryVars => Subscriptions' = Subscriptions
  BY DEF registryVars, Subscriptions, TopicMap

(* A member of a listed interface that keeps its name and its topic keeps  *)
(* its subscription.                                                       *)
LEMMA SubscriptionKept ==
  ASSUME IInv, IInv', NEW s \in Subs, NEW i \in listed, s \in members[i],
         i \in listed', s \in members'[i],
         spelling'[i] = spelling[i], topic'[s] = topic[s]
  PROVE  Subscriptions'[s] = Subscriptions[s]
  BY SubscriptionsValue, SubscriptionsNext

NodesKept ==
    \A i \in listed :
        /\ i \in listed' /\ spelling'[i] = spelling[i]
        /\ members[i] \subseteq members'[i]

(* Nodes are added, members too, and what was there stays: Subscribe. *)
LEMMA SubscribeStep ==
  ASSUME IInv, IInv', UNCHANGED walkVars,
         NodesKept, \A s \in Registered : topic'[s] = topic[s]
  PROVE  Router!Subscribe
<1>1. \A s \in Registered : s \in Subs /\ Subscriptions'[s] = Subscriptions[s]
  <2> SUFFICES ASSUME NEW s \in Registered
               PROVE  s \in Subs /\ Subscriptions'[s] = Subscriptions[s]
    OBVIOUS
  <2>1. PICK i \in listed : s \in members[i]
    BY DEF Registered
  <2>2. s \in Subs
    BY <2>1 DEF IInv, TypeOK
  <2> QED BY <2>1, <2>2, SubscriptionKept DEF NodesKept
<1>2. \A s \in Subs : Subscriptions[s] # Null => s \in Registered
  BY SubscriptionsValue
<1>3. \A s \in {r \in Subs : Subscriptions[r] # Null} :
        Subscriptions'[s] = Subscriptions[s]
  BY <1>1, <1>2
<1>4. UNCHANGED <<msg, due, called>>
  BY DEF walkVars
<1>5. \A s \in {r \in Subs : Mapped[r] # Null} : Mapped'[s] = Mapped[s]
  BY <1>3, MappingIs
<1> QED BY <1>4, <1>5 DEF Router!Subscribe, Router!Active, Mapped

(* Nodes are erased while nothing is delivered: Unsubscribe. *)
LEMMA UnsubscribeStep ==
  ASSUME IInv, IInv', guard = Null, UNCHANGED walkVars,
         NEW Gone \in SUBSET listed, NEW Taken \in SUBSET Subs,
         Erase(Gone, Taken)
  PROVE  Router!Unsubscribe
<1>1. /\ listed' = listed \ Gone
      /\ spelling' = [i \in Ifaces |-> IF i \in Gone THEN Null ELSE spelling[i]]
      /\ members' = [i \in Ifaces |-> members[i] \ Taken]
      /\ topic' = [s \in Subs |-> IF s \in Taken THEN Null ELSE topic[s]]
      /\ listed \subseteq Ifaces
  BY DEF Erase, IInv, TypeOK
<1>2. \A s \in Subs : Subscriptions'[s] \in {Subscriptions[s], Null}
  <2> SUFFICES ASSUME NEW s \in Subs, s \in Registered'
               PROVE  Subscriptions'[s] = Subscriptions[s]
    BY SubscriptionsNext
  <2>1. PICK i \in listed' : s \in members'[i]
    BY DEF Registered
  <2>2. /\ i \in listed /\ s \in members[i]
        /\ spelling'[i] = spelling[i] /\ topic'[s] = topic[s]
    BY <1>1, <2>1
  <2> QED BY <2>1, <2>2, SubscriptionKept
<1>3. msg = Null /\ UNCHANGED <<msg, due, called>>
  BY NoWalk DEF walkVars
<1>4. \A s \in Subs : Mapped'[s] \in {Mapped[s], Null}
  BY <1>2, MappingIs
<1> QED BY <1>3, <1>4 DEF Router!Unsubscribe, Mapped

(* No message is Null. *)
LEMMA MessageNotNull == \A m \in Messages : m # Null
  BY NullAssumption DEF Messages

(* The members that are due are those the abstract message hits. *)
LEMMA HitsAre ==
  ASSUME IInv, NEW n \in Names, NEW m \in Topics
  PROVE  Router!Hits(<<n, m>>) =
           {s \in Registered : \E i \in listed :
              s \in members[i] /\ Same(spelling[i], n) /\ Same(topic[s], m)}
<1>1. Registered \subseteq Subs
  BY DEF IInv, TypeOK, Registered
<1>2. ASSUME NEW s \in Subs
      PROVE  (Subscriptions[s] # Null /\ Matches(Subscriptions[s], <<n, m>>))
             <=> /\ s \in Registered
                 /\ \E i \in listed : /\ s \in members[i]
                                      /\ Same(spelling[i], n)
                                      /\ Same(topic[s], m)
  <2>1. CASE s \notin Registered
    BY <2>1, SubscriptionsValue
  <2>2. CASE s \in Registered
    <3>1. PICK i \in listed : s \in members[i]
      BY <2>2 DEF Registered
    <3>2. \A j \in listed : s \in members[j] => j = i
      BY <3>1 DEF IInv, NodesConsistent
    <3>3. Subscriptions[s] = <<spelling[i], topic[s]>> /\ Subscriptions[s] # Null
      BY <2>2, <3>1, SubscriptionsValue
    <3>4. Matches(Subscriptions[s], <<n, m>>)
          <=> Same(spelling[i], n) /\ Same(topic[s], m)
      BY <3>3 DEF Matches
    <3> QED BY <2>2, <3>1, <3>2, <3>3, <3>4
  <2> QED BY <2>1, <2>2
<1>3. Router!Hits(<<n, m>>) =
        {s \in {r \in Subs : Mapped[r] # Null} : Matches(Mapped[s], <<n, m>>)}
  BY DEF Router!Hits, Router!Active, Mapped
<1>4. Router!Hits(<<n, m>>) =
        {s \in Subs : /\ Subscriptions[s] # Null
                      /\ Matches(Subscriptions[s], <<n, m>>)}
  BY <1>3, MappingIs
<1> QED BY <1>1, <1>2, <1>4

(* A step of a client is Subscribe, Unsubscribe or nothing. *)
LEMMA ClientRefines ==
  ASSUME IInv, IInv', NEW t \in Threads, ClientStep(t)
  PROVE  Router!Next
<1>1. TypeOK
  BY DEF IInv
<1>2. CASE \/ \E n \in Names : \/ WatchListed(t, n) \/ Watch(t, n)
                               \/ WatchFails(t, n) \/ PushBack(t, n)
           \/ Append(t)
           \/ AppendLost(t)
  <2>1. \A s \in Registered : topic'[s] = topic[s]
    BY <1>2, NothingLost
  <2>2. UNCHANGED walkVars
    BY <1>2 DEF WatchListed, Watch, WatchFails, PushBack, Append, AppendLost,
                NewMember
  <2>3. ASSUME NEW i \in Ifaces, NEW n \in Names, NEW S, NewNode(i, n, S)
        PROVE  NodesKept
    BY <1>1, <2>3 DEF NewNode, TypeOK, NodesKept
  <2>4. ASSUME UNCHANGED registryVars PROVE NodesKept
    BY <2>4 DEF registryVars, NodesKept
  <2>5. ASSUME Append(t) PROVE NodesKept
    BY <1>1, <2>5 DEF Append, NewMember, TypeOK, NodesKept
  <2>6. ASSUME AppendLost(t) PROVE NodesKept
    BY <2>6 DEF AppendLost, NewMember, NodesKept
  <2>7. ASSUME NEW n \in Names,
               WatchListed(t, n) \/ Watch(t, n) \/ WatchFails(t, n)
        PROVE  NodesKept
    BY <2>3, <2>4, <2>7 DEF WatchListed, Watch, WatchFails
  <2>8. ASSUME NEW n \in Names, PushBack(t, n)
        PROVE  NodesKept
    BY <2>3, <2>8 DEF PushBack
  <2>9. NodesKept
    BY <1>2, <2>5, <2>6, <2>7, <2>8
  <2> QED BY <2>1, <2>2, <2>9, SubscribeStep DEF Router!Next
<1>3. ASSUME NEW s \in Subs, RemoveMember(t, s)
      PROVE  Router!Next
  <2> DEFINE Gone == {i \in listed : members[i] \subseteq {s}}
             Taken == {s} \intersect Registered
  <2>1. guard = Null /\ UNCHANGED walkVars /\ Erase(Gone, Taken)
    BY <1>3 DEF RemoveMember, Client
  <2>2. Gone \in SUBSET listed /\ Taken \in SUBSET Subs
    OBVIOUS
  <2> HIDE DEF Gone, Taken
  <2> QED BY <2>1, <2>2, UnsubscribeStep DEF Router!Next
<1>4. ASSUME NEW n \in Names, RemoveInterface(t, n)
      PROVE  Router!Next
  <2> DEFINE Gone == {i \in listed : spelling[i] = n}
             Taken == UNION {members[i] : i \in Gone}
  <2>1. guard = Null /\ UNCHANGED walkVars /\ Erase(Gone, Taken)
    BY <1>4 DEF RemoveInterface, Client
  <2>2. Gone \in SUBSET listed /\ Taken \in SUBSET Subs
    BY <1>1 DEF TypeOK
  <2> HIDE DEF Gone, Taken
  <2> QED BY <2>1, <2>2, UnsubscribeStep DEF Router!Next
<1>5. CASE Clear(t)
  <2>1. guard = Null /\ UNCHANGED walkVars /\ Erase(listed, Registered)
    BY <1>5 DEF Clear, Client
  <2>2. Registered \in SUBSET Subs
    BY <1>1 DEF TypeOK, Registered
  <2> QED BY <2>1, <2>2, UnsubscribeStep DEF Router!Next
<1> QED BY <1>2, <1>3, <1>4, <1>5 DEF ClientStep

(* A step of a delivery is Call, Finish or nothing. *)
LEMMA WalkRefines ==
  ASSUME IInv, Walk
  PROVE  Router!Next \/ UNCHANGED Router!vars
<1>1. IInv /\ SeenInv /\ WalkInv /\ HandInv /\ GuardInv
  BY DEF IInv
<1>2. msg \in Messages /\ msg # Null
  <2>1. Walking
    BY DEF Walk, EnterInterface, LeaveInterface, WalkEnd, VisitMember,
           CallThrows, NextMember, Walking
  <2> QED BY <1>1, <2>1, MessageNotNull DEF GuardInv, WalkInv
<1>3. UNCHANGED registryVars
  BY DEF Walk, EnterInterface, LeaveInterface, WalkEnd, WalkOver, VisitMember,
         CallThrows
<1>4. Mapped' = Mapped
  BY <1>3, SubscriptionsStay, MappingIs
<1>5. CASE UNCHANGED <<msg, due, called>>
  BY <1>4, <1>5 DEF Router!vars, Mapped
<1>6. CASE EnterInterface \/ LeaveInterface
  BY <1>5, <1>6 DEF EnterInterface, LeaveInterface, walkVars
<1>7. ASSUME WalkOver, due \subseteq called \/ "throw" \in Faults
      PROVE  Router!Next
  <2>1. msg' = Null /\ due' = {} /\ called' = {}
    BY <1>7 DEF WalkOver
  <2>2. Router!Finish
    BY <1>2, <1>4, <1>7, <2>1 DEF Router!Finish, Mapped
  <2> QED BY <2>2 DEF Router!Next
<1>8. CASE WalkEnd
  <2>1. due \subseteq called
    BY <1>1, <1>8 DEF WalkEnd, IInv, DueInv, Ahead
  <2> QED BY <1>7, <1>8, <2>1 DEF WalkEnd
<1>9. ASSUME NEW s \in Subs, CallThrows(s)
      PROVE  Router!Next
  BY <1>7, <1>9 DEF CallThrows
<1>10. ASSUME NEW s \in Subs, VisitMember(s)
       PROVE  Router!Next \/ UNCHANGED Router!vars
  <2>1. /\ at[MainThread] = "visit"
        /\ s \in members[arg[MainThread]] \ seen
        /\ called' = IF Same(topic[s], msg[2]) THEN called \union {s} ELSE called
        /\ msg' = msg /\ due' = due
    BY <1>10 DEF VisitMember, NextMember
  <2>2. CASE ~Same(topic[s], msg[2])
    BY <1>5, <2>1, <2>2
  <2>3. CASE Same(topic[s], msg[2])
    <3>1. PICK n \in Names, m \in Topics : msg = <<n, m>>
      BY <1>2 DEF Messages
    <3>2. /\ arg[MainThread] \in listed
          /\ Same(spelling[arg[MainThread]], n) /\ Same(topic[s], m)
          /\ s \in Registered
      BY <1>1, <2>1, <2>3, <3>1 DEF HandInv, Registered
    <3>3. s \in Router!Hits(<<n, m>>)
      BY <1>1, <2>1, <3>2, HitsAre
    <3>4. s \notin called
      BY <1>1, <2>1 DEF SeenInv
    <3>5. called' = called \union {s}
      BY <2>1, <2>3
    <3>6. Router!Call(s)
      BY <1>2, <1>4, <2>1, <3>1, <3>3, <3>4, <3>5 DEF Router!Call, Mapped
    <3> QED BY <3>6 DEF Router!Next
  <2> QED BY <2>2, <2>3
<1> QED BY <1>6, <1>8, <1>9, <1>10 DEF Walk

(* A message arrives for the members that match it now. *)
LEMMA ReceiveRefines ==
  ASSUME IInv, NEW n \in Names, NEW m \in Topics, Receive(n, m)
  PROVE  Router!Next
<1>1. msg = Null
  BY NoWalk DEF Receive
<1>2. called' = {}
  BY NoWalk DEF Receive
<1>3. Mapped' = Mapped
  BY SubscriptionsStay, MappingIs DEF Receive
<1>4. msg' = <<n, m>> /\ due' = Router!Hits(<<n, m>>)
  BY HitsAre DEF Receive
<1>5. <<n, m>> \in Messages
  BY DEF Messages
<1>6. Router!Arrive(<<n, m>>)
  BY <1>1, <1>2, <1>3, <1>4 DEF Router!Arrive, Mapped
<1> QED BY <1>5, <1>6 DEF Router!Next

(* A connection keeps the promise of SignalRouter to its subscribers, for  *)
(* any number of them, of threads and of names.                            *)
THEOREM RouterKept == Spec => RouterSpec
<1>1. Init => Router!Init
  <2> SUFFICES ASSUME Init PROVE Router!Init
    OBVIOUS
  <2>1. Mapped = [s \in Subs |-> Null]
    BY DEF Init, Mapped, Registered
  <2>2. msg = Null /\ due = {} /\ called = {}
    BY DEF Init
  <2> QED BY <2>1, <2>2 DEF Router!Init, Mapped
<1>2. IInv /\ IInv' /\ [Next]_vars => [Router!Next]_(Router!vars)
  <2> SUFFICES ASSUME IInv, IInv', [Next]_vars
               PROVE  Router!Next \/ UNCHANGED Router!vars
    OBVIOUS
  <2>1. ASSUME NEW t \in Threads, ClientStep(t) PROVE Router!Next
    BY <2>1, ClientRefines
  <2>2. ASSUME NEW n \in Names, NEW m \in Topics, Receive(n, m)
        PROVE  Router!Next
    BY <2>2, ReceiveRefines
  <2>3. CASE Walk
    BY <2>3, WalkRefines
  <2>4. CASE UNCHANGED vars
    <3>1. UNCHANGED registryVars /\ UNCHANGED <<msg, due, called>>
      BY <2>4 DEF vars, walkVars
    <3>2. Mapped' = Mapped
      BY <3>1, SubscriptionsStay, MappingIs
    <3> QED BY <3>1, <3>2 DEF Router!vars, Mapped
  <2> QED BY <2>1, <2>2, <2>3, <2>4 DEF Next, Halt, Rest
<1> QED BY <1>1, <1>2, Invariance, PTL DEF Spec, RouterSpec, Router!Spec
=============================================================================
