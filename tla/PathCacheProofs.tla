--------------------------- MODULE PathCacheProofs ---------------------------
(***************************************************************************)
(* Theorems about PathCache for every number of threads, handles, names    *)
(* and paths: its types, then what holds of programs that share paths      *)
(* without changing them, in any number of threads, and of programs of one *)
(* thread that change paths.                                               *)
(***************************************************************************)
EXTENDS PathCache, FiniteSetTheorems, WellFoundedInduction, TLAPS

\* A nonempty set of path numbers has a largest one.
LEMMA LargestExists ==
  ASSUME NEW S, S \subseteq Paths, S # {}
  PROVE  \E p \in S : \A q \in S : q <= p
<1>. USE ConstantsAssumption DEF ConstantsAssumption, Paths
<1>. DEFINE T == {MaxPaths - p : p \in S}
<1>1. T \subseteq Nat /\ T # {}
  <2>1. PICK p : p \in S
    OBVIOUS
  <2>2. MaxPaths - p \in T
    BY <2>1
  <2>3. \A x \in T : x \in Nat
    OBVIOUS
  <2>. QED
    BY <2>2, <2>3
<1>2. \E x \in T : \A y \in T : ~ (<<y, x>> \in OpToRel(<, Nat))
  BY <1>1, NatLessThanWellFounded, WFMin, Zenon
<1>3. PICK x \in T : \A y \in T : ~ (y < x)
  BY <1>1, <1>2 DEF OpToRel
<1>4. PICK p \in S : x = MaxPaths - p
  OBVIOUS
<1>5. \A q \in S : ~ (MaxPaths - q < MaxPaths - p)
  BY <1>3, <1>4
<1>. QED
  BY <1>5

\* The first match of a chain is one of its matches.
LEMMA FirstMatchMatches ==
  ASSUME NEW n, cached_path \subseteq Paths, Matches(n) # {}
  PROVE  FirstMatch(n) \in Matches(n)
<1>1. Matches(n) \subseteq Paths
  BY DEF Matches
<1>2. \E p \in Matches(n) : \A q \in Matches(n) : q <= p
  BY <1>1, LargestExists
<1>. QED
  BY <1>2 DEF FirstMatch

-----------------------------------------------------------------------------
\* A call that works on a path has one in hand.
PathInHand == \A t \in Threads :
  pc[t] \in {"take_ref", "free", "uncache", "mutate"} => cur[t] \in Paths

\* Every step keeps the types.
LEMMA TypeStep ==
  ASSUME TypeOK, PathInHand, [Next]_vars
  PROVE  TypeOK' /\ PathInHand'
<1>. DEFINE Inv == TypeOK /\ PathInHand
<1>. USE DEF TypeOK, PathInHand, pathVars, cacheVars, lockVars, callVars, vars
<1>0. ASSUME NEW n, Allocate(n)
      PROVE  allocated' \in 0..MaxPaths /\ allocated + 1 \in Paths
  BY <1>0, ConstantsAssumption DEF Allocate, Paths, ConstantsAssumption
<1>u. ASSUME NEW h \in Handles, Usable(h) PROVE handle[h] \in Paths
  BY <1>u, ConstantsAssumption DEF Usable, Live, Paths, ConstantsAssumption
<1>1. ASSUME NEW t \in Threads, NEW h \in Handles, NEW n \in Names,
             NewStart(t, h, n)
      PROVE  Inv'
  BY <1>1 DEF NewStart, Call
<1>2. ASSUME NEW t \in Threads, Lookup(t) PROVE Inv'
  <2>1. CASE Matches(want[t]) = {}
    BY <1>2, <2>1 DEF Lookup, Goto
  <2>2. CASE Matches(want[t]) # {}
    <3>1. FirstMatch(want[t]) \in Paths
      BY <2>2, FirstMatchMatches DEF Matches
    <3>. QED
      BY <1>2, <2>2, <3>1 DEF Lookup, Goto
  <2>. QED
    BY <2>1, <2>2
<1>3. ASSUME NEW t \in Threads, NewFails(t) PROVE Inv'
  BY <1>3 DEF NewFails, Return
<1>4. ASSUME NEW t \in Threads, Publish(t) PROVE Inv'
  <2>1. allocated' \in 0..MaxPaths /\ allocated + 1 \in Paths
    BY <1>4, <1>0 DEF Publish
  <2>. QED
    BY <1>4, <2>1 DEF Publish, Allocate, Goto
<1>5. ASSUME NEW t \in Threads, PublishFails(t) PROVE Inv'
  <2>1. allocated' \in 0..MaxPaths /\ allocated + 1 \in Paths
    BY <1>5, <1>0 DEF PublishFails
  <2>2. /\ freed' \subseteq Paths
        /\ handle' \in [Handles -> Paths \cup {NoPath}]
    BY <1>5, <2>1 DEF PublishFails
  <2>3. /\ refcount' \in [Paths -> Int]
        /\ name' \in [Paths -> Names \cup {NoName}]
    BY <1>5, <2>1 DEF PublishFails, Allocate
  <2>. QED
    BY <1>5, <2>1, <2>2, <2>3 DEF PublishFails, Return
<1>6. ASSUME NEW t \in Threads, TakeRef(t) PROVE Inv'
  <2>1. refcount' \in [Paths -> Int]
    BY <1>6 DEF TakeRef, AddRef
  <2>2. handle' \in [Handles -> Paths \cup {NoPath}]
    BY <1>6 DEF TakeRef, AddRef
  <2>. QED
    BY <1>6, <2>1, <2>2 DEF TakeRef, AddRef, Return
<1>7. ASSUME NEW t \in Threads, NEW h \in Handles, NEW g \in Handles, Ref(t, h, g)
      PROVE  Inv'
  <2>1. refcount' \in [Paths -> Int]
    BY <1>7, <1>u DEF Ref, AddRef
  <2>2. handle' \in [Handles -> Paths \cup {NoPath}]
    BY <1>7 DEF Ref, AddRef
  <2>. QED
    BY <1>7, <2>1, <2>2 DEF Ref, AddRef
<1>8. ASSUME NEW t \in Threads, NEW h \in Handles, NEW g \in Handles, Clone(t, h, g)
      PROVE  Inv'
  <2>1. allocated' \in 0..MaxPaths /\ allocated + 1 \in Paths
    BY <1>8, <1>0 DEF Clone
  <2>. QED
    BY <1>8, <1>u, <2>1 DEF Clone, Allocate
<1>9. ASSUME NEW t \in Threads, NEW h \in Handles, Destroy(t, h) PROVE Inv'
  BY <1>9, <1>u DEF Destroy, Call, DropRef
<1>10. ASSUME NEW t \in Threads, Free(t) PROVE Inv'
  BY <1>10 DEF Free, Return
<1>11. ASSUME NEW t \in Threads, NEW h \in Handles, NEW n \in Names,
              Invalidate(t, h, n)
       PROVE  Inv'
  BY <1>11, <1>u DEF Invalidate, OnlyCaller, Call
<1>12. ASSUME NEW t \in Threads, Uncache(t) PROVE Inv'
  BY <1>12 DEF Uncache, DropRef, RemoveEntry, Goto, Return
<1>13. ASSUME NEW t \in Threads, Mutate(t) PROVE Inv'
  BY <1>13 DEF Mutate, Return
<1>14. ASSUME NEW t \in Threads, CacheLock(t) PROVE Inv'
  BY <1>14 DEF CacheLock, Call
<1>15. ASSUME NEW t \in Threads, NEW p \in Paths, LockPath(t, p) PROVE Inv'
  BY <1>15 DEF LockPath
<1>16. ASSUME NEW t \in Threads, CacheUnlock(t) PROVE Inv'
  BY <1>16 DEF CacheUnlock, Return
<1>17. CASE CacheDestroy
  BY <1>17 DEF CacheDestroy
<1>18. CASE UNCHANGED vars
  BY <1>18
<1>. QED
  BY ONLY <1>1, <1>2, <1>3, <1>4, <1>5, <1>6, <1>7, <1>8, <1>9, <1>10, <1>11,
     <1>12, <1>13, <1>14, <1>15, <1>16, <1>17, <1>18, [Next]_vars
     DEF Next, Request, Step, Finished

\* Type correctness of every program, whatever it does with its paths.
THEOREM TypeCorrect == Spec => []TypeOK
<1>1. Init => TypeOK /\ PathInHand
  BY ConstantsAssumption DEF Init, TypeOK, PathInHand, ConstantsAssumption
<1>2. TypeOK /\ PathInHand /\ [Next]_vars => TypeOK' /\ PathInHand'
  BY TypeStep
<1>. QED
  BY <1>1, <1>2, PTL DEF Spec

-----------------------------------------------------------------------------
(***************************************************************************)
(* Programs that share paths and never change one, in memory that does not *)
(* run out: this is how the library itself uses the cache, for a criterion *)
(* and for the document helpers.                                           *)
(***************************************************************************)
ReadOnly == Ops \cap {"mutate", "hash_add_fails"} = {}

Count(f, p) == Cardinality({h \in Handles : f[h] = p})

Counted(f, p) == {h \in Handles : f[h] = p}

LEMMA CountNat ==
  ASSUME NEW f, NEW p
  PROVE  IsFiniteSet(Counted(f, p)) /\ Count(f, p) \in Nat
BY ConstantsAssumption, FS_Subset, FS_CardinalityType
   DEF ConstantsAssumption, Counted, Count

\* Redirecting one handle moves one unit of the count of its path.
LEMMA CountSame ==
  ASSUME NEW f, NEW g, NEW h \in Handles, NEW p,
         \A x \in Handles : x # h => g[x] = f[x],
         f[h] # p, g[h] # p
  PROVE  Count(g, p) = Count(f, p)
<1>1. Counted(g, p) = Counted(f, p)
  BY DEF Counted
<1>. QED
  BY <1>1 DEF Count, Counted

LEMMA CountGained ==
  ASSUME NEW f, NEW g, NEW h \in Handles, NEW p,
         \A x \in Handles : x # h => g[x] = f[x],
         f[h] # p, g[h] = p
  PROVE  Count(g, p) = Count(f, p) + 1
<1>1. Counted(g, p) = Counted(f, p) \cup {h} /\ h \notin Counted(f, p)
  BY DEF Counted
<1>2. Cardinality(Counted(g, p)) = Cardinality(Counted(f, p)) + 1
  BY <1>1, CountNat, FS_AddElement
<1>. QED
  BY <1>2 DEF Count, Counted

LEMMA CountLost ==
  ASSUME NEW f, NEW g, NEW h \in Handles, NEW p,
         \A x \in Handles : x # h => g[x] = f[x],
         f[h] = p, g[h] # p
  PROVE  Count(g, p) = Count(f, p) - 1
<1>1. Counted(g, p) = Counted(f, p) \ {h} /\ h \in Counted(f, p)
  BY DEF Counted
<1>2. Cardinality(Counted(g, p)) = Cardinality(Counted(f, p)) - 1
  BY <1>1, CountNat, FS_RemoveElement
<1>. QED
  BY <1>2 DEF Count, Counted

\* A path that a handle points to has a count.
LEMMA CountPositive ==
  ASSUME NEW f, NEW h \in Handles
  PROVE  Count(f, f[h]) # 0
<1>1. h \in Counted(f, f[h])
  BY DEF Counted
<1>. QED
  BY <1>1, CountNat, FS_EmptySet DEF Count, Counted

\* What the calls in progress have in hand.
CallsInv ==
  \A t \in Threads :
    /\ pc[t] \notin {"uncache", "mutate"}
    /\ cur[t] # NoPath => pc[t] \in {"take_ref", "free"}
    /\ pc[t] = "take_ref" => cur[t] \in cached_path
    /\ pc[t] = "free" => cur[t] \in Live /\ refcount[cur[t]] = 0
    /\ slot[t] # NoHandle <=> pc[t] \in {"lookup", "miss", "take_ref"}
    /\ slot[t] # NoHandle => handle[slot[t]] = NoPath

\* Two calls never free one path, and never fill one handle.
CallsApart ==
  \A t, u \in Threads : t # u =>
    /\ pc[t] = "free" /\ pc[u] = "free" => cur[t] # cur[u]
    /\ slot[t] = slot[u] => slot[t] = NoHandle

\* Counts are exact, and nothing that is pointed to has been freed.
RefsInv ==
  /\ freed \subseteq 1..allocated
  /\ cached_path \subseteq Live
  /\ \A h \in Handles : Holds(h) => handle[h] \in Live
  /\ \A p \in Live : refcount[p] =
       Count(handle, p) + (IF p \in cached_path THEN 1 ELSE 0)

SharedInv == TypeOK /\ PathInHand /\ CallsInv /\ CallsApart /\ RefsInv

\* Every step of a program that only shares keeps the invariant.
LEMMA SharedStep ==
  ASSUME ReadOnly, SharedInv, [Next]_vars
  PROVE  SharedInv'
<1>. DEFINE Inv == CallsInv /\ CallsApart /\ RefsInv
<1>t. TypeOK' /\ PathInHand'
  BY TypeStep DEF SharedInv
<1>. USE DEF SharedInv, pathVars, cacheVars, lockVars, callVars, vars
<1>l. Live \subseteq Paths
  BY ConstantsAssumption DEF Live, Paths, ConstantsAssumption, TypeOK
<1>n. NoPath \notin Paths
  BY DEF NoPath, Paths
<1>h. NoHandle \notin Handles
  BY ConstantsAssumption DEF ConstantsAssumption
<1>1. ASSUME NEW t \in Threads, NEW h \in Handles, NEW n \in Names,
             NewStart(t, h, n)
      PROVE  Inv'
  <2>1. CallsInv' /\ CallsApart'
    BY <1>1, <1>h DEF NewStart, Call, Idle, Vacant, Holds, Busy, TypeOK, CallsInv, CallsApart, Live
  <2>2. RefsInv'
    BY <1>1 DEF NewStart, RefsInv, Live, Holds
  <2>. QED
    BY <2>1, <2>2
<1>2. ASSUME NEW t \in Threads, Lookup(t) PROVE Inv'
  <2>1. CASE Matches(want[t]) = {}
    BY <1>2, <2>1 DEF Lookup, Goto, TypeOK, CallsInv, CallsApart, RefsInv, Live, Holds
  <2>2. CASE Matches(want[t]) # {}
    <3>1. FirstMatch(want[t]) \in cached_path
      BY <2>2, FirstMatchMatches DEF Matches, TypeOK
    <3>. QED
      BY <1>2, <2>2, <3>1 DEF Lookup, Goto, TypeOK, CallsInv, CallsApart, RefsInv, Live, Holds
  <2>. QED
    BY <2>1, <2>2
<1>3. ASSUME NEW t \in Threads, NewFails(t) PROVE Inv'
  <2>1. CallsInv' /\ CallsApart'
    BY <1>3 DEF NewFails, Return, TypeOK, CallsInv, CallsApart, Live
  <2>2. RefsInv'
    BY <1>3 DEF NewFails, RefsInv, Live, Holds
  <2>. QED
    BY <2>1, <2>2
<1>y. handle \in [Handles -> Paths \cup {NoPath}]
  BY DEF TypeOK
<1>f. ASSUME NEW n, Allocate(n)
      PROVE  /\ allocated + 1 \in Paths /\ allocated + 1 \notin Live
             /\ allocated + 1 \notin cached_path
             /\ Count(handle, allocated + 1) = 0
             /\ freed' = freed => Live' = Live \cup {allocated + 1}
  <2>1. /\ allocated \in Nat /\ allocated' = allocated + 1
        /\ allocated + 1 \in Paths /\ allocated + 1 \notin Live
    BY <1>f, ConstantsAssumption
       DEF Allocate, TypeOK, Paths, ConstantsAssumption, Live
  <2>2. freed' = freed => Live' = Live \cup {allocated + 1}
    BY <2>1 DEF Live, RefsInv
  <2>3. {h \in Handles : handle[h] = allocated + 1} = {}
    BY <2>1, <1>n DEF RefsInv, Holds
  <2>4. Count(handle, allocated + 1) = 0
    BY <2>3, FS_EmptySet DEF Count
  <2>. QED
    BY <2>1, <2>2, <2>4 DEF RefsInv
<1>4. ASSUME NEW t \in Threads, Publish(t) PROVE Inv'
  <2>. DEFINE new == allocated + 1
  <2>1. /\ new \in Paths /\ new \notin Live /\ new \notin cached_path
        /\ Count(handle, new) = 0 /\ Live' = Live \cup {new}
    BY <1>4, <1>f DEF Publish
  <2>2. refcount' = [refcount EXCEPT ![new] = 1]
    BY <1>4 DEF Publish, Allocate
  <2>. HIDE DEF new
  <2>3. CallsInv' /\ CallsApart'
    BY <1>4, <2>1, <2>2 DEF Publish, Goto, TypeOK, CallsInv, CallsApart, new
  <2>4. \A p \in Live' : refcount'[p] =
          Count(handle, p) + (IF p \in cached_path' THEN 1 ELSE 0)
    BY <1>4, <1>l, <2>1, <2>2 DEF Publish, TypeOK, RefsInv, new
  <2>5. freed' \subseteq 1..allocated'
    BY <1>4 DEF Publish, Allocate, RefsInv, TypeOK
  <2>. QED
    BY <1>4, <2>1, <2>3, <2>4, <2>5 DEF Publish, RefsInv, Holds, new
<1>5. Ops \cap {"mutate", "hash_add_fails"} = {}
  BY DEF ReadOnly
<1>6. ASSUME NEW t \in Threads, TakeRef(t) PROVE Inv'
  <2>. DEFINE p == cur[t] h == slot[t]
  <2>1. /\ p \in cached_path /\ p \in Live /\ p \in Paths
        /\ h \in Handles /\ handle[h] = NoPath
    <3>1. cur[t] \in cached_path /\ slot[t] # NoHandle
      BY <1>6 DEF TakeRef, AddRef, CallsInv
    <3>2. slot[t] \in Handles /\ handle[slot[t]] = NoPath
      BY <3>1 DEF CallsInv, TypeOK
    <3>. QED
      BY <1>l, <3>1, <3>2 DEF RefsInv
  <2>2. /\ refcount' = [refcount EXCEPT ![p] = @ + 1]
        /\ handle' = [handle EXCEPT ![h] = p]
        /\ UNCHANGED <<allocated, freed, cached_path>>
    BY <1>6 DEF TakeRef, AddRef
  <2>. HIDE DEF p, h
  <2>u. /\ \A u \in Threads : pc[u] = "free" => cur[u] # p
        /\ \A u \in Threads : u # t /\ slot[u] # NoHandle => slot[u] # h
    <3>1. refcount[p] # 0
      BY <2>1, CountNat DEF RefsInv
    <3>. QED
      BY <2>1, <3>1 DEF CallsInv, CallsApart, h
  <2>3. CallsInv' /\ CallsApart'
    <3>1. CallsApart'
      BY <1>6 DEF TakeRef, AddRef, Return, TypeOK, CallsApart
    <3>2. CallsInv'
      BY <1>6, <2>1, <2>2, <2>u DEF TakeRef, AddRef, Return, TypeOK, CallsInv, Live
    <3>. QED
      BY <3>1, <3>2
  <2>4. \A q \in Live' : refcount'[q] =
          Count(handle', q) + (IF q \in cached_path' THEN 1 ELSE 0)
    <3>. SUFFICES ASSUME NEW q \in Live
                  PROVE  refcount'[q] =
                    Count(handle', q) + (IF q \in cached_path THEN 1 ELSE 0)
      BY <2>2 DEF Live
    <3>0. q \in Paths /\ q # NoPath
      BY <1>l, <1>n, <2>1
    <3>1. \A x \in Handles : x # h => handle'[x] = handle[x]
      BY <1>y, <2>2
    <3>2. handle[h] # q /\ handle'[h] = p /\ h \in Handles
      BY <1>y, <2>1, <2>2, <3>0
    <3>3. p # q => Count(handle', q) = Count(handle, q)
      BY <3>1, <3>2, CountSame
    <3>4. p = q => Count(handle', q) = Count(handle, q) + 1
      BY <3>1, <3>2, CountGained
    <3>. QED
      BY <2>1, <2>2, <3>0, <3>3, <3>4, CountNat DEF RefsInv, TypeOK
  <2>. QED
    BY <2>1, <2>2, <2>3, <2>4 DEF RefsInv, Holds, Live, TypeOK
<1>7. ASSUME NEW t \in Threads, NEW h \in Handles, NEW g \in Handles, Ref(t, h, g)
      PROVE  Inv'
  <2>. DEFINE p == handle[h]
  <2>1. /\ p \in Live /\ p \in Paths /\ handle[g] = NoPath
        /\ \A u \in Threads : slot[u] # g
    BY <1>7, <1>l DEF Ref, Usable, Vacant, Holds, Busy
  <2>2. /\ refcount' = [refcount EXCEPT ![p] = @ + 1]
        /\ handle' = [handle EXCEPT ![g] = p]
        /\ UNCHANGED <<allocated, freed, cached_path, callVars>>
    BY <1>7 DEF Ref, AddRef
  <2>. HIDE DEF p
  <2>3. \A u \in Threads : pc[u] = "free" => cur[u] # p
    <3>1. ASSUME NEW u \in Threads, pc[u] = "free", cur[u] = p PROVE FALSE
      <4>1. refcount[p] = 0
        BY <3>1 DEF CallsInv
      <4>2. Count(handle, p) = 0
        BY <2>1, <4>1, CountNat DEF RefsInv
      <4>. QED
        BY <4>2, CountPositive DEF p
    <3>. QED
      BY <3>1
  <2>4. CallsInv' /\ CallsApart'
    BY <2>1, <2>2, <2>3 DEF TypeOK, CallsInv, CallsApart, Live
  <2>5. \A q \in Live' : refcount'[q] =
          Count(handle', q) + (IF q \in cached_path' THEN 1 ELSE 0)
    <3>. SUFFICES ASSUME NEW q \in Live
                  PROVE  refcount'[q] =
                    Count(handle', q) + (IF q \in cached_path THEN 1 ELSE 0)
      BY <2>2 DEF Live
    <3>0. q \in Paths /\ q # NoPath
      BY <1>l, <1>n, <2>1
    <3>1. \A x \in Handles : x # g => handle'[x] = handle[x]
      BY <1>y, <2>2
    <3>2. handle[g] # q /\ handle'[g] = p /\ g \in Handles
      BY <1>y, <2>1, <2>2, <3>0
    <3>3. p # q => Count(handle', q) = Count(handle, q)
      BY <3>1, <3>2, CountSame
    <3>4. p = q => Count(handle', q) = Count(handle, q) + 1
      BY <3>1, <3>2, CountGained
    <3>. QED
      BY <2>1, <2>2, <3>0, <3>3, <3>4, CountNat DEF RefsInv, TypeOK
  <2>. QED
    BY <2>1, <2>2, <2>4, <2>5 DEF RefsInv, Holds, Live, TypeOK
<1>8. ASSUME NEW t \in Threads, NEW h \in Handles, NEW g \in Handles, Clone(t, h, g)
      PROVE  Inv'
  <2>. DEFINE new == allocated + 1
  <2>1. /\ new \in Paths /\ new \notin Live /\ new \notin cached_path
        /\ Count(handle, new) = 0 /\ Live' = Live \cup {new}
    BY <1>8, <1>f DEF Clone
  <2>2. /\ refcount' = [refcount EXCEPT ![new] = 1]
        /\ handle' = [handle EXCEPT ![g] = new]
        /\ handle[g] = NoPath /\ \A u \in Threads : slot[u] # g
        /\ UNCHANGED <<freed, cached_path, callVars>>
    BY <1>8 DEF Clone, Allocate, Vacant, Holds, Busy
  <2>3. freed' \subseteq 1..allocated'
    BY <1>8 DEF Clone, Allocate, RefsInv, TypeOK
  <2>. HIDE DEF new
  <2>4. CallsInv' /\ CallsApart'
    BY <1>l, <2>1, <2>2 DEF TypeOK, CallsInv, CallsApart
  <2>5. \A q \in Live' : refcount'[q] =
          Count(handle', q) + (IF q \in cached_path' THEN 1 ELSE 0)
    <3>. SUFFICES ASSUME NEW q \in Live \cup {new}
                  PROVE  refcount'[q] =
                    Count(handle', q) + (IF q \in cached_path THEN 1 ELSE 0)
      BY <2>1, <2>2
    <3>0. q \in Paths /\ q # NoPath
      BY <1>l, <1>n, <2>1
    <3>1. \A x \in Handles : x # g => handle'[x] = handle[x]
      BY <1>y, <2>2
    <3>2. handle[g] # q /\ handle'[g] = new /\ g \in Handles
      BY <1>y, <2>1, <2>2, <3>0
    <3>3. new # q => Count(handle', q) = Count(handle, q)
      BY <3>1, <3>2, CountSame
    <3>4. new = q => Count(handle', q) = Count(handle, q) + 1
      BY <3>1, <3>2, CountGained
    <3>. QED
      BY <2>1, <2>2, <3>0, <3>3, <3>4, CountNat DEF RefsInv, TypeOK
  <2>. QED
    BY <2>1, <2>2, <2>3, <2>4, <2>5 DEF RefsInv, Holds, TypeOK
<1>9. ASSUME NEW t \in Threads, NEW h \in Handles, Destroy(t, h) PROVE Inv'
  <2>. DEFINE p == handle[h]
  <2>1. /\ p \in Live /\ p \in Paths /\ p # NoPath
    BY <1>9, <1>l, <1>n DEF Destroy, Usable
  <2>2. /\ refcount' = [refcount EXCEPT ![p] = @ - 1]
        /\ handle' = [handle EXCEPT ![h] = NoPath]
        /\ UNCHANGED <<allocated, freed, cached_path>>
    BY <1>9 DEF Destroy, DropRef
  <2>3. \/ refcount[p] = 1 /\ Call(t, "free", p, NoHandle, NoName)
        \/ refcount[p] # 1 /\ UNCHANGED callVars
    BY <1>9 DEF Destroy, DropRef
  <2>. HIDE DEF p
  <2>4. Count(handle, p) \in Nat /\ Count(handle, p) # 0
    BY CountNat, CountPositive DEF p
  <2>5. \A u \in Threads : pc[u] = "free" => cur[u] # p
    <3>1. refcount[p] # 0
      BY <2>1, <2>4 DEF RefsInv
    <3>. QED
      BY <3>1 DEF CallsInv
  <2>6. \A u \in Threads : slot[u] # NoHandle => handle'[slot[u]] = NoPath
    BY <2>2 DEF CallsInv, TypeOK
  <2>7. CallsInv' /\ CallsApart'
    <3>1. CASE refcount[p] = 1 /\ Call(t, "free", p, NoHandle, NoName)
      BY <2>1, <2>2, <2>5, <2>6, <3>1
         DEF Call, Idle, TypeOK, CallsInv, CallsApart, Live
    <3>2. CASE refcount[p] # 1 /\ UNCHANGED callVars
      BY <2>1, <2>2, <2>5, <2>6, <3>2 DEF TypeOK, CallsInv, CallsApart, Live
    <3>. QED
      BY <2>3, <3>1, <3>2
  <2>8. \A q \in Live' : refcount'[q] =
          Count(handle', q) + (IF q \in cached_path' THEN 1 ELSE 0)
    <3>. SUFFICES ASSUME NEW q \in Live
                  PROVE  refcount'[q] =
                    Count(handle', q) + (IF q \in cached_path THEN 1 ELSE 0)
      BY <2>2 DEF Live
    <3>0. q \in Paths /\ q # NoPath
      BY <1>l, <1>n, <2>1
    <3>1. \A x \in Handles : x # h => handle'[x] = handle[x]
      BY <1>y, <2>2
    <3>2. handle'[h] = NoPath
      BY <1>y, <2>1, <2>2
    <3>3. p # q => Count(handle', q) = Count(handle, q)
      BY <3>0, <3>1, <3>2, CountSame DEF p
    <3>4. p = q => Count(handle', q) = Count(handle, q) - 1
      BY <3>0, <3>1, <3>2, CountLost DEF p
    <3>. QED
      BY <2>1, <2>2, <3>0, <3>3, <3>4, CountNat DEF RefsInv, TypeOK
  <2>. QED
    BY <2>1, <2>2, <2>7, <2>8 DEF RefsInv, Holds, Live, TypeOK
<1>10. ASSUME NEW t \in Threads, Free(t) PROVE Inv'
  <2>. DEFINE p == cur[t]
  <2>1. p \in Live /\ p \in Paths /\ refcount[p] = 0
    BY <1>10, <1>l DEF Free, CallsInv
  <2>2. Count(handle, p) = 0 /\ p \notin cached_path
    BY <2>1, CountNat DEF RefsInv
  <2>3. \A h \in Handles : handle[h] # p
    BY <2>2, CountPositive
  <2>4. Live' = Live \ {p} /\ freed' \subseteq 1..allocated'
    BY <1>10, <2>1 DEF Free, Live, RefsInv
  <2>5. CallsInv' /\ CallsApart'
    BY <1>10, <2>2, <2>4 DEF Free, Return, TypeOK, CallsInv, CallsApart
  <2>. QED
    BY <1>10, <2>2, <2>3, <2>4, <2>5 DEF Free, RefsInv, Holds
<1>11. ASSUME NEW t \in Threads, CacheLock(t) PROVE Inv'
  BY <1>11 DEF CacheLock, Call, Idle, TypeOK, CallsInv, CallsApart, RefsInv, Live, Holds
<1>12. ASSUME NEW t \in Threads, NEW p \in Paths, LockPath(t, p) PROVE Inv'
  BY <1>12 DEF LockPath, CallsInv, CallsApart, RefsInv, Live, Holds
<1>13. ASSUME NEW t \in Threads, CacheUnlock(t) PROVE Inv'
  <2>1. CallsInv' /\ CallsApart'
    BY <1>13 DEF CacheUnlock, Return, TypeOK, CallsInv, CallsApart, Live
  <2>2. RefsInv'
    BY <1>13 DEF CacheUnlock, RefsInv, Live, Holds
  <2>. QED
    BY <2>1, <2>2
<1>14. ASSUME CacheDestroy PROVE Inv'
  <2>. DEFINE last == {p \in cached_path : refcount[p] = 1}
  <2>1. /\ refcount' = [p \in Paths |->
                IF p \in cached_path THEN refcount[p] - 1 ELSE refcount[p]]
        /\ freed' = freed \cup last /\ cached_path' = {}
        /\ UNCHANGED <<allocated, handle, callVars>>
        /\ \A t \in Threads : pc[t] = "idle"
    BY <1>14 DEF CacheDestroy, Idle
  <2>2. last \subseteq Live /\ \A p \in last : Count(handle, p) = 0
    BY CountNat DEF RefsInv
  <2>3. \A h \in Handles : handle[h] \notin last
    BY <2>2, CountPositive
  <2>. HIDE DEF last
  <2>4. Live' = Live \ last /\ freed' \subseteq 1..allocated'
    BY <2>1, <2>2 DEF Live, RefsInv
  <2>5. CallsInv' /\ CallsApart'
    BY <2>1 DEF TypeOK, CallsInv, CallsApart
  <2>6. \A q \in Live' : refcount'[q] =
          Count(handle', q) + (IF q \in cached_path' THEN 1 ELSE 0)
    BY <1>l, CountNat, <2>1, <2>4 DEF RefsInv, TypeOK
  <2>. QED
    BY <2>1, <2>3, <2>4, <2>5, <2>6 DEF RefsInv, Holds
<1>15. ASSUME UNCHANGED vars PROVE Inv'
  <2>1. CallsInv' /\ CallsApart'
    BY <1>15 DEF CallsInv, CallsApart, Live
  <2>2. RefsInv'
    BY <1>15 DEF RefsInv, Live, Holds
  <2>. QED
    BY <2>1, <2>2
<1>. QED
  <2>1. Inv'
    <3>1. ~ \E t \in Threads, h \in Handles, n \in Names : Invalidate(t, h, n)
      BY <1>5 DEF Invalidate
    <3>2. ~ \E t \in Threads : PublishFails(t) \/ Uncache(t) \/ Mutate(t)
      BY <1>5 DEF PublishFails, Uncache, Mutate, CallsInv
    <3>. QED
      BY ONLY <3>1, <3>2, <1>1, <1>2, <1>3, <1>4, <1>6, <1>7, <1>8, <1>9, <1>10,
         <1>11, <1>12, <1>13, <1>14, <1>15, [Next]_vars
         DEF Next, Request, Step, Finished
  <2>. QED
    BY <1>t, <2>1

LEMMA SharedInvariant == ASSUME ReadOnly PROVE Spec => []SharedInv
<1>1. Init => SharedInv
  <2>. SUFFICES ASSUME Init PROVE SharedInv
    OBVIOUS
  <2>1. TypeOK /\ PathInHand
    BY ConstantsAssumption DEF Init, TypeOK, PathInHand, ConstantsAssumption
  <2>2. Live = {}
    BY DEF Init, Live
  <2>3. CallsInv /\ CallsApart
    BY DEF Init, CallsInv, CallsApart
  <2>4. RefsInv
    BY <2>2 DEF Init, RefsInv, Holds
  <2>. QED
    BY <2>1, <2>3, <2>4 DEF SharedInv
<1>2. SharedInv /\ [Next]_vars => SharedInv'
  BY SharedStep
<1>. QED
  BY <1>1, <1>2, PTL DEF Spec

\* A program that only shares paths never reaches freed memory through a path:
\* not through a handle, not from inside new() between the lookup and the
\* reference, and not through the table.
THEOREM SharedPointersLive == ASSUME ReadOnly PROVE Spec => []PointersLive
<1>1. SharedInv => PointersLive
  BY DEF SharedInv, TypeOK, CallsInv, RefsInv, PointersLive
<1>. QED
  BY <1>1, SharedInvariant, PTL

\* In such a program every count is the number of handles plus the entry of the
\* table, however the calls of the threads interleave.
THEOREM SharedRefcountExact == ASSUME ReadOnly PROVE Spec => []RefcountExact
<1>1. SharedInv => RefcountExact
  BY DEF SharedInv, RefsInv, RefcountExact, Count, Holders
<1>. QED
  BY <1>1, SharedInvariant, PTL

-----------------------------------------------------------------------------
(***************************************************************************)
(* More about these programs: nothing is left behind when the table has    *)
(* been destroyed, new() finds what it was asked for, and the cache        *)
(* implements handles with values of their own.                            *)
(***************************************************************************)

Creating == {"lookup", "miss", "take_ref"}

\* A live path whose count is zero is about to be freed by a call.
Freeing == \A p \in Live :
  refcount[p] = 0 => \E t \in Threads : pc[t] = "free" /\ cur[t] = p

\* A table that has been destroyed is empty and is not filled again.
EndInv == cache = "destroyed" =>
  cached_path = {} /\ \A t \in Threads : pc[t] \notin Creating

\* Paths have names, and new() has found a path of the name it wants.
NamesInv ==
  /\ \A p \in Live : name[p] \in Names
  /\ \A t \in Threads : pc[t] \in Creating => want[t] \in Names
  /\ NewFindsRequested

MoreInv == Freeing /\ EndInv /\ NamesInv

-----------------------------------------------------------------------------
\* The program's calls that allocate: the new path is counted and named.
LEMMA AllocateStep ==
  ASSUME TypeOK, RefsInv, NEW n \in Names, Allocate(n), freed' = freed
  PROVE  /\ allocated + 1 \in Paths /\ allocated + 1 \notin Live
         /\ Live' = Live \cup {allocated + 1}
         /\ Live \subseteq Paths
         /\ refcount'[allocated + 1] = 1 /\ name'[allocated + 1] = n
         /\ \A p \in Live : refcount'[p] = refcount[p] /\ name'[p] = name[p]
<1>1. /\ allocated \in Nat /\ allocated' = allocated + 1
      /\ allocated + 1 \in Paths /\ allocated + 1 \notin Live
  BY ConstantsAssumption DEF Allocate, TypeOK, Paths, Live
<1>2. Live \subseteq Paths
  BY ConstantsAssumption DEF Live, Paths, TypeOK
<1>3. Live' = Live \cup {allocated + 1}
  BY <1>1 DEF Live, RefsInv
<1> HIDE DEF Live, Paths
<1>4. /\ refcount' = [refcount EXCEPT ![allocated + 1] = 1]
      /\ name' = [name EXCEPT ![allocated + 1] = n]
  BY DEF Allocate
<1>5. /\ refcount'[allocated + 1] = 1 /\ name'[allocated + 1] = n
      /\ \A p \in Live : refcount'[p] = refcount[p] /\ name'[p] = name[p]
  BY <1>1, <1>2, <1>4 DEF TypeOK
<1> QED
  BY <1>1, <1>2, <1>3, <1>5

\* Counts of the live paths are naturals, that of a path in the table or in a
\* handle is not zero.
LEMMA CountsOfLive ==
  ASSUME TypeOK, RefsInv
  PROVE  /\ Live \subseteq Paths
         /\ \A p \in Live : refcount[p] \in Nat
         /\ \A p \in cached_path : p \in Live /\ refcount[p] # 0
         /\ \A h \in Handles : Holds(h) => handle[h] \in Live /\ refcount[handle[h]] # 0
<1>1. Live \subseteq Paths
  BY ConstantsAssumption DEF Live, Paths, TypeOK
<1>2. \A p \in Live : Count(handle, p) \in Nat
  BY CountNat
<1>3. \A h \in Handles : Count(handle, handle[h]) # 0
  BY CountPositive
<1>4. /\ cached_path \subseteq Live
      /\ \A h \in Handles : Holds(h) => handle[h] \in Live
      /\ \A p \in Live : refcount[p] = Count(handle, p) + (IF p \in cached_path THEN 1 ELSE 0)
  BY DEF RefsInv
<1> QED
  BY <1>1, <1>2, <1>3, <1>4

\* Every step keeps it.
LEMMA MoreStep ==
  ASSUME ReadOnly, SharedInv, MoreInv, [Next]_vars
  PROVE  MoreInv'
<1>. TypeOK /\ RefsInv
  BY DEF SharedInv
<1>. USE DEF Creating, pathVars, cacheVars, lockVars, callVars, vars
<1>l. /\ Live \subseteq Paths
      /\ \A p \in Live : refcount[p] \in Nat
      /\ \A p \in cached_path : p \in Live /\ refcount[p] # 0
      /\ \A h \in Handles : Holds(h) => handle[h] \in Live /\ refcount[handle[h]] # 0
  BY CountsOfLive
<1>t. /\ pc \in [Threads -> {"idle", "lookup", "miss", "take_ref", "free",
                             "uncache", "mutate", "lock_paths"}]
      /\ cur \in [Threads -> Paths \cup {NoPath}]
      /\ slot \in [Threads -> Handles \cup {NoHandle}]
      /\ want \in [Threads -> Names \cup {NoName}]
      /\ refcount \in [Paths -> Int]
  BY DEF SharedInv, TypeOK
<1>i. Freeing /\ EndInv /\ NamesInv
  BY DEF MoreInv
\* Steps that leave the paths alone, and neither start nor end a freeing call.
<1>q. ASSUME UNCHANGED pathVars,
             \A u \in Threads : pc[u] = "free" => pc'[u] = "free" /\ cur'[u] = cur[u]
      PROVE  Freeing' /\ (\A p \in Live' : name'[p] \in Names)
  BY <1>q, <1>i DEF Freeing, NamesInv, Live
<1>1. ASSUME NEW t \in Threads, NEW h \in Handles, NEW n \in Names,
             NewStart(t, h, n)
      PROVE  MoreInv'
  <2>1. Freeing' /\ (\A p \in Live' : name'[p] \in Names)
    BY <1>1, <1>q, <1>t DEF NewStart, Call, Idle
  <2>2. EndInv'
    BY <1>1, <1>t DEF NewStart, EndInv
  <2>3. /\ \A u \in Threads : pc'[u] \in Creating => want'[u] \in Names
        /\ NewFindsRequested'
    BY <1>1, <1>t, <1>i DEF NewStart, Call, Idle, NamesInv, NewFindsRequested
  <2>. QED
    BY <2>1, <2>2, <2>3 DEF MoreInv, NamesInv
<1>2. ASSUME NEW t \in Threads, Lookup(t) PROVE MoreInv'
  <2>0. Matches(want[t]) # {} =>
          /\ FirstMatch(want[t]) \in cached_path
          /\ name[FirstMatch(want[t])] = want[t]
    BY FirstMatchMatches DEF Matches, SharedInv, TypeOK
  <2>1. Freeing' /\ (\A p \in Live' : name'[p] \in Names)
    BY <1>2, <1>q, <1>t DEF Lookup, Goto
  <2>2. EndInv'
    BY <1>2 DEF Lookup, EndInv
  <2>3. \A u \in Threads : pc'[u] \in Creating => want'[u] \in Names
    BY <1>2, <1>t, <1>i DEF Lookup, Goto, NamesInv
  <2>4. NewFindsRequested'
    BY <1>2, <1>t, <1>i, <2>0 DEF Lookup, Goto, NamesInv, NewFindsRequested
  <2>. QED
    BY <2>1, <2>2, <2>3, <2>4 DEF MoreInv, NamesInv
\* Calls that return, or take locks only.
<1>3. ASSUME NEW t \in Threads, pc[t] # "free", Return(t), UNCHANGED <<pathVars, cacheVars>>
      PROVE  MoreInv'
  <2>1. Freeing' /\ (\A p \in Live' : name'[p] \in Names)
    BY <1>3, <1>q, <1>t DEF Return
  <2>2. EndInv'
    BY <1>3, <1>t, <1>i DEF Return, EndInv
  <2>3. /\ \A u \in Threads : pc'[u] \in Creating => want'[u] \in Names
        /\ NewFindsRequested'
    BY <1>3, <1>t, <1>i DEF Return, NamesInv, NewFindsRequested
  <2>. QED
    BY <2>1, <2>2, <2>3 DEF MoreInv, NamesInv
<1>4. ASSUME NEW t \in Threads, Publish(t) PROVE MoreInv'
  <2>. DEFINE new == allocated + 1
  <2>1. /\ new \in Paths /\ new \notin Live /\ Live' = Live \cup {new}
        /\ refcount'[new] = 1 /\ name'[new] = want[t]
        /\ \A p \in Live : refcount'[p] = refcount[p] /\ name'[p] = name[p]
    <3>1. want[t] \in Names
      BY <1>4, <1>i DEF Publish, NamesInv
    <3>. QED
      BY <1>4, <3>1, AllocateStep DEF Publish
  <2>2. /\ pc[t] = "miss" /\ want[t] \in Names
        /\ pc' = [pc EXCEPT ![t] = "take_ref"] /\ cur' = [cur EXCEPT ![t] = new]
        /\ want' = want /\ cache' = cache
    BY <1>4, <1>i DEF Publish, Goto, NamesInv
  <2>3. \A u \in Threads : pc[u] = "take_ref" => cur[u] \in Live
    BY <1>l DEF SharedInv, CallsInv
  <2>. HIDE DEF new
  <2>4. Freeing'
    BY <1>t, <1>i, <2>1, <2>2 DEF Freeing
  <2>5. EndInv'
    BY <1>t, <1>i, <2>2 DEF EndInv
  <2>6. NamesInv'
    BY <1>t, <1>i, <2>1, <2>2, <2>3 DEF NamesInv, NewFindsRequested
  <2>. QED
    BY <2>4, <2>5, <2>6 DEF MoreInv
<1>5. ASSUME NEW t \in Threads, TakeRef(t) PROVE MoreInv'
  <2>. DEFINE p == cur[t]
  <2>1. p \in Live /\ p \in Paths /\ refcount[p] \in Nat
    BY <1>5, <1>l DEF TakeRef, SharedInv, CallsInv
  <2>2. /\ refcount' = [refcount EXCEPT ![p] = @ + 1] /\ Live' = Live
        /\ pc[t] = "take_ref" /\ Return(t) /\ UNCHANGED <<name, cache, cached_path>>
    BY <1>5 DEF TakeRef, AddRef, Live
  <2>. HIDE DEF p
  <2>3. Freeing'
    BY <1>t, <1>i, <1>l, <2>1, <2>2 DEF Freeing, Return
  <2>4. EndInv'
    BY <1>t, <1>i, <2>2 DEF EndInv, Return
  <2>5. NamesInv'
    BY <1>t, <1>i, <2>2 DEF NamesInv, NewFindsRequested, Return
  <2>. QED
    BY <2>3, <2>4, <2>5 DEF MoreInv
<1>6. ASSUME NEW t \in Threads, NEW h \in Handles, NEW g \in Handles, Ref(t, h, g)
      PROVE  MoreInv'
  <2>. DEFINE p == handle[h]
  <2>1. p \in Live /\ p \in Paths /\ refcount[p] \in Nat
    BY <1>6, <1>l DEF Ref, Usable
  <2>2. /\ refcount' = [refcount EXCEPT ![p] = @ + 1] /\ Live' = Live
        /\ UNCHANGED <<name, cache, cached_path, callVars>>
    BY <1>6 DEF Ref, AddRef, Live
  <2>. HIDE DEF p
  <2>3. Freeing'
    BY <1>t, <1>i, <1>l, <2>1, <2>2 DEF Freeing
  <2>4. EndInv' /\ NamesInv'
    BY <1>i, <2>2 DEF EndInv, NamesInv, NewFindsRequested
  <2>. QED
    BY <2>3, <2>4 DEF MoreInv
<1>7. ASSUME NEW t \in Threads, NEW h \in Handles, NEW g \in Handles, Clone(t, h, g)
      PROVE  MoreInv'
  <2>. DEFINE new == allocated + 1
  <2>1. /\ new \in Paths /\ new \notin Live /\ Live' = Live \cup {new}
        /\ refcount'[new] = 1 /\ name'[new] = name[handle[h]]
        /\ \A p \in Live : refcount'[p] = refcount[p] /\ name'[p] = name[p]
        /\ name[handle[h]] \in Names
    <3>1. name[handle[h]] \in Names
      BY <1>7, <1>i DEF Clone, Usable, NamesInv
    <3>. QED
      BY <1>7, <3>1, AllocateStep DEF Clone
  <2>2. UNCHANGED <<cached_path, cache, callVars>>
    BY <1>7 DEF Clone
  <2>3. \A u \in Threads : pc[u] = "take_ref" => cur[u] \in Live
    BY <1>l DEF SharedInv, CallsInv
  <2>. HIDE DEF new
  <2>4. Freeing'
    BY <1>i, <2>1, <2>2 DEF Freeing
  <2>5. EndInv' /\ NamesInv'
    BY <1>i, <2>1, <2>2, <2>3 DEF EndInv, NamesInv, NewFindsRequested
  <2>. QED
    BY <2>4, <2>5 DEF MoreInv
<1>8. ASSUME NEW t \in Threads, NEW h \in Handles, Destroy(t, h) PROVE MoreInv'
  <2>. DEFINE p == handle[h]
  <2>1. p \in Live /\ p \in Paths /\ refcount[p] \in Nat
    BY <1>8, <1>l DEF Destroy, Usable
  <2>2. /\ refcount' = [refcount EXCEPT ![p] = @ - 1] /\ Live' = Live
        /\ UNCHANGED <<name, cache, cached_path>>
        /\ \/ refcount[p] = 1 /\ Call(t, "free", p, NoHandle, NoName)
           \/ refcount[p] # 1 /\ UNCHANGED callVars
    BY <1>8 DEF Destroy, DropRef, Live
  <2>3. refcount[p] # 0
    <3>1. p # NoPath
      BY <2>1 DEF NoPath, Paths
    <3>. QED
      BY <3>1, <1>l DEF Holds
  <2>. HIDE DEF p
  <2>4. Freeing'
    <3>1. ASSUME NEW q \in Live, refcount'[q] = 0
          PROVE  \E u \in Threads : pc'[u] = "free" /\ cur'[u] = q
      <4>1. CASE q = p
        <5>1. refcount[p] = 1
          BY <1>t, <2>1, <2>2, <3>1, <4>1
        <5>. QED
          BY <1>t, <2>2, <4>1, <5>1 DEF Call
      <4>2. CASE q # p
        <5>1. PICK u \in Threads : pc[u] = "free" /\ cur[u] = q
          BY <1>t, <1>i, <1>l, <2>1, <2>2, <3>1, <4>2 DEF Freeing
        <5>. QED
          BY <1>t, <2>2, <5>1 DEF Call, Idle
      <4>. QED
        BY <4>1, <4>2
    <3>. QED
      BY <2>2, <3>1 DEF Freeing
  <2>5. EndInv' /\ NamesInv'
    BY <1>t, <1>i, <2>2 DEF EndInv, NamesInv, NewFindsRequested, Call, Idle
  <2>. QED
    BY <2>4, <2>5 DEF MoreInv
<1>9. ASSUME NEW t \in Threads, Free(t) PROVE MoreInv'
  <2>1. /\ Live' = Live \ {cur[t]} /\ Return(t) /\ pc[t] = "free"
        /\ UNCHANGED <<refcount, name, cache, cached_path>>
    BY <1>9 DEF Free, Live
  <2>2. Freeing'
    <3>1. ASSUME NEW q \in Live', refcount[q] = 0
          PROVE  \E u \in Threads : pc'[u] = "free" /\ cur'[u] = q
      <4>1. q \in Live /\ q # cur[t]
        BY <2>1
      <4>2. PICK u \in Threads : pc[u] = "free" /\ cur[u] = q
        BY <1>i, <3>1, <4>1 DEF Freeing
      <4>3. u # t
        BY <4>1, <4>2
      <4>. QED
        BY <1>t, <2>1, <4>2, <4>3 DEF Return
    <3>. QED
      BY <2>1, <3>1 DEF Freeing
  <2>3. EndInv' /\ NamesInv'
    BY <1>t, <1>i, <2>1 DEF EndInv, NamesInv, NewFindsRequested, Return
  <2>. QED
    BY <2>2, <2>3 DEF MoreInv
<1>10. ASSUME NEW t \in Threads, CacheLock(t) PROVE MoreInv'
  <2>1. Freeing' /\ (\A p \in Live' : name'[p] \in Names)
    BY <1>10, <1>q, <1>t DEF CacheLock, Call, Idle
  <2>2. EndInv'
    BY <1>10, <1>t, <1>i DEF CacheLock, Call, EndInv
  <2>3. /\ \A u \in Threads : pc'[u] \in Creating => want'[u] \in Names
        /\ NewFindsRequested'
    BY <1>10, <1>t, <1>i DEF CacheLock, Call, NamesInv, NewFindsRequested
  <2>. QED
    BY <2>1, <2>2, <2>3 DEF MoreInv, NamesInv
<1>11. ASSUME UNCHANGED <<pathVars, cacheVars, callVars>> PROVE MoreInv'
  BY <1>11, <1>i DEF MoreInv, Freeing, EndInv, NamesInv, NewFindsRequested, Live
<1>12. ASSUME CacheDestroy PROVE MoreInv'
  <2>. DEFINE last == {p \in cached_path : refcount[p] = 1}
  <2>1. /\ refcount' = [p \in Paths |->
                IF p \in cached_path THEN refcount[p] - 1 ELSE refcount[p]]
        /\ Live' = Live \ last /\ cached_path' = {}
        /\ UNCHANGED <<name, callVars>> /\ \A t \in Threads : pc[t] = "idle"
    BY <1>12 DEF CacheDestroy, Idle, Live
  <2>2. \A p \in Live' : refcount'[p] # 0
    BY <1>t, <1>i, <1>l, <2>1 DEF Freeing
  <2>3. Freeing' /\ EndInv' /\ NamesInv'
    BY <1>i, <2>1, <2>2 DEF Freeing, EndInv, NamesInv, NewFindsRequested
  <2>. QED
    BY <2>3 DEF MoreInv
<1>. QED
  <2>1. ~ \E t \in Threads, h \in Handles, n \in Names : Invalidate(t, h, n)
    BY DEF Invalidate, ReadOnly
  <2>2. ~ \E t \in Threads : PublishFails(t) \/ Uncache(t) \/ Mutate(t)
    BY DEF PublishFails, Uncache, Mutate, CallsInv, ReadOnly, SharedInv
  <2>3. ASSUME NEW t \in Threads, NewFails(t) \/ CacheUnlock(t) PROVE MoreInv'
    BY <1>3, <2>3 DEF NewFails, CacheUnlock
  <2>4. ASSUME NEW t \in Threads, NEW p \in Paths, LockPath(t, p) PROVE MoreInv'
    BY <1>11, <2>4 DEF LockPath
  <2>5. ASSUME UNCHANGED vars PROVE MoreInv'
    BY <1>11, <2>5
  <2>. QED
    BY ONLY <2>1, <2>2, <2>3, <2>4, <2>5, <1>1, <1>2, <1>4, <1>5, <1>6, <1>7, <1>8,
       <1>9, <1>10, <1>12, [Next]_vars
       DEF Next, Request, Step, Finished

LEMMA MoreInvariant == ASSUME ReadOnly PROVE Spec => []MoreInv
<1>1. Init => MoreInv
  BY DEF Init, MoreInv, Freeing, EndInv, NamesInv, NewFindsRequested, Live, Creating
<1>2. SharedInv /\ MoreInv /\ [Next]_vars => MoreInv'
  BY MoreStep
<1>. QED
  BY <1>1, <1>2, SharedInvariant, PTL DEF Spec

-----------------------------------------------------------------------------
\* When the table has been destroyed and no call is in progress, the paths that
\* are left are those the program still holds: no interleaving of lookups,
\* references and releases leaves one behind.
THEOREM SharedNothingLeaked == ASSUME ReadOnly PROVE Spec => []NothingLeaked
<1>1. SharedInv /\ MoreInv => NothingLeaked
  <2>. SUFFICES ASSUME SharedInv, MoreInv, cache = "destroyed",
                       \A t \in Threads : Idle(t), NEW p \in Live
                PROVE  Holders(p) # {}
    BY DEF NothingLeaked
  <2>1. refcount[p] # 0 /\ cached_path = {}
    BY DEF MoreInv, Freeing, EndInv, Idle
  <2>2. refcount[p] = Count(handle, p)
    BY <2>1, CountNat DEF SharedInv, RefsInv
  <2>. QED
    BY <2>1, <2>2, FS_EmptySet DEF Count, Holders
<1>. QED
  BY <1>1, SharedInvariant, MoreInvariant, PTL

\* In such a program new() returns a path of the name it was asked for, although
\* the lock of the table has been released in between.
THEOREM SharedNewFindsRequested == ASSUME ReadOnly PROVE Spec => []NewFindsRequested
<1>1. MoreInv => NewFindsRequested
  BY DEF MoreInv, NamesInv
<1>. QED
  BY <1>1, MoreInvariant, PTL

-----------------------------------------------------------------------------
(***************************************************************************)
(* The cache implements PathValues. A step of the program's is a step      *)
(* there; the lookup, the parse, the freeing and the locks are stutters.   *)
(***************************************************************************)

\* What new() works for at a handle: there is one call at most.
AskedShape == \A h \in Handles :
  /\ \A t \in Threads : CreatesFor(t, h) => askedOf[h] = want[t]
  /\ (\A t \in Threads : ~CreatesFor(t, h)) => askedOf[h] = NoName

LEMMA AskedIsWanted == CallsApart => AskedShape
<1>. SUFFICES ASSUME CallsApart, NEW h \in Handles
              PROVE  /\ \A t \in Threads : CreatesFor(t, h) => askedOf[h] = want[t]
                     /\ (\A t \in Threads : ~CreatesFor(t, h)) => askedOf[h] = NoName
  BY DEF AskedShape
<1>1. \A t, u \in Threads : CreatesFor(t, h) /\ CreatesFor(u, h) => t = u
  BY ConstantsAssumption DEF ConstantsAssumption, CallsApart, CreatesFor
<1>2. ASSUME NEW t \in Threads, CreatesFor(t, h) PROVE askedOf[h] = want[t]
  <2>1. (CHOOSE u \in Threads : CreatesFor(u, h)) = t
    BY <1>1, <1>2
  <2>. QED
    BY <1>2, <2>1 DEF askedOf
<1>3. ASSUME \A t \in Threads : ~CreatesFor(t, h) PROVE askedOf[h] = NoName
  BY <1>3 DEF askedOf
<1>. QED
  BY <1>2, <1>3

\* Calls that go on leave what is asked for.
LEMMA AskedSame ==
  ASSUME AskedShape, AskedShape',
         \A t \in Threads, h \in Handles :
           /\ CreatesFor(t, h)' <=> CreatesFor(t, h)
           /\ CreatesFor(t, h) => want'[t] = want[t]
  PROVE  askedOf' = askedOf
<1>1. \A h \in Handles : askedOf'[h] = askedOf[h]
  BY DEF AskedShape
<1>2. askedOf = [h \in Handles |-> askedOf[h]] /\ askedOf' = [h \in Handles |-> askedOf'[h]]
  BY DEF askedOf
<1>. QED
  BY <1>1, <1>2

\* One call begins or ends, and with it what its handle asks for.
LEMMA AskedChanges ==
  ASSUME AskedShape, AskedShape', NEW h \in Handles, NEW n,
         \A t \in Threads, g \in Handles \ {h} :
           /\ CreatesFor(t, g)' <=> CreatesFor(t, g)
           /\ CreatesFor(t, g) => want'[t] = want[t],
         askedOf'[h] = n
  PROVE  askedOf' = [askedOf EXCEPT ![h] = n]
<1>1. \A g \in Handles \ {h} : askedOf'[g] = askedOf[g]
  BY DEF AskedShape
<1>2. askedOf = [g \in Handles |-> askedOf[g]] /\ askedOf' = [g \in Handles |-> askedOf'[g]]
  BY DEF askedOf
<1>. QED
  BY <1>1, <1>2

\* The values of the handles, when live paths keep their names.
KeepNames == \A p \in Live : name'[p] = name[p]

LEMMA ValueSame ==
  ASSUME RefsInv, KeepNames, handle' = handle
  PROVE  valueOf' = valueOf
<1>1. \A h \in Handles : Holds(h) => name'[handle[h]] = name[handle[h]]
  BY DEF RefsInv, KeepNames
<1>. QED
  BY <1>1 DEF valueOf, Holds

LEMMA ValueChanges ==
  ASSUME TypeOK, RefsInv, KeepNames, NEW h \in Handles, NEW p, handle' = [handle EXCEPT ![h] = p]
  PROVE  /\ p # NoPath => valueOf' = [valueOf EXCEPT ![h] = name'[p]]
         /\ p = NoPath => valueOf' = [valueOf EXCEPT ![h] = NoName]
<1>1. \A g \in Handles : Holds(g) => name'[handle[g]] = name[handle[g]]
  BY DEF RefsInv, KeepNames
<1>2. /\ handle'[h] = p
      /\ \A g \in Handles \ {h} : handle'[g] = handle[g]
  BY DEF TypeOK
<1>3. valueOf'[h] = IF p # NoPath THEN name'[p] ELSE NoName
  BY <1>2 DEF valueOf, Holds
<1>4. \A g \in Handles \ {h} : valueOf'[g] = valueOf[g]
  BY <1>1, <1>2 DEF valueOf, Holds
<1>5. valueOf = [g \in Handles |-> valueOf[g]] /\ valueOf' = [g \in Handles |-> valueOf'[g]]
  BY DEF valueOf
<1>. QED
  BY <1>3, <1>4, <1>5

\* A handle holds a value when it holds a path.
LEMMA ValueOfPath ==
  ASSUME RefsInv, NamesInv, NEW h \in Handles
  PROVE  /\ Holds(h) => valueOf[h] = name[handle[h]] /\ valueOf[h] # NoName
         /\ ~Holds(h) => valueOf[h] = NoName
<1>1. Holds(h) => name[handle[h]] \in Names
  BY DEF RefsInv, NamesInv
<1>. QED
  BY <1>1, ConstantsAssumption DEF valueOf

LEMMA StepRefines ==
  ASSUME ReadOnly, SharedInv, MoreInv, AskedShape, AskedShape', [Next]_vars
  PROVE  [Store!Next]_(Store!vars)
<1>. TypeOK /\ RefsInv /\ NamesInv
  BY DEF SharedInv, MoreInv
<1>. DEFINE Refined == [Store!Next]_(Store!vars)
<1>. USE DEF pathVars, cacheVars, lockVars, callVars, vars
<1>t. /\ pc \in [Threads -> {"idle", "lookup", "miss", "take_ref", "free",
                             "uncache", "mutate", "lock_paths"}]
      /\ cur \in [Threads -> Paths \cup {NoPath}]
      /\ slot \in [Threads -> Handles \cup {NoHandle}]
      /\ want \in [Threads -> Names \cup {NoName}]
  BY DEF SharedInv, TypeOK
<1>h. NoHandle \notin Handles /\ NoName \notin Names
  BY ConstantsAssumption
<1>s. \A t \in Threads, h \in Handles :
        CreatesFor(t, h) <=> slot[t] = h /\ slot[t] # NoHandle
  BY <1>h DEF CreatesFor, SharedInv, CallsInv
<1>u. \A t, u \in Threads : t # u /\ slot[t] = slot[u] => slot[t] = NoHandle
  BY DEF SharedInv, CallsApart
<1>p. NoPath \notin Paths
  BY DEF NoPath, Paths
<1>v. \A h \in Handles : handle[h] \in Live => Holds(h)
  BY <1>p, CountsOfLive DEF Holds
\* Steps that change neither a handle nor what is asked for.
<1>q. ASSUME handle' = handle, KeepNames,
             \A t \in Threads, h \in Handles :
               /\ CreatesFor(t, h)' <=> CreatesFor(t, h)
               /\ CreatesFor(t, h) => want'[t] = want[t]
      PROVE  Refined
  BY <1>q, AskedSame, ValueSame DEF Store!vars
<1>1. ASSUME NEW t \in Threads, NEW h \in Handles, NEW n \in Names,
             NewStart(t, h, n)
      PROVE  Refined
  <2>1. valueOf' = valueOf
    BY <1>1, ValueSame DEF NewStart, KeepNames
  <2>2. valueOf[h] = NoName
    BY <1>1, ValueOfPath DEF NewStart, Vacant
  <2>3. askedOf[h] = NoName
    BY <1>1, <1>s DEF NewStart, Vacant, Busy, AskedShape
  <2>4. CreatesFor(t, h)' /\ want'[t] = n
    BY <1>1, <1>t DEF NewStart, Call, CreatesFor
  <2>5. askedOf'[h] = n
    BY <2>4 DEF AskedShape
  <2>6. \A u \in Threads, g \in Handles \ {h} :
           /\ CreatesFor(u, g)' <=> CreatesFor(u, g)
           /\ CreatesFor(u, g) => want'[u] = want[u]
    BY <1>1, <1>t DEF NewStart, Call, Idle, CreatesFor
  <2>7. askedOf' = [askedOf EXCEPT ![h] = n]
    BY <2>5, <2>6, AskedChanges
  <2>. QED
    BY <2>1, <2>2, <2>3, <2>7 DEF Store!Next, Store!Ask
<1>2. ASSUME NEW t \in Threads, Lookup(t) PROVE Refined
  <2>1. handle' = handle /\ KeepNames /\ want' = want
    BY <1>2 DEF Lookup, Goto, KeepNames
  <2>2. \A u \in Threads, h \in Handles : CreatesFor(u, h)' <=> CreatesFor(u, h)
    BY <1>2, <1>t DEF Lookup, Goto, CreatesFor
  <2>. QED
    BY <1>q, <2>1, <2>2
\* A call of new() that ends: its handle has been asked for, and no longer is.
<1>e. ASSUME NEW t \in Threads, pc[t] \in Creating, Return(t)
      PROVE  \E h \in Handles :
               /\ slot[t] = h /\ askedOf[h] = want[t] /\ want[t] \in Names
               /\ askedOf' = [askedOf EXCEPT ![h] = NoName]
  <2>1. PICK h \in Handles : slot[t] = h /\ CreatesFor(t, h)
    BY <1>e, <1>t DEF SharedInv, CallsInv, CreatesFor, Creating
  <2>2. askedOf[h] = want[t] /\ want[t] \in Names
    BY <1>e, <2>1 DEF AskedShape, MoreInv, NamesInv
  <2>3. \A u \in Threads : ~CreatesFor(u, h)'
    BY <1>e, <1>t, <1>u, <1>h, <2>1 DEF Return, CreatesFor
  <2>4. askedOf'[h] = NoName
    BY <2>3 DEF AskedShape
  <2>5. \A u \in Threads, g \in Handles \ {h} :
           /\ CreatesFor(u, g)' <=> CreatesFor(u, g)
           /\ CreatesFor(u, g) => want'[u] = want[u]
    BY <1>e, <1>t, <2>1 DEF Return, CreatesFor
  <2>. QED
    BY <2>1, <2>2, <2>4, <2>5, AskedChanges
<1>3. ASSUME NEW t \in Threads, NewFails(t) PROVE Refined
  <2>1. valueOf' = valueOf
    BY <1>3, ValueSame DEF NewFails, KeepNames
  <2>2. PICK h \in Handles : askedOf[h] # NoName /\ askedOf' = [askedOf EXCEPT ![h] = NoName]
    BY <1>3, <1>e, <1>h DEF NewFails, Creating
  <2>. QED
    BY <2>1, <2>2 DEF Store!Next, Store!Refuse
<1>4. ASSUME NEW t \in Threads, Publish(t) PROVE Refined
  <2>1. handle' = handle /\ want' = want
    BY <1>4 DEF Publish, Goto
  <2>2. KeepNames
    <3>1. want[t] \in Names
      BY <1>4 DEF Publish, MoreInv, NamesInv, Creating
    <3>. QED
      BY <1>4, <3>1, AllocateStep DEF Publish, KeepNames
  <2>3. \A u \in Threads, h \in Handles : CreatesFor(u, h)' <=> CreatesFor(u, h)
    BY <1>4, <1>t DEF Publish, Goto, CreatesFor
  <2>. QED
    BY <1>q, <2>1, <2>2, <2>3
<1>5. ASSUME NEW t \in Threads, TakeRef(t) PROVE Refined
  <2>1. PICK h \in Handles :
          /\ slot[t] = h /\ askedOf[h] = want[t] /\ want[t] \in Names
          /\ askedOf' = [askedOf EXCEPT ![h] = NoName]
    BY <1>5, <1>e DEF TakeRef, Creating
  <2>2. PICK p \in Live : cur[t] = p
    BY <1>5, CountsOfLive DEF TakeRef, SharedInv, CallsInv
  <2>3. handle' = [handle EXCEPT ![h] = p] /\ KeepNames /\ name' = name
    BY <1>5, <2>1, <2>2 DEF TakeRef, KeepNames
  <2>4. p # NoPath /\ name[p] = want[t]
    BY <1>5, <1>p, <2>2, CountsOfLive DEF TakeRef, MoreInv, NamesInv, NewFindsRequested
  <2>5. valueOf' = [valueOf EXCEPT ![h] = name'[p]]
    BY <2>3, <2>4, ValueChanges
  <2>. QED
    BY <1>h, <2>1, <2>3, <2>4, <2>5 DEF Store!Next, Store!Answer
\* A reference or a copy in a vacant handle.
<1>c. ASSUME NEW h \in Handles, NEW g \in Handles, NEW p,
             Usable(h), Vacant(g), KeepNames, UNCHANGED callVars,
             handle' = [handle EXCEPT ![g] = p], p # NoPath, name'[p] = name[handle[h]]
      PROVE  Refined
  <2>1. valueOf[h] = name[handle[h]] /\ valueOf[h] # NoName
    BY <1>c, <1>v, ValueOfPath DEF Usable
  <2>2. valueOf[g] = NoName
    BY <1>c, ValueOfPath DEF Vacant
  <2>3. askedOf[g] = NoName
    BY <1>c, <1>s DEF Vacant, Busy, AskedShape
  <2>4. valueOf' = [valueOf EXCEPT ![g] = valueOf[h]]
    <3>1. valueOf' = [valueOf EXCEPT ![g] = name'[p]]
      BY <1>c, ValueChanges
    <3>. QED
      BY <1>c, <2>1, <3>1
  <2>5. askedOf' = askedOf
    BY <1>c, AskedSame DEF CreatesFor
  <2>. QED
    BY <2>1, <2>2, <2>3, <2>4, <2>5 DEF Store!Next, Store!Copy
<1>6. ASSUME NEW t \in Threads, NEW h \in Handles, NEW g \in Handles, Ref(t, h, g)
      PROVE  Refined
  <2>1. handle[h] # NoPath
    BY <1>6, <1>v DEF Ref, Usable, Holds
  <2>2. KeepNames /\ name' = name
    BY <1>6 DEF Ref, KeepNames
  <2>. QED
    BY <1>6, <1>c, <2>1, <2>2 DEF Ref
<1>7. ASSUME NEW t \in Threads, NEW h \in Handles, NEW g \in Handles, Clone(t, h, g)
      PROVE  Refined
  <2>1. name[handle[h]] \in Names
    BY <1>7 DEF Clone, Usable, MoreInv, NamesInv
  <2>2. /\ KeepNames /\ name'[allocated + 1] = name[handle[h]]
        /\ allocated + 1 \in Paths
    BY <1>7, <2>1, AllocateStep DEF Clone, KeepNames
  <2>3. allocated + 1 # NoPath
    BY <1>p, <2>2
  <2>. QED
    BY <1>7, <1>c, <2>2, <2>3 DEF Clone
<1>8. ASSUME NEW t \in Threads, NEW h \in Handles, Destroy(t, h) PROVE Refined
  <2>1. valueOf[h] # NoName
    BY <1>8, <1>v, ValueOfPath DEF Destroy, Usable
  <2>2. KeepNames /\ handle' = [handle EXCEPT ![h] = NoPath]
    BY <1>8 DEF Destroy, KeepNames
  <2>3. valueOf' = [valueOf EXCEPT ![h] = NoName]
    BY <2>2, ValueChanges
  <2>4. \A u \in Threads, g \in Handles :
          /\ CreatesFor(u, g)' <=> CreatesFor(u, g)
          /\ CreatesFor(u, g) => want'[u] = want[u]
    BY <1>8, <1>t, <1>h DEF Destroy, Call, Idle, CreatesFor
  <2>5. askedOf' = askedOf
    BY <2>4, AskedSame
  <2>. QED
    BY <2>1, <2>3, <2>5 DEF Store!Next, Store!Drop
\* Calls that free a path or take locks.
<1>9. ASSUME NEW t \in Threads, pc[t] \notin Creating,
             handle' = handle, name' = name,
             \/ Return(t)
             \/ Call(t, "lock_paths", NoPath, NoHandle, NoName)
      PROVE  Refined
  <2>1. \A u \in Threads, g \in Handles :
          /\ CreatesFor(u, g)' <=> CreatesFor(u, g)
          /\ CreatesFor(u, g) => want'[u] = want[u]
    BY <1>9, <1>t, <1>h DEF Return, Call, CreatesFor, Creating
  <2>. QED
    BY <1>9, <1>q, <2>1 DEF KeepNames
<1>10. ASSUME UNCHANGED <<handle, name, callVars>> PROVE Refined
  BY <1>10, <1>q DEF KeepNames, CreatesFor
<1>. QED
  <2>1. ~ \E t \in Threads, h \in Handles, n \in Names : Invalidate(t, h, n)
    BY DEF Invalidate, ReadOnly
  <2>2. ~ \E t \in Threads : PublishFails(t) \/ Uncache(t) \/ Mutate(t)
    BY DEF PublishFails, Uncache, Mutate, CallsInv, ReadOnly, SharedInv
  <2>3. ASSUME NEW t \in Threads, Free(t) \/ CacheUnlock(t) \/ CacheLock(t) PROVE Refined
    BY <1>9, <2>3 DEF Free, CacheUnlock, CacheLock, Call, Idle, Creating
  <2>4. ASSUME NEW t \in Threads, NEW p \in Paths, LockPath(t, p) PROVE Refined
    BY <1>10, <2>4 DEF LockPath
  <2>5. ASSUME CacheDestroy \/ UNCHANGED vars PROVE Refined
    BY <1>10, <2>5 DEF CacheDestroy
  <2>. QED
    BY ONLY <2>1, <2>2, <2>3, <2>4, <2>5, <1>1, <1>2, <1>3, <1>4, <1>5, <1>6, <1>7, <1>8,
       [Next]_vars
       DEF Next, Request, Step, Finished

\* A program that only shares paths cannot tell the cache, its counts and its
\* locks from handles that have values of their own.
THEOREM SharedImplementsValues == ASSUME ReadOnly PROVE Spec => ValueSemantics
<1>1. Init => Store!Init
  BY DEF Init, Store!Init, valueOf, askedOf, Holds, CreatesFor
<1>2. SharedInv /\ MoreInv /\ AskedShape /\ AskedShape' /\ [Next]_vars
        => [Store!Next]_(Store!vars)
  BY StepRefines
<1>3. SharedInv => AskedShape
  BY AskedIsWanted DEF SharedInv
<1>. QED
  BY <1>1, <1>2, <1>3, SharedInvariant, MoreInvariant, PTL
     DEF Spec, ValueSemantics, Store!Spec

-----------------------------------------------------------------------------
(***************************************************************************)
(* Programs of one thread that change paths: whatever is created, cloned,  *)
(* changed and released, and in which order, the table keeps one entry of  *)
(* every name under the right key, the counts are exact, and a change is   *)
(* seen through one handle only.  Two names may share a chain of the       *)
(* table, and calls may fail.                                              *)
(***************************************************************************)
\* A program of one thread whose handles never share a path by iodefv2_path_ref(), in
\* memory that holds out for the table: it may copy, change and release its paths.
OwnsAlone ==
  /\ \A t, u \in Threads : t = u
  /\ Ops \cap {"ref", "hash_add_fails"} = {}

Working == Creating \cup {"uncache", "mutate"}

\* What the call in progress has in hand.
OwnerCalls ==
  \A t \in Threads :
    /\ cur[t] # NoPath => pc[t] \in {"take_ref", "free", "uncache", "mutate"}
    /\ pc[t] = "miss" => \A p \in cached_path : name[p] # want[t]
    /\ pc[t] = "take_ref" => cur[t] \in cached_path
    /\ pc[t] = "free" => cur[t] \in Live /\ refcount[cur[t]] = 0
    /\ pc[t] = "uncache" => cur[t] \in Live /\ refcount[cur[t]] = 2
    /\ pc[t] = "mutate" => cur[t] \in Live \ cached_path /\ refcount[cur[t]] = 1
    /\ pc[t] \in {"uncache", "mutate"} => handle[slot[t]] = cur[t]
    /\ pc[t] \in Creating => handle[slot[t]] = NoPath
    /\ pc[t] \in Working => want[t] \in Names /\ cache # "destroyed"
    /\ slot[t] # NoHandle <=> pc[t] \in Working

\* A thread that looks a name up before it adds a path of that name never files it
\* twice; two threads may.
OneEntryPerName ==
  \A p, q \in cached_path : name[p] = name[q] => p = q

\* The table: its keys, and who else holds a path that it does not know.
TableInv ==
  /\ chain = [p \in Paths |-> chain[p]]
  /\ CacheKeyStable /\ OneEntryPerName
  /\ cache # "destroyed" => \A p \in Live \ cached_path : refcount[p] <= 1
  /\ cache = "destroyed" => cached_path = {}

OwnerInv ==
  TypeOK /\ PathInHand /\ RefsInv /\ OwnerCalls /\ TableInv /\ NamesInv /\ Freeing

-----------------------------------------------------------------------------
\* Redirecting one handle moves one reference.
LEMMA CountMoves ==
  ASSUME TypeOK, NEW h \in Handles, NEW p, handle' = [handle EXCEPT ![h] = p], NEW q
  PROVE  Count(handle', q) = Count(handle, q) + (IF p = q THEN 1 ELSE 0)
                                              - (IF handle[h] = q THEN 1 ELSE 0)
<1>1. handle'[h] = p /\ \A x \in Handles : x # h => handle'[x] = handle[x]
  BY DEF TypeOK
<1>2. Count(handle, q) \in Nat /\ Count(handle', q) \in Nat
  BY CountNat
<1>3. CASE p = q /\ handle[h] # q
  <2>1. Count(handle', q) = Count(handle, q) + 1
    BY <1>1, <1>3, CountGained
  <2>. QED
    BY <1>2, <1>3, <2>1
<1>4. CASE p # q /\ handle[h] = q
  <2>1. Count(handle', q) = Count(handle, q) - 1
    BY <1>1, <1>4, CountLost
  <2>. QED
    BY <1>2, <1>4, <2>1
<1>5. CASE p # q /\ handle[h] # q
  <2>1. Count(handle', q) = Count(handle, q)
    BY <1>1, <1>5, CountSame
  <2>. QED
    BY <1>2, <1>5, <2>1
<1>6. CASE p = q /\ handle[h] = q
  <2>1. Counted(handle', q) = Counted(handle, q)
    BY <1>1, <1>6 DEF Counted
  <2>. QED
    BY <1>2, <1>6, <2>1 DEF Count, Counted
<1>. QED
  BY <1>3, <1>4, <1>5, <1>6

\* The parts of the state.
LEMMA OwnerFacts ==
  ASSUME OwnerInv
  PROVE  /\ pc \in [Threads -> {"idle", "lookup", "miss", "take_ref", "free",
                                "uncache", "mutate", "lock_paths"}]
         /\ cur \in [Threads -> Paths \cup {NoPath}]
         /\ slot \in [Threads -> Handles \cup {NoHandle}]
         /\ want \in [Threads -> Names \cup {NoName}]
         /\ handle \in [Handles -> Paths \cup {NoPath}]
         /\ refcount \in [Paths -> Int] /\ name \in [Paths -> Names \cup {NoName}]
         /\ Live \subseteq Paths /\ NoPath \notin Paths /\ NoHandle \notin Handles
         /\ \A p \in Live : refcount[p] \in Nat
         /\ \A p \in cached_path : p \in Live /\ refcount[p] # 0
         /\ \A h \in Handles : Holds(h) => handle[h] \in Live /\ refcount[handle[h]] # 0
         /\ allocated \in Nat
BY CountsOfLive, ConstantsAssumption
   DEF ConstantsAssumption, OwnerInv, TypeOK, NoPath, Paths

\* The call in progress is the only one.
LEMMA OneCall ==
  ASSUME OwnsAlone, NEW t \in Threads
  PROVE  \A u \in Threads : u = t
BY DEF OwnsAlone

\* Steps that leave the paths, the entries of the table and the handles alone.
LEMMA QuietStep ==
  ASSUME OwnsAlone, OwnerInv, UNCHANGED <<pathVars, cached_path, chain, handle>>,
         cache' = "destroyed" <=> cache = "destroyed",
         NEW t \in Threads, pc[t] # "free"
  PROVE  /\ RefsInv' /\ TableInv' /\ Freeing'
         /\ \A p \in Live' : name'[p] \in Names
         /\ Live' = Live
<1>1. RefsInv' /\ Live' = Live
  BY DEF OwnerInv, RefsInv, Live, Holds, pathVars
<1>2. TableInv'
  BY <1>1 DEF OwnerInv, TableInv, CacheKeyStable, OneEntryPerName, pathVars
<1>3. Freeing'
  BY <1>1, OneCall DEF OwnerInv, Freeing, pathVars
<1>4. \A p \in Live' : name'[p] \in Names
  BY <1>1 DEF OwnerInv, NamesInv, pathVars
<1>. QED
  BY <1>1, <1>2, <1>3, <1>4

\* What has to be shown of a step.
LEMMA KeepsInv ==
  ASSUME OwnerInv, [Next]_vars, RefsInv', OwnerCalls', TableInv', NamesInv', Freeing'
  PROVE  OwnerInv'
BY TypeStep DEF OwnerInv

\* A call of new() begins.
LEMMA OwnerNewStart ==
  ASSUME OwnsAlone, OwnerInv, NEW t \in Threads, NEW h \in Handles, NEW n \in Names,
         NewStart(t, h, n)
  PROVE  RefsInv' /\ OwnerCalls' /\ TableInv' /\ NamesInv' /\ Freeing'
<1>1. /\ Vacant(h) /\ cache # "destroyed" /\ Call(t, "lookup", NoPath, h, n)
      /\ UNCHANGED <<pathVars, cacheVars, handle>> /\ pc[t] = "idle"
  BY DEF NewStart, Call, Idle
<1>2. /\ RefsInv' /\ TableInv' /\ Freeing' /\ (\A p \in Live' : name'[p] \in Names)
  BY <1>1, QuietStep DEF cacheVars
<1>3. pc'[t] = "lookup" /\ cur'[t] = NoPath /\ slot'[t] = h /\ want'[t] = n
  BY <1>1, OwnerFacts DEF Call
<1>4. h # NoHandle /\ handle[h] = NoPath /\ cache # "destroyed"
  BY <1>1, OwnerFacts DEF Vacant, Holds
<1>5. OwnerCalls'
  BY <1>1, <1>3, <1>4, OneCall DEF OwnerCalls, Working, Creating, cacheVars
<1>6. NamesInv'
  BY <1>2, <1>3, OneCall DEF NamesInv, NewFindsRequested
<1>. QED
  BY <1>2, <1>5, <1>6

\* A lookup finds a path of the name, or there is none.
LEMMA OwnerLookup ==
  ASSUME OwnsAlone, OwnerInv, NEW t \in Threads, Lookup(t)
  PROVE  RefsInv' /\ OwnerCalls' /\ TableInv' /\ NamesInv' /\ Freeing'
<1>1. /\ cache' = "ready" /\ UNCHANGED <<pathVars, cached_path, chain, handle>>
      /\ pc[t] = "lookup"
  BY DEF Lookup
<1>2. /\ cache # "destroyed" /\ want[t] \in Names /\ handle[slot[t]] = NoPath
      /\ slot[t] # NoHandle
  BY <1>1 DEF OwnerInv, OwnerCalls, Working, Creating
<1>3. RefsInv' /\ TableInv' /\ Freeing' /\ (\A p \in Live' : name'[p] \in Names)
  BY <1>1, <1>2, QuietStep
<1>4. ASSUME Matches(want[t]) # {}, Goto(t, "take_ref", FirstMatch(want[t]))
      PROVE  OwnerCalls' /\ NamesInv'
  <2>1. /\ FirstMatch(want[t]) \in cached_path /\ name[FirstMatch(want[t])] = want[t]
    BY <1>4, FirstMatchMatches DEF Matches, OwnerInv, TypeOK
  <2>2. /\ pc'[t] = "take_ref" /\ cur'[t] = FirstMatch(want[t])
        /\ slot' = slot /\ want' = want
    BY <1>4, OwnerFacts DEF Goto
  <2>3. OwnerCalls'
    BY <1>1, <1>2, <2>1, <2>2, OneCall DEF OwnerCalls, Working, Creating
  <2>4. NamesInv'
    BY <1>1, <1>2, <1>3, <2>1, <2>2, OneCall DEF NamesInv, NewFindsRequested, pathVars
  <2>. QED
    BY <2>3, <2>4
<1>5. ASSUME Matches(want[t]) = {}, Goto(t, "miss", NoPath)
      PROVE  OwnerCalls' /\ NamesInv'
  <2>1. \A p \in cached_path : name[p] # want[t]
    BY <1>5 DEF Matches, OwnerInv, TableInv, CacheKeyStable
  <2>2. /\ pc'[t] = "miss" /\ cur'[t] = NoPath /\ slot' = slot /\ want' = want
    BY <1>5, OwnerFacts DEF Goto
  <2>3. OwnerCalls'
    BY <1>1, <1>2, <2>1, <2>2, OneCall DEF OwnerCalls, Working, Creating, pathVars
  <2>4. NamesInv'
    BY <1>1, <1>2, <1>3, <2>1, <2>2, OneCall DEF NamesInv, NewFindsRequested
  <2>. QED
    BY <2>3, <2>4
<1>. QED
  BY <1>3, <1>4, <1>5 DEF Lookup

\* Calls that return, or take the table's lock and have no path in hand.
LEMMA OwnerReturn ==
  ASSUME OwnsAlone, OwnerInv, NEW t \in Threads, pc[t] # "free",
         \/ Return(t)
         \/ Call(t, "lock_paths", NoPath, NoHandle, NoName)
         \/ UNCHANGED callVars,
         UNCHANGED <<pathVars, cacheVars, handle>>
  PROVE  RefsInv' /\ OwnerCalls' /\ TableInv' /\ NamesInv' /\ Freeing'
<1>1. RefsInv' /\ TableInv' /\ Freeing' /\ (\A p \in Live' : name'[p] \in Names) /\ Live' = Live
  BY QuietStep DEF cacheVars
<1>2. CASE UNCHANGED callVars
  <2>1. OwnerCalls'
    BY <1>1, <1>2 DEF OwnerInv, OwnerCalls, callVars, pathVars, cacheVars
  <2>2. NamesInv'
    BY <1>1, <1>2 DEF OwnerInv, NamesInv, NewFindsRequested, callVars, pathVars
  <2>. QED
    BY <1>1, <2>1, <2>2
<1>3. CASE Return(t) \/ Call(t, "lock_paths", NoPath, NoHandle, NoName)
  <2>1. pc'[t] \in {"idle", "lock_paths"} /\ cur'[t] = NoPath /\ slot'[t] = NoHandle
    BY <1>3, OwnerFacts DEF Return, Call
  <2>2. OwnerCalls'
    BY <2>1, OneCall DEF OwnerCalls, Working, Creating
  <2>3. NamesInv'
    BY <1>1, <2>1, OneCall DEF NamesInv, NewFindsRequested, Creating
  <2>. QED
    BY <1>1, <2>2, <2>3
<1>. QED
  BY <1>2, <1>3

\* A path that has just been allocated: it is the youngest, and nobody knows it.
LEMMA NewPath ==
  ASSUME OwnerInv, NEW n \in Names, Allocate(n), freed' = freed
  PROVE  /\ allocated + 1 \in Paths /\ allocated + 1 \notin Live
         /\ allocated + 1 \notin cached_path /\ Count(handle, allocated + 1) = 0
         /\ Live' = Live \cup {allocated + 1} /\ freed' \subseteq 1..allocated'
         /\ refcount'[allocated + 1] = 1 /\ name'[allocated + 1] = n
         /\ \A p \in Live : refcount'[p] = refcount[p] /\ name'[p] = name[p]
         /\ \A p \in Live' : name'[p] \in Names
<1>. TypeOK /\ RefsInv /\ NamesInv
  BY DEF OwnerInv
<1>1. /\ allocated + 1 \in Paths /\ allocated + 1 \notin Live
      /\ Live' = Live \cup {allocated + 1}
      /\ refcount'[allocated + 1] = 1 /\ name'[allocated + 1] = n
      /\ \A p \in Live : refcount'[p] = refcount[p] /\ name'[p] = name[p]
  BY AllocateStep
<1>2. freed' \subseteq 1..allocated'
  BY OwnerFacts DEF Allocate, RefsInv
<1>3. {h \in Handles : handle[h] = allocated + 1} = {}
  BY <1>1, OwnerFacts DEF RefsInv, Holds
<1>4. Count(handle, allocated + 1) = 0
  BY <1>3, FS_EmptySet DEF Count
<1>5. allocated + 1 \notin cached_path
  BY <1>1 DEF RefsInv
<1>6. \A p \in Live' : name'[p] \in Names
  BY <1>1 DEF NamesInv
<1>. QED
  BY ONLY <1>1, <1>2, <1>4, <1>5, <1>6

\* A path is parsed and entered: its name has no entry yet.
LEMMA OwnerPublish ==
  ASSUME OwnsAlone, OwnerInv, NEW t \in Threads, Publish(t)
  PROVE  RefsInv' /\ OwnerCalls' /\ TableInv' /\ NamesInv' /\ Freeing'
<1>. DEFINE new == allocated + 1
            n == want[t]
<1>1. /\ pc[t] = "miss" /\ Allocate(n) /\ cached_path' = cached_path \cup {new}
      /\ chain' = [chain EXCEPT ![new] = Bucket[n]]
      /\ Goto(t, "take_ref", new) /\ UNCHANGED <<freed, cache, handle>>
  BY DEF Publish
<1>2. /\ n \in Names /\ cache # "destroyed" /\ slot[t] # NoHandle /\ handle[slot[t]] = NoPath
      /\ \A p \in cached_path : name[p] # n
  BY <1>1 DEF OwnerInv, OwnerCalls, Working, Creating
<1>3. /\ new \in Paths /\ new \notin Live /\ new \notin cached_path /\ Count(handle, new) = 0
      /\ Live' = Live \cup {new} /\ freed' \subseteq 1..allocated'
      /\ refcount'[new] = 1 /\ name'[new] = n
      /\ \A p \in Live : refcount'[p] = refcount[p] /\ name'[p] = name[p]
      /\ \A p \in Live' : name'[p] \in Names
  BY <1>1, <1>2, NewPath
<1>4. /\ pc'[t] = "take_ref" /\ cur'[t] = new /\ slot' = slot /\ want' = want
  BY <1>1, OwnerFacts DEF Goto
<1>. HIDE DEF new
<1>5. RefsInv'
  <2>1. \A p \in Live' : refcount'[p] =
          Count(handle', p) + (IF p \in cached_path' THEN 1 ELSE 0)
    BY <1>1, <1>3 DEF OwnerInv, RefsInv
  <2>. QED
    BY <1>1, <1>3, <2>1 DEF OwnerInv, RefsInv, Holds
<1>6. OwnerCalls'
  BY <1>1, <1>2, <1>3, <1>4, OneCall DEF OwnerCalls, Working, Creating
<1>7. TableInv'
  <2>1. /\ chain' = [p \in Paths |-> chain'[p]] /\ chain'[new] = Bucket[n]
        /\ \A p \in cached_path : chain'[p] = chain[p]
    <3>1. chain = [p \in Paths |-> chain[p]] /\ cached_path \subseteq Paths
      BY OwnerFacts DEF OwnerInv, TableInv
    <3>. QED
      BY <1>1, <1>3, <3>1
  <2>2. CacheKeyStable'
    <3>. SUFFICES ASSUME NEW p \in cached_path' PROVE chain'[p] = Bucket[name'[p]]
      BY DEF CacheKeyStable
    <3>1. CASE p = new
      BY <1>3, <2>1, <3>1
    <3>2. CASE p # new
      BY <1>1, <1>3, <2>1, <3>2, OwnerFacts DEF OwnerInv, TableInv, CacheKeyStable
    <3>. QED
      BY <3>1, <3>2
  <2>3. OneEntryPerName'
    BY <1>1, <1>2, <1>3, OwnerFacts DEF OwnerInv, TableInv, OneEntryPerName
  <2>4. \A p \in Live' \ cached_path' : refcount'[p] <= 1
    BY <1>1, <1>2, <1>3 DEF OwnerInv, TableInv
  <2>. QED
    BY <1>1, <1>2, <2>1, <2>2, <2>3, <2>4 DEF TableInv
<1>8. NamesInv'
  BY <1>2, <1>3, <1>4, OneCall DEF NamesInv, NewFindsRequested
<1>9. Freeing'
  BY <1>1, <1>3, OneCall DEF OwnerInv, Freeing
<1>. QED
  BY <1>5, <1>6, <1>7, <1>8, <1>9

\* new() takes its reference, and the handle has the path.
LEMMA OwnerTakeRef ==
  ASSUME OwnsAlone, OwnerInv, NEW t \in Threads, TakeRef(t)
  PROVE  RefsInv' /\ OwnerCalls' /\ TableInv' /\ NamesInv' /\ Freeing'
<1>. DEFINE p == cur[t]
            h == slot[t]
<1>1. /\ pc[t] = "take_ref" /\ refcount' = [refcount EXCEPT ![p] = @ + 1]
      /\ handle' = [handle EXCEPT ![h] = p] /\ Return(t)
      /\ UNCHANGED <<allocated, freed, name, cacheVars>>
  BY DEF TakeRef, AddRef
<1>2. /\ p \in cached_path /\ p \in Live /\ p \in Paths /\ refcount[p] \in Nat
      /\ h \in Handles /\ handle[h] = NoPath /\ p # NoPath
  BY <1>1, OwnerFacts DEF OwnerInv, OwnerCalls, Working, Creating
<1>3. \A q \in Live : q # NoPath /\ q \in Paths /\ refcount[q] \in Nat
  BY OwnerFacts
<1>4. pc'[t] = "idle" /\ cur'[t] = NoPath /\ slot'[t] = NoHandle
  BY <1>1, OwnerFacts DEF Return
<1>5. Live' = Live /\ cached_path' = cached_path /\ cache' = cache /\ chain' = chain
  BY <1>1 DEF Live, cacheVars
<1>6. \A q : Count(handle', q) = Count(handle, q) + (IF p = q THEN 1 ELSE 0)
                                             - (IF handle[h] = q THEN 1 ELSE 0)
  <2>1. TypeOK /\ h \in Handles /\ handle' = [handle EXCEPT ![h] = p]
    BY <1>1, <1>2 DEF OwnerInv
  <2>. HIDE DEF p, h
  <2>. QED
    BY <2>1, CountMoves
<1>7. /\ handle'[h] = p /\ \A g \in Handles : g # h => handle'[g] = handle[g]
      /\ refcount'[p] = refcount[p] + 1
      /\ \A q \in Live : q # p => refcount'[q] = refcount[q]
  BY <1>1, <1>2, <1>3, OwnerFacts
<1>. HIDE DEF p, h
<1>8. RefsInv'
  <2>1. \A q \in Live : refcount'[q] =
          Count(handle', q) + (IF q \in cached_path THEN 1 ELSE 0)
    BY <1>2, <1>3, <1>6, <1>7, CountNat DEF OwnerInv, RefsInv
  <2>2. \A g \in Handles : handle'[g] # NoPath => handle'[g] \in Live
    BY <1>2, <1>7 DEF OwnerInv, RefsInv, Holds
  <2>. QED
    BY <1>1, <1>5, <2>1, <2>2 DEF OwnerInv, RefsInv, Holds
<1>9. OwnerCalls'
  BY <1>4, OneCall DEF OwnerCalls, Working, Creating
<1>10. TableInv'
  BY <1>1, <1>2, <1>5, <1>7 DEF OwnerInv, TableInv, CacheKeyStable, OneEntryPerName
<1>11. NamesInv'
  BY <1>1, <1>4, <1>5, OneCall DEF OwnerInv, NamesInv, NewFindsRequested, Creating
<1>12. Freeing'
  BY <1>1, <1>2, <1>5, <1>7, OneCall DEF OwnerInv, Freeing
<1>. QED
  BY <1>8, <1>9, <1>10, <1>11, <1>12

\* A copy, which the table does not know.
LEMMA OwnerClone ==
  ASSUME OwnsAlone, OwnerInv, NEW t \in Threads, NEW h \in Handles, NEW g \in Handles,
         Clone(t, h, g)
  PROVE  RefsInv' /\ OwnerCalls' /\ TableInv' /\ NamesInv' /\ Freeing'
<1>. DEFINE new == allocated + 1
            n == name[handle[h]]
<1>1. /\ pc[t] = "idle" /\ Allocate(n) /\ handle' = [handle EXCEPT ![g] = new]
      /\ Usable(h) /\ Vacant(g) /\ UNCHANGED <<freed, cacheVars, callVars>>
  BY DEF Clone, Idle
<1>2. n \in Names /\ handle[g] = NoPath
  BY <1>1 DEF Usable, Vacant, Holds, OwnerInv, NamesInv
<1>3. /\ new \in Paths /\ new \notin Live /\ new \notin cached_path /\ Count(handle, new) = 0
      /\ Live' = Live \cup {new} /\ freed' \subseteq 1..allocated'
      /\ refcount'[new] = 1 /\ name'[new] = n
      /\ \A p \in Live : refcount'[p] = refcount[p] /\ name'[p] = name[p]
      /\ \A p \in Live' : name'[p] \in Names
  BY <1>1, <1>2, NewPath
<1>4. /\ pc' = pc /\ cur' = cur /\ slot' = slot /\ want' = want /\ pc[t] = "idle"
      /\ cached_path' = cached_path /\ cache' = cache /\ chain' = chain
  BY <1>1 DEF callVars, cacheVars
<1>5. \A q : Count(handle', q) = Count(handle, q) + (IF new = q THEN 1 ELSE 0)
                                             - (IF handle[g] = q THEN 1 ELSE 0)
  <2>1. TypeOK /\ handle' = [handle EXCEPT ![g] = new]
    BY <1>1 DEF OwnerInv
  <2>. HIDE DEF new
  <2>. QED
    BY <2>1, CountMoves
<1>6. handle'[g] = new /\ \A x \in Handles : x # g => handle'[x] = handle[x]
  BY <1>1, OwnerFacts
<1>7. \A q \in Live : q # NoPath /\ refcount[q] \in Nat
  BY OwnerFacts
<1>. HIDE DEF new, n
<1>8. RefsInv'
  <2>1. \A q \in Live' : refcount'[q] =
          Count(handle', q) + (IF q \in cached_path THEN 1 ELSE 0)
    <3>1. ASSUME NEW q \in Live
          PROVE  refcount'[q] = Count(handle', q) + (IF q \in cached_path THEN 1 ELSE 0)
      BY <1>2, <1>3, <1>5, <1>7, CountNat DEF OwnerInv, RefsInv
    <3>2. NoPath # new
      BY <1>3, OwnerFacts
    <3>3. Count(handle', new) = 1
      BY <1>2, <1>3, <1>5, <3>2
    <3>. QED
      BY <1>3, <3>1, <3>3
  <2>2. \A x \in Handles : handle'[x] # NoPath => handle'[x] \in Live'
    BY <1>3, <1>6 DEF OwnerInv, RefsInv, Holds
  <2>. QED
    BY <1>3, <1>4, <2>1, <2>2 DEF OwnerInv, RefsInv, Holds
<1>9. OwnerCalls'
  <2>1. cur[t] = NoPath /\ slot[t] = NoHandle
    BY <1>1 DEF OwnerInv, OwnerCalls, Working, Creating
  <2>. QED
    BY <1>4, <2>1, OneCall DEF OwnerCalls, Working, Creating
<1>10. TableInv'
  BY <1>3, <1>4, OwnerFacts DEF OwnerInv, TableInv, CacheKeyStable, OneEntryPerName
<1>11. NamesInv'
  BY <1>3, <1>4, OneCall DEF NamesInv, NewFindsRequested, Creating
<1>12. Freeing'
  BY <1>3, <1>4, OneCall DEF OwnerInv, Freeing
<1>. QED
  BY <1>8, <1>9, <1>10, <1>11, <1>12

\* A reference is given back; without it the path is freed next.
LEMMA OwnerDestroy ==
  ASSUME OwnsAlone, OwnerInv, NEW t \in Threads, NEW h \in Handles, Destroy(t, h)
  PROVE  RefsInv' /\ OwnerCalls' /\ TableInv' /\ NamesInv' /\ Freeing'
<1>. DEFINE p == handle[h]
<1>1. /\ pc[t] = "idle" /\ p \in Live /\ refcount' = [refcount EXCEPT ![p] = @ - 1]
      /\ handle' = [handle EXCEPT ![h] = NoPath]
      /\ \/ refcount[p] = 1 /\ Call(t, "free", p, NoHandle, NoName)
         \/ refcount[p] # 1 /\ UNCHANGED callVars
      /\ UNCHANGED <<allocated, freed, name, cacheVars>>
  BY DEF Destroy, DropRef, Usable, Idle, Call
<1>2. p \in Paths /\ p # NoPath /\ refcount[p] \in Nat /\ refcount[p] # 0
  BY <1>1, OwnerFacts DEF Holds
<1>3. \A q \in Live : q # NoPath /\ q \in Paths /\ refcount[q] \in Nat
  BY OwnerFacts
<1>4. Live' = Live /\ cached_path' = cached_path /\ cache' = cache /\ chain' = chain
  BY <1>1 DEF Live, cacheVars
<1>5. \A q : Count(handle', q) = Count(handle, q) + (IF NoPath = q THEN 1 ELSE 0)
                                             - (IF p = q THEN 1 ELSE 0)
  BY <1>1, CountMoves DEF OwnerInv
<1>6. /\ handle'[h] = NoPath /\ \A x \in Handles : x # h => handle'[x] = handle[x]
      /\ refcount'[p] = refcount[p] - 1
      /\ \A q \in Live : q # p => refcount'[q] = refcount[q]
  BY <1>1, <1>2, <1>3, OwnerFacts
<1>7. cur[t] = NoPath /\ slot[t] = NoHandle
  BY <1>1 DEF OwnerInv, OwnerCalls, Working, Creating
<1>8. \/ /\ refcount[p] = 1 /\ pc'[t] = "free" /\ cur'[t] = p /\ slot'[t] = NoHandle
      \/ /\ refcount[p] # 1 /\ pc'[t] = "idle" /\ cur'[t] = NoPath /\ slot'[t] = NoHandle
  BY <1>1, <1>7, OwnerFacts DEF Call, callVars
<1>. HIDE DEF p
<1>9. RefsInv'
  <2>1. \A q \in Live : refcount'[q] =
          Count(handle', q) + (IF q \in cached_path THEN 1 ELSE 0)
    BY <1>2, <1>3, <1>5, <1>6, CountNat DEF OwnerInv, RefsInv
  <2>2. \A x \in Handles : handle'[x] # NoPath => handle'[x] \in Live
    BY <1>6 DEF OwnerInv, RefsInv, Holds
  <2>. QED
    BY <1>1, <1>4, <2>1, <2>2 DEF OwnerInv, RefsInv, Holds
<1>10. OwnerCalls'
  BY <1>1, <1>2, <1>4, <1>6, <1>8, OneCall DEF OwnerCalls, Working, Creating
<1>11. TableInv'
  BY <1>1, <1>2, <1>3, <1>4, <1>6 DEF OwnerInv, TableInv, CacheKeyStable, OneEntryPerName
<1>12. NamesInv'
  BY <1>1, <1>4, <1>8, OneCall DEF OwnerInv, NamesInv, NewFindsRequested, Creating
<1>13. Freeing'
  BY <1>1, <1>2, <1>4, <1>6, <1>8, OneCall DEF OwnerInv, Freeing
<1>. QED
  BY <1>9, <1>10, <1>11, <1>12, <1>13

\* A path that nobody holds is freed.
LEMMA OwnerFree ==
  ASSUME OwnsAlone, OwnerInv, NEW t \in Threads, Free(t)
  PROVE  RefsInv' /\ OwnerCalls' /\ TableInv' /\ NamesInv' /\ Freeing'
<1>. DEFINE p == cur[t]
<1>1. /\ pc[t] = "free" /\ freed' = freed \cup {p} /\ Return(t)
      /\ UNCHANGED <<allocated, refcount, name, cacheVars, handle>>
  BY DEF Free
<1>2. /\ p \in Live /\ p \in Paths /\ refcount[p] = 0
  BY <1>1, OwnerFacts DEF OwnerInv, OwnerCalls
<1>3. Count(handle, p) = 0 /\ p \notin cached_path /\ \A h \in Handles : handle[h] # p
  BY <1>2, CountNat, CountPositive DEF OwnerInv, RefsInv
<1>4. /\ Live' = Live \ {p} /\ freed' \subseteq 1..allocated'
      /\ cached_path' = cached_path /\ cache' = cache /\ chain' = chain
  BY <1>1, <1>2 DEF Live, OwnerInv, RefsInv, cacheVars
<1>5. pc'[t] = "idle" /\ cur'[t] = NoPath /\ slot'[t] = NoHandle
  BY <1>1, OwnerFacts DEF Return
<1>. HIDE DEF p
<1>6. RefsInv'
  BY <1>1, <1>3, <1>4 DEF OwnerInv, RefsInv, Holds
<1>7. OwnerCalls'
  BY <1>5, OneCall DEF OwnerCalls, Working, Creating
<1>8. TableInv'
  BY <1>1, <1>4 DEF OwnerInv, TableInv, CacheKeyStable, OneEntryPerName
<1>9. NamesInv'
  BY <1>1, <1>4, <1>5, OneCall DEF OwnerInv, NamesInv, NewFindsRequested, Creating
<1>10. Freeing'
  BY <1>1, <1>4, OneCall DEF OwnerInv, Freeing, p
<1>. QED
  BY <1>6, <1>7, <1>8, <1>9, <1>10

\* invalidate() agrees, has to take the path out of the table first, or refuses.
LEMMA OwnerInvalidate ==
  ASSUME OwnsAlone, OwnerInv, NEW t \in Threads, NEW h \in Handles, NEW n \in Names,
         Invalidate(t, h, n)
  PROVE  RefsInv' /\ OwnerCalls' /\ TableInv' /\ NamesInv' /\ Freeing'
<1>. DEFINE p == handle[h]
<1>1. /\ pc[t] = "idle" /\ cache # "destroyed" /\ p \in Live
      /\ UNCHANGED <<pathVars, cacheVars, handle>>
      /\ \/ refcount[p] = 1 /\ Call(t, "mutate", p, h, n)
         \/ refcount[p] = 2 /\ Call(t, "uncache", p, h, n)
         \/ UNCHANGED callVars
  BY DEF Invalidate, OnlyCaller, Call, Idle, Usable
<1>2. /\ RefsInv' /\ TableInv' /\ Freeing' /\ (\A q \in Live' : name'[q] \in Names)
      /\ Live' = Live
  BY <1>1, QuietStep DEF cacheVars
<1>3. p \in Paths /\ p # NoPath /\ h # NoHandle
  BY <1>1, OwnerFacts
<1>4. refcount[p] = 1 => p \notin cached_path
  <2>1. Count(handle, p) # 0 /\ Count(handle, p) \in Nat
    BY CountPositive, CountNat
  <2>. QED
    BY <1>1, <2>1 DEF OwnerInv, RefsInv
<1>. HIDE DEF p
<1>5. ASSUME UNCHANGED callVars PROVE OwnerCalls' /\ NamesInv'
  BY <1>1, <1>5, OwnerReturn
<1>6. ASSUME \/ refcount[p] = 1 /\ Call(t, "mutate", p, h, n)
             \/ refcount[p] = 2 /\ Call(t, "uncache", p, h, n)
      PROVE  OwnerCalls' /\ NamesInv'
  <2>1. /\ cur'[t] = p /\ slot'[t] = h /\ want'[t] = n
        /\ \/ refcount[p] = 1 /\ pc'[t] = "mutate"
           \/ refcount[p] = 2 /\ pc'[t] = "uncache"
    BY <1>6, OwnerFacts DEF Call
  <2>2. OwnerCalls'
    BY <1>1, <1>2, <1>3, <1>4, <2>1, OneCall
       DEF OwnerCalls, Working, Creating, pathVars, cacheVars, p
  <2>3. NamesInv'
    BY <1>2, <2>1, OneCall DEF NamesInv, NewFindsRequested, Creating
  <2>. QED
    BY <2>2, <2>3
<1>7. OwnerCalls' /\ NamesInv'
  <2>1. \/ refcount[p] = 1 /\ Call(t, "mutate", p, h, n)
        \/ refcount[p] = 2 /\ Call(t, "uncache", p, h, n)
        \/ UNCHANGED callVars
    BY ONLY <1>1
  <2>. QED
    BY ONLY <2>1, <1>5, <1>6
<1>. QED
  BY ONLY <1>2, <1>7

\* The entry that libiodefv2_hash_elem_destroy() finds is that of the path itself.
LEMMA OwnEntry ==
  ASSUME OwnsAlone, OwnerInv, NEW t \in Threads, pc[t] = "uncache"
  PROVE  cur[t] \in cached_path /\ Matches(name[cur[t]]) = {cur[t]}
         /\ FirstMatch(name[cur[t]]) = cur[t]
<1>. DEFINE p == cur[t]
<1>1. p \in Live /\ refcount[p] = 2 /\ cache # "destroyed"
  BY DEF OwnerInv, OwnerCalls, Working
<1>2. p \in cached_path
  BY <1>1 DEF OwnerInv, TableInv
<1>3. Matches(name[p]) = {p}
  BY <1>2 DEF OwnerInv, TableInv, CacheKeyStable, OneEntryPerName, Matches
<1>4. FirstMatch(name[p]) \in Matches(name[p])
  BY <1>3, FirstMatchMatches DEF OwnerInv, TypeOK
<1>. QED
  BY <1>2, <1>3, <1>4

\* The path leaves the table, and the caller is the only one left to hold it.
LEMMA OwnerUncache ==
  ASSUME OwnsAlone, OwnerInv, NEW t \in Threads, Uncache(t)
  PROVE  RefsInv' /\ OwnerCalls' /\ TableInv' /\ NamesInv' /\ Freeing'
<1>. DEFINE p == cur[t]
<1>0. pc[t] = "uncache"
  BY DEF Uncache
<1>1. /\ p \in cached_path /\ p \in Live /\ p \in Paths /\ p # NoPath
      /\ refcount[p] = 2 /\ handle[slot[t]] = p
      /\ want[t] \in Names /\ cache # "destroyed" /\ slot[t] # NoHandle
  BY <1>0, OwnEntry, OwnerFacts DEF OwnerInv, OwnerCalls, Working
<1>2. /\ cached_path' = cached_path \ {p} /\ refcount' = [refcount EXCEPT ![p] = @ - 1]
      /\ Goto(t, "mutate", p)
      /\ UNCHANGED <<allocated, freed, name, chain, cache, handle>>
  BY <1>0, OwnEntry DEF Uncache, RemoveEntry, DropRef
<1>3. /\ pc'[t] = "mutate" /\ cur'[t] = p /\ slot' = slot /\ want' = want
  BY <1>2, OwnerFacts DEF Goto
<1>4. \A q \in Live : q \in Paths /\ refcount[q] \in Nat
  BY OwnerFacts
<1>5. /\ refcount'[p] = 1 /\ \A q \in Live : q # p => refcount'[q] = refcount[q]
  BY <1>1, <1>2, <1>4, OwnerFacts
<1>6. Live' = Live
  BY <1>2 DEF Live
<1>. HIDE DEF p
<1>7. RefsInv'
  <2>1. \A q \in Live : refcount'[q] =
          Count(handle', q) + (IF q \in cached_path' THEN 1 ELSE 0)
    BY <1>1, <1>2, <1>4, <1>5, CountNat DEF OwnerInv, RefsInv
  <2>. QED
    BY <1>2, <1>6, <2>1 DEF OwnerInv, RefsInv, Holds
<1>8. OwnerCalls'
  BY <1>1, <1>2, <1>3, <1>5, <1>6, OneCall DEF OwnerCalls, Working, Creating
<1>9. TableInv'
  BY <1>1, <1>2, <1>5, <1>6 DEF OwnerInv, TableInv, CacheKeyStable, OneEntryPerName
<1>10. NamesInv'
  BY <1>2, <1>3, <1>6, OneCall DEF OwnerInv, NamesInv, NewFindsRequested, Creating
<1>11. Freeing'
  BY <1>0, <1>5, <1>6, OneCall DEF OwnerInv, Freeing
<1>. QED
  BY <1>7, <1>8, <1>9, <1>10, <1>11

\* A path that the table does not know gets another name.
LEMMA OwnerMutate ==
  ASSUME OwnsAlone, OwnerInv, NEW t \in Threads, Mutate(t)
  PROVE  RefsInv' /\ OwnerCalls' /\ TableInv' /\ NamesInv' /\ Freeing'
<1>. DEFINE p == cur[t]
<1>1. /\ pc[t] = "mutate" /\ name' = [name EXCEPT ![p] = want[t]] /\ Return(t)
      /\ UNCHANGED <<allocated, freed, refcount, cacheVars, handle>>
  BY DEF Mutate
<1>2. p \in Live /\ p \in Paths /\ p \notin cached_path /\ want[t] \in Names
  BY <1>1, OwnerFacts DEF OwnerInv, OwnerCalls, Working
<1>3. name'[p] = want[t] /\ \A q \in Live : q # p => name'[q] = name[q]
  BY <1>1, <1>2, OwnerFacts
<1>4. /\ Live' = Live /\ cached_path' = cached_path /\ cache' = cache /\ chain' = chain
  BY <1>1 DEF Live, cacheVars
<1>5. pc'[t] = "idle" /\ cur'[t] = NoPath /\ slot'[t] = NoHandle
  BY <1>1, OwnerFacts DEF Return
<1>. HIDE DEF p
<1>6. RefsInv'
  BY <1>1, <1>4 DEF OwnerInv, RefsInv, Holds
<1>7. OwnerCalls'
  BY <1>5, OneCall DEF OwnerCalls, Working, Creating
<1>8. TableInv'
  <2>1. \A q \in cached_path : name'[q] = name[q]
    BY <1>2, <1>3, OwnerFacts
  <2>. QED
    BY <1>1, <1>4, <2>1 DEF OwnerInv, TableInv, CacheKeyStable, OneEntryPerName
<1>9. NamesInv'
  BY <1>2, <1>3, <1>4, <1>5, OneCall DEF OwnerInv, NamesInv, NewFindsRequested, Creating
<1>10. Freeing'
  BY <1>1, <1>4, OneCall DEF OwnerInv, Freeing
<1>. QED
  BY <1>6, <1>7, <1>8, <1>9, <1>10

\* The table is destroyed, with the paths that only it held.
LEMMA OwnerCacheDestroy ==
  ASSUME OwnerInv, CacheDestroy
  PROVE  RefsInv' /\ OwnerCalls' /\ TableInv' /\ NamesInv' /\ Freeing'
<1>. DEFINE last == {p \in cached_path : refcount[p] = 1}
<1>1. /\ refcount' = [p \in Paths |->
              IF p \in cached_path THEN refcount[p] - 1 ELSE refcount[p]]
      /\ freed' = freed \cup last /\ cached_path' = {} /\ cache' = "destroyed"
      /\ UNCHANGED <<allocated, name, chain, handle, callVars>>
      /\ \A t \in Threads : pc[t] = "idle"
  BY DEF CacheDestroy, Idle
<1>2. last \subseteq Live /\ \A p \in last : Count(handle, p) = 0
  BY CountNat DEF OwnerInv, RefsInv
<1>3. \A h \in Handles : handle[h] \notin last
  BY <1>2, CountPositive
<1>4. \A q \in Live : q \in Paths /\ refcount[q] \in Nat /\ Count(handle, q) \in Nat
  BY OwnerFacts, CountNat
<1>5. \A q \in Live \ last : refcount'[q] # 0 /\ refcount'[q] = Count(handle, q)
  BY <1>1, <1>4 DEF OwnerInv, RefsInv, Freeing
<1>. HIDE DEF last
<1>6. Live' = Live \ last /\ freed' \subseteq 1..allocated'
  BY <1>1, <1>2 DEF Live, OwnerInv, RefsInv
<1>7. RefsInv'
  <2>1. \A q \in Live' : refcount'[q] =
          Count(handle', q) + (IF q \in cached_path' THEN 1 ELSE 0)
    BY <1>1, <1>4, <1>5, <1>6
  <2>. QED
    BY <1>1, <1>3, <1>6, <2>1 DEF OwnerInv, RefsInv, Holds
<1>8. OwnerCalls'
  <2>1. \A t \in Threads : cur[t] = NoPath /\ slot[t] = NoHandle
    BY <1>1 DEF OwnerInv, OwnerCalls, Working, Creating
  <2>. QED
    BY <1>1, <2>1 DEF OwnerCalls, Working, Creating, callVars
<1>9. TableInv'
  BY <1>1 DEF OwnerInv, TableInv, CacheKeyStable, OneEntryPerName
<1>10. NamesInv'
  BY <1>1, <1>6 DEF OwnerInv, NamesInv, NewFindsRequested, Creating, callVars
<1>11. Freeing'
  BY <1>5, <1>6 DEF Freeing
<1>. QED
  BY <1>7, <1>8, <1>9, <1>10, <1>11

\* Every step of such a program keeps the invariant.
LEMMA OwnerStep ==
  ASSUME OwnsAlone, OwnerInv, [Next]_vars
  PROVE  OwnerInv'
<1>. DEFINE Kept == RefsInv' /\ OwnerCalls' /\ TableInv' /\ NamesInv' /\ Freeing'
<1>1. ~ \E t \in Threads : PublishFails(t) \/ \E h, g \in Handles : Ref(t, h, g)
  BY DEF PublishFails, Ref, OwnsAlone
<1>2. ASSUME NEW t \in Threads, NewFails(t) \/ CacheUnlock(t) \/ CacheLock(t) PROVE Kept
  <2>1. /\ pc[t] # "free" /\ UNCHANGED <<pathVars, cacheVars, handle>>
        /\ Return(t) \/ Call(t, "lock_paths", NoPath, NoHandle, NoName)
    BY <1>2 DEF NewFails, CacheUnlock, CacheLock, Call, Idle
  <2>. QED
    BY <2>1, OwnerReturn
<1>3. ASSUME NEW t \in Threads, NEW p \in Paths, LockPath(t, p) PROVE Kept
  <2>1. pc[t] # "free" /\ UNCHANGED <<pathVars, cacheVars, handle, callVars>>
    BY <1>3 DEF LockPath
  <2>. QED
    BY <2>1, OwnerReturn
<1>4. ASSUME UNCHANGED vars PROVE Kept
  <2>1. Live' = Live
    BY <1>4 DEF vars, pathVars, Live
  <2>2. RefsInv'
    BY <1>4, <2>1 DEF OwnerInv, RefsInv, Holds, vars, pathVars, cacheVars
  <2>3. OwnerCalls'
    BY <1>4, <2>1 DEF OwnerInv, OwnerCalls, vars, pathVars, cacheVars, callVars
  <2>4. TableInv'
    BY <1>4, <2>1
       DEF OwnerInv, TableInv, CacheKeyStable, OneEntryPerName, vars, pathVars, cacheVars
  <2>5. NamesInv' /\ Freeing'
    BY <1>4, <2>1 DEF OwnerInv, NamesInv, NewFindsRequested, Freeing, vars, pathVars, callVars
  <2>. QED
    BY <2>2, <2>3, <2>4, <2>5
<1>5. Kept
  BY ONLY <1>1, <1>2, <1>3, <1>4, OwnsAlone, OwnerInv, [Next]_vars,
     OwnerNewStart, OwnerLookup, OwnerPublish, OwnerTakeRef, OwnerClone, OwnerDestroy, OwnerFree,
     OwnerInvalidate, OwnerUncache, OwnerMutate, OwnerCacheDestroy
     DEF Next, Request, Step, Finished
<1>. QED
  BY <1>5, KeepsInv

\* The inductive invariant of these programs.
LEMMA OwnerInvariant == ASSUME OwnsAlone PROVE Spec => []OwnerInv
<1>1. Init => OwnerInv
  <2>. SUFFICES ASSUME Init PROVE OwnerInv
    OBVIOUS
  <2>1. TypeOK /\ PathInHand
    BY ConstantsAssumption DEF Init, TypeOK, PathInHand, ConstantsAssumption
  <2>2. Live = {}
    BY DEF Init, Live
  <2>3. OwnerCalls
    BY DEF Init, OwnerCalls, Working, Creating
  <2>4. RefsInv
    BY <2>2 DEF Init, RefsInv, Holds
  <2>5. TableInv
    BY <2>2 DEF Init, TableInv, CacheKeyStable, OneEntryPerName
  <2>6. NamesInv /\ Freeing
    BY <2>2 DEF Init, NamesInv, NewFindsRequested, Freeing, Creating
  <2>. QED
    BY <2>1, <2>3, <2>4, <2>5, <2>6 DEF OwnerInv
<1>2. OwnsAlone /\ OwnerInv /\ [Next]_vars => OwnerInv'
  BY OwnerStep
<1>. QED
  BY <1>1, <1>2, PTL DEF Spec

-----------------------------------------------------------------------------
\* No sequence of clones, changes and releases leaves a pointer to a freed path, a count
\* that is off, or a path that nobody can free once the table has been destroyed.
THEOREM OwnerSoundCache == ASSUME OwnsAlone PROVE Spec => []SoundCache
<1>1. OwnerInv => PointersLive
  <2>. SUFFICES ASSUME OwnerInv, NEW t \in Threads, cur[t] # NoPath PROVE cur[t] \in Live
    BY DEF OwnerInv, RefsInv, PointersLive
  <2>. QED
    BY DEF OwnerInv, OwnerCalls, RefsInv
<1>2. OwnerInv => RefcountExact
  BY DEF OwnerInv, RefsInv, RefcountExact, Count, Holders
<1>3. OwnerInv => NothingLeaked
  <2>. SUFFICES ASSUME OwnerInv, cache = "destroyed",
                       \A t \in Threads : Idle(t), NEW p \in Live
                PROVE  Holders(p) # {}
    BY DEF NothingLeaked
  <2>1. refcount[p] # 0 /\ cached_path = {}
    BY DEF OwnerInv, Freeing, TableInv, Idle
  <2>2. refcount[p] = Count(handle, p)
    BY <2>1, CountNat DEF OwnerInv, RefsInv
  <2>. QED
    BY <2>1, <2>2, FS_EmptySet DEF Count, Holders
<1>4. OwnerInv => SoundCache
  BY <1>1, <1>2, <1>3 DEF SoundCache
<1>. QED
  BY <1>4, OwnerInvariant, PTL

\* A path that has an entry keeps the name it was filed under: what a call renames has
\* been taken out of the table.
THEOREM OwnerKeysStable == ASSUME OwnsAlone PROVE Spec => []CacheKeyStable
<1>1. OwnerInv => CacheKeyStable
  BY DEF OwnerInv, TableInv
<1>. QED
  BY <1>1, OwnerInvariant, PTL

\* A call that has been told to go on and change a path is the only one to hold it.
LEMMA SoleHolder ==
  ASSUME OwnsAlone, OwnerInv
  PROVE  MutatorIsSoleHolder
<1>. SUFFICES ASSUME NEW t \in Threads, pc[t] = "mutate"
              PROVE  /\ Holders(cur[t]) = {slot[t]}
                     /\ cur[t] \notin cached_path
                     /\ \A u \in Threads \ {t} : cur[u] # cur[t]
  BY DEF MutatorIsSoleHolder
<1>1. /\ cur[t] \in Live /\ cur[t] \notin cached_path /\ refcount[cur[t]] = 1
      /\ handle[slot[t]] = cur[t] /\ slot[t] \in Handles
  BY OwnerFacts DEF OwnerInv, OwnerCalls, Working
<1>2. Cardinality(Holders(cur[t])) = 1 /\ IsFiniteSet(Holders(cur[t]))
  <2>1. Count(handle, cur[t]) = 1
    BY <1>1, CountNat DEF OwnerInv, RefsInv
  <2>2. Holders(cur[t]) = Counted(handle, cur[t])
    BY DEF Holders, Counted
  <2>3. IsFiniteSet(Counted(handle, cur[t]))
    BY CountNat
  <2>. QED
    BY <2>1, <2>2, <2>3 DEF Count, Counted
<1>3. PICK g : Holders(cur[t]) = {g}
  BY <1>2, FS_Singleton
<1>4. slot[t] \in Holders(cur[t])
  BY <1>1 DEF Holders
<1>. QED
  BY <1>1, <1>3, <1>4, OneCall

\* "We can modify the path only if the caller is the only entity that has pointer to it".
THEOREM OwnerMutatesAlone == ASSUME OwnsAlone PROVE Spec => []MutatorIsSoleHolder
<1>1. OwnsAlone /\ OwnerInv => MutatorIsSoleHolder
  BY SoleHolder
<1>. QED
  BY <1>1, OwnerInvariant, PTL

-----------------------------------------------------------------------------
(***************************************************************************)
(* The cache implements PathValues for these programs too, in which paths  *)
(* do change: what changes is the value of one handle.                     *)
(***************************************************************************)

\* The one call changes the path of its own handle only.
LEMMA OwnerRefines ==
  ASSUME OwnsAlone, OwnerInv, AskedShape, AskedShape', [Next]_vars
  PROVE  [Store!Next]_(Store!vars)
<1>. DEFINE Refined == [Store!Next]_(Store!vars)
<1>. TypeOK /\ RefsInv /\ NamesInv
  BY DEF OwnerInv
<1>. USE DEF pathVars, cacheVars, lockVars, callVars, vars
<1>t. /\ pc \in [Threads -> {"idle", "lookup", "miss", "take_ref", "free",
                             "uncache", "mutate", "lock_paths"}]
      /\ cur \in [Threads -> Paths \cup {NoPath}]
      /\ slot \in [Threads -> Handles \cup {NoHandle}]
      /\ want \in [Threads -> Names \cup {NoName}]
  BY OwnerFacts
<1>h. NoHandle \notin Handles /\ NoName \notin Names /\ NoPath \notin Paths
  BY ConstantsAssumption, OwnerFacts DEF ConstantsAssumption
<1>v. \A h \in Handles : handle[h] \in Live => Holds(h)
  BY OwnerFacts DEF Holds
\* Unless the call is one of new(), no handle is asked for anything.
<1>s. ASSUME NEW t \in Threads, pc[t] \notin Creating
      PROVE  \A u \in Threads, h \in Handles : ~CreatesFor(u, h)
  BY <1>s, OneCall DEF CreatesFor, Creating
<1>r. ASSUME NEW t \in Threads, pc'[t] \notin Creating
      PROVE  \A u \in Threads, h \in Handles : ~CreatesFor(u, h)'
  BY <1>r, OneCall DEF CreatesFor, Creating
\* Steps that change neither a handle nor what is asked for.
<1>q. ASSUME handle' = handle, KeepNames,
             \A t \in Threads, h \in Handles :
               /\ CreatesFor(t, h)' <=> CreatesFor(t, h)
               /\ CreatesFor(t, h) => want'[t] = want[t]
      PROVE  Refined
  BY <1>q, AskedSame, ValueSame DEF Store!vars
\* Steps of calls other than new().
<1>o. ASSUME NEW t \in Threads, pc[t] \notin Creating, pc'[t] \notin Creating
      PROVE  askedOf' = askedOf /\ (handle' = handle /\ KeepNames => Refined)
  BY <1>o, <1>s, <1>r, <1>q, AskedSame
<1>1. ASSUME NEW t \in Threads, NEW h \in Handles, NEW n \in Names,
             NewStart(t, h, n)
      PROVE  Refined
  <2>0. pc[t] = "idle"
    BY <1>1 DEF NewStart, Call, Idle
  <2>1. valueOf' = valueOf
    BY <1>1, ValueSame DEF NewStart, KeepNames
  <2>2. valueOf[h] = NoName
    BY <1>1, ValueOfPath DEF NewStart, Vacant
  <2>3. askedOf[h] = NoName
    BY <1>s, <2>0 DEF Creating, AskedShape
  <2>4. CreatesFor(t, h)' /\ want'[t] = n
    BY <1>1, <1>t DEF NewStart, Call, CreatesFor
  <2>5. askedOf'[h] = n
    BY <2>4 DEF AskedShape
  <2>6. \A u \in Threads, g \in Handles \ {h} :
           /\ CreatesFor(u, g)' <=> CreatesFor(u, g)
           /\ CreatesFor(u, g) => want'[u] = want[u]
    BY <1>1, <1>t DEF NewStart, Call, Idle, CreatesFor
  <2>7. askedOf' = [askedOf EXCEPT ![h] = n]
    BY <2>5, <2>6, AskedChanges
  <2>. QED
    BY <2>1, <2>2, <2>3, <2>7 DEF Store!Next, Store!Ask
<1>2. ASSUME NEW t \in Threads, Lookup(t) PROVE Refined
  <2>1. handle' = handle /\ KeepNames /\ want' = want
    BY <1>2 DEF Lookup, Goto, KeepNames
  <2>2. \A u \in Threads, h \in Handles : CreatesFor(u, h)' <=> CreatesFor(u, h)
    BY <1>2, <1>t DEF Lookup, Goto, CreatesFor
  <2>. QED
    BY <1>q, <2>1, <2>2
\* A call of new() that ends: its handle has been asked for, and no longer is.
<1>e. ASSUME NEW t \in Threads, pc[t] \in Creating, Return(t)
      PROVE  \E h \in Handles :
               /\ slot[t] = h /\ askedOf[h] = want[t] /\ want[t] \in Names
               /\ askedOf' = [askedOf EXCEPT ![h] = NoName]
  <2>1. PICK h \in Handles : slot[t] = h /\ CreatesFor(t, h)
    BY <1>e, <1>t DEF OwnerInv, OwnerCalls, CreatesFor, Creating, Working
  <2>2. askedOf[h] = want[t] /\ want[t] \in Names
    BY <1>e, <2>1 DEF AskedShape, NamesInv
  <2>3. \A u \in Threads : ~CreatesFor(u, h)'
    BY <1>e, <1>t, <1>r DEF Return, Creating
  <2>4. askedOf'[h] = NoName
    BY <2>3 DEF AskedShape
  <2>5. \A u \in Threads, g \in Handles \ {h} :
           /\ CreatesFor(u, g)' <=> CreatesFor(u, g)
           /\ CreatesFor(u, g) => want'[u] = want[u]
    BY <1>e, <1>t, <2>1 DEF Return, CreatesFor
  <2>. QED
    BY <2>1, <2>2, <2>4, <2>5, AskedChanges
<1>3. ASSUME NEW t \in Threads, NewFails(t) PROVE Refined
  <2>1. valueOf' = valueOf
    BY <1>3, ValueSame DEF NewFails, KeepNames
  <2>2. PICK h \in Handles : askedOf[h] # NoName /\ askedOf' = [askedOf EXCEPT ![h] = NoName]
    BY <1>3, <1>e, <1>h DEF NewFails, Creating
  <2>. QED
    BY <2>1, <2>2 DEF Store!Next, Store!Refuse
<1>4. ASSUME NEW t \in Threads, Publish(t) PROVE Refined
  <2>1. handle' = handle /\ want' = want
    BY <1>4 DEF Publish, Goto
  <2>2. KeepNames
    <3>1. want[t] \in Names
      BY <1>4 DEF Publish, NamesInv, Creating
    <3>. QED
      BY <1>4, <3>1, AllocateStep DEF Publish, KeepNames
  <2>3. \A u \in Threads, h \in Handles : CreatesFor(u, h)' <=> CreatesFor(u, h)
    BY <1>4, <1>t DEF Publish, Goto, CreatesFor
  <2>. QED
    BY <1>q, <2>1, <2>2, <2>3
<1>5. ASSUME NEW t \in Threads, TakeRef(t) PROVE Refined
  <2>1. PICK h \in Handles :
          /\ slot[t] = h /\ askedOf[h] = want[t] /\ want[t] \in Names
          /\ askedOf' = [askedOf EXCEPT ![h] = NoName]
    BY <1>5, <1>e DEF TakeRef, Creating
  <2>2. PICK p \in Live : cur[t] = p
    BY <1>5, OwnerFacts DEF TakeRef, OwnerInv, OwnerCalls
  <2>3. handle' = [handle EXCEPT ![h] = p] /\ KeepNames /\ name' = name
    BY <1>5, <2>1, <2>2 DEF TakeRef, KeepNames
  <2>4. p # NoPath /\ name[p] = want[t]
    BY <1>5, <2>2, OwnerFacts DEF TakeRef, NamesInv, NewFindsRequested
  <2>5. valueOf' = [valueOf EXCEPT ![h] = name'[p]]
    BY <2>3, <2>4, ValueChanges
  <2>. QED
    BY <1>h, <2>1, <2>3, <2>4, <2>5 DEF Store!Next, Store!Answer
<1>6. ASSUME NEW t \in Threads, NEW h \in Handles, NEW g \in Handles, Clone(t, h, g)
      PROVE  Refined
  <2>. DEFINE new == allocated + 1
  <2>0. /\ Usable(h) /\ Vacant(g) /\ pc[t] = "idle" /\ pc' = pc
        /\ Allocate(name[handle[h]]) /\ freed' = freed
        /\ handle' = [handle EXCEPT ![g] = new]
    BY <1>6 DEF Clone, Idle
  <2>1. name[handle[h]] \in Names
    BY <2>0 DEF Usable, NamesInv
  <2>2. /\ KeepNames /\ name'[new] = name[handle[h]] /\ new # NoPath
    BY <2>0, <2>1, <1>h, NewPath DEF KeepNames
  <2>. HIDE DEF new
  <2>3. valueOf[h] = name[handle[h]] /\ valueOf[h] # NoName
    BY <2>0, <1>v, ValueOfPath DEF Usable
  <2>4. valueOf[g] = NoName
    BY <2>0, ValueOfPath DEF Vacant
  <2>5. askedOf[g] = NoName /\ askedOf' = askedOf
    BY <1>s, <1>o, <2>0 DEF Creating, AskedShape
  <2>6. valueOf' = [valueOf EXCEPT ![g] = valueOf[h]]
    <3>1. valueOf' = [valueOf EXCEPT ![g] = name'[new]]
      BY <2>0, <2>2, ValueChanges
    <3>. QED
      BY <2>2, <2>3, <3>1
  <2>. QED
    BY <2>3, <2>4, <2>5, <2>6 DEF Store!Next, Store!Copy
<1>7. ASSUME NEW t \in Threads, NEW h \in Handles, Destroy(t, h) PROVE Refined
  <2>1. valueOf[h] # NoName
    BY <1>7, <1>v, ValueOfPath DEF Destroy, Usable
  <2>2. KeepNames /\ handle' = [handle EXCEPT ![h] = NoPath]
    BY <1>7 DEF Destroy, KeepNames
  <2>3. valueOf' = [valueOf EXCEPT ![h] = NoName]
    BY <2>2, ValueChanges
  <2>4. pc[t] = "idle" /\ pc'[t] \in {"idle", "free"}
    BY <1>7, <1>t DEF Destroy, Call, Idle
  <2>5. askedOf' = askedOf
    BY <1>o, <2>4 DEF Creating
  <2>. QED
    BY <2>1, <2>3, <2>5 DEF Store!Next, Store!Drop
\* The path that changes is the path of one handle.
<1>8. ASSUME NEW t \in Threads, Mutate(t) PROVE Refined
  <2>. DEFINE p == cur[t]
              h == slot[t]
  <2>1. /\ pc[t] = "mutate" /\ pc'[t] = "idle" /\ handle' = handle
        /\ name' = [name EXCEPT ![p] = want[t]]
    BY <1>8, <1>t DEF Mutate, Return
  <2>2. /\ h \in Handles /\ handle[h] = p /\ p \in Paths /\ want[t] \in Names
        /\ \A g \in Handles : handle[g] = p => g = h
    <3>1. h \in Handles /\ handle[h] = p /\ p \in Paths /\ want[t] \in Names
      BY <2>1, OwnerFacts DEF OwnerInv, OwnerCalls, Working
    <3>2. Holders(p) = {h}
      BY <2>1, SoleHolder DEF MutatorIsSoleHolder
    <3>. QED
      BY <3>1, <3>2 DEF Holders
  <2>3. name'[p] = want[t] /\ \A g \in Handles \ {h} : name'[handle[g]] = name[handle[g]]
    BY <2>1, <2>2, OwnerFacts
  <2>. HIDE DEF p, h
  <2>4. Holds(h)
    BY <2>2, <1>h DEF Holds
  <2>5. valueOf' = [valueOf EXCEPT ![h] = want[t]]
    <3>1. valueOf'[h] = want[t] /\ \A g \in Handles \ {h} : valueOf'[g] = valueOf[g]
      BY <2>1, <2>2, <2>3, <2>4 DEF valueOf, Holds
    <3>2. /\ valueOf = [g \in Handles |-> valueOf[g]]
          /\ valueOf' = [g \in Handles |-> valueOf'[g]]
      BY DEF valueOf
    <3>. QED
      BY <3>1, <3>2
  <2>6. valueOf[h] # NoName
    BY <2>2, <2>4, ValueOfPath
  <2>7. askedOf' = askedOf
    BY <1>o, <2>1 DEF Creating
  <2>. QED
    BY <2>2, <2>5, <2>6, <2>7 DEF Store!Next, Store!Change
\* Calls that free a path, take it out of the table or take locks.
<1>9. ASSUME NEW t \in Threads, NEW h \in Handles, NEW n \in Names, Invalidate(t, h, n)
      PROVE  Refined
  <2>1. pc[t] = "idle" /\ pc'[t] \in {"idle", "mutate", "uncache"}
    BY <1>9, <1>t DEF Invalidate, Call, Idle
  <2>2. handle' = handle /\ KeepNames
    BY <1>9 DEF Invalidate, KeepNames
  <2>. QED
    BY <1>o, <2>1, <2>2 DEF Creating
<1>10. ASSUME NEW t \in Threads,
              \/ Free(t) \/ Uncache(t) \/ CacheUnlock(t) \/ CacheLock(t)
              \/ \E p \in Paths : LockPath(t, p)
       PROVE  Refined
  <2>1. pc[t] \notin Creating
    BY <1>10 DEF Free, Uncache, CacheUnlock, CacheLock, LockPath, Call, Idle, Creating
  <2>2. pc'[t] \notin Creating
    BY <1>10, <1>t DEF Free, Uncache, CacheUnlock, CacheLock, LockPath, Call, Goto, Return, Creating
  <2>3. handle' = handle /\ KeepNames
    BY <1>10 DEF Free, Uncache, CacheUnlock, CacheLock, LockPath, KeepNames
  <2>. QED
    BY <1>o, <2>1, <2>2, <2>3
<1>11. ASSUME CacheDestroy \/ UNCHANGED vars PROVE Refined
  BY <1>11, <1>q DEF CacheDestroy, KeepNames, CreatesFor
<1>. QED
  <2>1. ~ \E t \in Threads : PublishFails(t) \/ \E h, g \in Handles : Ref(t, h, g)
    BY DEF PublishFails, Ref, OwnsAlone
  <2>. QED
    BY ONLY <2>1, <1>1, <1>2, <1>3, <1>4, <1>5, <1>6, <1>7, <1>8, <1>9, <1>10, <1>11, [Next]_vars
       DEF Next, Request, Step, Finished

\* To a program that owns its paths the cache, the counts and the changes look like
\* handles with values of their own: new() answers what it was asked, and a change of one
\* handle is seen through no other.
THEOREM OwnerImplementsValues == ASSUME OwnsAlone PROVE Spec => ValueSemantics
<1>1. Init => Store!Init
  BY DEF Init, Store!Init, valueOf, askedOf, Holds, CreatesFor
<1>2. OwnsAlone /\ OwnerInv /\ AskedShape /\ AskedShape' /\ [Next]_vars
        => [Store!Next]_(Store!vars)
  BY OwnerRefines
<1>3. AskedShape
  <2>1. CallsApart
    BY DEF OwnsAlone, CallsApart
  <2>. QED
    BY <2>1, AskedIsWanted
<1>. QED
  BY <1>1, <1>2, <1>3, OwnerInvariant, PTL
     DEF Spec, ValueSemantics, Store!Spec
=============================================================================
