------------------------------ MODULE PathCache ------------------------------
(***************************************************************************)
(* The process-wide cache of parsed paths (src/iodefv2-path.c): reference  *)
(* counted iodefv2_path_t objects, the hash table cached_path keyed by the *)
(* name stored inside each path, the lock of the table, one lock per path, *)
(* and the threads of a program that create, share, change and destroy     *)
(* paths through the public functions.                                     *)
(*                                                                         *)
(* A path is allocated under a fresh number, so that an access to a freed  *)
(* path is visible, and so that a larger number means a younger path: the  *)
(* table inserts at the head of a chain, hence the first match of a chain  *)
(* is the youngest one.  A critical section that takes one lock and does   *)
(* not wait inside is a single step; a section that waits for a second     *)
(* lock while it holds the first is several.                               *)
(***************************************************************************)
EXTENDS Integers, FiniteSets

CONSTANTS
  Threads,    \* threads of the program
  NoThread,   \* "nobody holds this lock"
  Handles,    \* places of the program that can hold a pointer to a path
  NoHandle,
  Names,      \* path names; the ones in ValidNames parse
  ValidNames,
  NoName,
  Bucket,     \* chain of the hash table each name falls into
  MaxPaths,   \* bound: paths ever allocated; calloc() fails beyond it
  Ops         \* optional operations the program uses, and failing allocations

NoPath == 0
Paths  == 1..MaxPaths

ASSUME ConstantsAssumption ==
  /\ MaxPaths \in Nat
  /\ NoThread \notin Threads
  /\ NoHandle \notin Handles
  /\ NoName \notin Names
  /\ ValidNames \subseteq Names
  /\ IsFiniteSet(Handles)
  /\ Ops \subseteq {"ref", "clone", "mutate", "cache_lock", "hash_add_fails"}

VARIABLES
  allocated,          \* paths 1..allocated have been allocated
  freed,              \* the ones given back to free()
  refcount, name,     \* fields of each path
  mutex,              \* holder of each path's lock
  cached_path,        \* paths that have an entry in the table
  chain,              \* chain each path was put into when it was added
  cached_path_mutex,  \* holder of the table's lock
  cache,              \* the table: "none" before first use, "ready", "destroyed"
  handle,             \* path each handle points to
  pc, cur, slot, want \* per thread: step reached; path, handle, name in hand

pathVars  == <<allocated, freed, refcount, name>>
cacheVars == <<cached_path, chain, cache>>
lockVars  == <<mutex, cached_path_mutex>>
callVars  == <<pc, cur, slot, want>>
vars      == <<pathVars, cacheVars, lockVars, handle, callVars>>

-----------------------------------------------------------------------------
Live == (1..allocated) \ freed

\* Entries the table compares equal to name n: same chain, and the path of the
\* entry carries that name now.  The lookup returns the one nearest the head.
Matches_ChainOnly(n) == {p \in cached_path : chain[p] = Bucket[n]}
Matches(n)    == {p \in cached_path : chain[p] = Bucket[n] /\ name[p] = n}
FirstMatch(n) == CHOOSE p \in Matches(n) : \A q \in Matches(n) : q <= p

Idle(t)    == pc[t] = "idle"
Busy(h)    == \E t \in Threads : slot[t] = h
Holds(h)   == handle[h] # NoPath
Usable(h)  == handle[h] \in Live /\ ~Busy(h)
Vacant(h)  == ~Holds(h) /\ ~Busy(h)

\* What a call does on a path that has been freed is undefined and not followed
\* any further: PointersLive says whether such a call is possible at all.

\* A thread enters a function, moves on inside it, leaves it.
Call(t, l, p, h, n) ==
  /\ Idle(t)
  /\ pc'   = [pc EXCEPT ![t] = l]
  /\ cur'  = [cur EXCEPT ![t] = p]
  /\ slot' = [slot EXCEPT ![t] = h]
  /\ want' = [want EXCEPT ![t] = n]
Goto(t, l, p) ==
  /\ pc'  = [pc EXCEPT ![t] = l]
  /\ cur' = [cur EXCEPT ![t] = p]
  /\ UNCHANGED <<slot, want>>
Return(t) ==
  /\ pc'   = [pc EXCEPT ![t] = "idle"]
  /\ cur'  = [cur EXCEPT ![t] = NoPath]
  /\ slot' = [slot EXCEPT ![t] = NoHandle]
  /\ want' = [want EXCEPT ![t] = NoName]

\* References of a path, counted under its lock.
AddRef_Lost(p)  == UNCHANGED refcount
AddRef(p)       == refcount' = [refcount EXCEPT ![p] = @ + 1]
DropRef(p)      == refcount' = [refcount EXCEPT ![p] = @ - 1]

\* calloc() of a path that starts with one reference and the given name.
Allocate(n) ==
  /\ allocated < MaxPaths
  /\ allocated' = allocated + 1
  /\ name'      = [name EXCEPT ![allocated + 1] = n]
  /\ refcount'  = [refcount EXCEPT ![allocated + 1] = 1]

Init ==
  /\ allocated = 0 /\ freed = {}
  /\ refcount = [p \in Paths |-> 0]
  /\ name     = [p \in Paths |-> NoName]
  /\ mutex    = [p \in Paths |-> NoThread]
  /\ chain    = [p \in Paths |-> 0]
  /\ cached_path = {} /\ cache = "none" /\ cached_path_mutex = NoThread
  /\ handle = [h \in Handles |-> NoPath]
  /\ pc   = [t \in Threads |-> "idle"]
  /\ cur  = [t \in Threads |-> NoPath]
  /\ slot = [t \in Threads |-> NoHandle]
  /\ want = [t \in Threads |-> NoName]

-----------------------------------------------------------------------------
\* iodefv2_path_new_fast(): a lookup under the table's lock, and on a miss a
\* parse outside of it and an insertion under it.  The reference of the caller
\* is taken after the table's lock has been released, in TakeRef.

NewStart(t, h, n) ==
  /\ Vacant(h) /\ cache # "destroyed"
  /\ Call(t, "lookup", NoPath, h, n)
  /\ UNCHANGED <<pathVars, cacheVars, lockVars, handle>>

Lookup(t) ==
  /\ pc[t] = "lookup" /\ cached_path_mutex = NoThread
  /\ cache' = "ready"
  /\ IF Matches(want[t]) # {}
       THEN Goto(t, "take_ref", FirstMatch(want[t]))
       ELSE Goto(t, "miss", NoPath)
  /\ UNCHANGED <<pathVars, cached_path, chain, lockVars, handle>>

\* The name does not parse, or the path cannot be allocated.
NewFails(t) ==
  /\ pc[t] = "miss"
  /\ want[t] \notin ValidNames \/ allocated = MaxPaths
  /\ Return(t)
  /\ UNCHANGED <<pathVars, cacheVars, lockVars, handle>>

Publish(t) ==
  /\ pc[t] = "miss" /\ want[t] \in ValidNames /\ cached_path_mutex = NoThread
  /\ Allocate(want[t])
  /\ cached_path' = cached_path \cup {allocated + 1}
  /\ chain' = [chain EXCEPT ![allocated + 1] = Bucket[want[t]]]
  /\ Goto(t, "take_ref", allocated + 1)
  /\ UNCHANGED <<freed, cache, lockVars, handle>>

\* libiodefv2_hash_add() cannot allocate its entry: the path is freed, and the
\* value returned is the one parse_new() left, which is no error.
PublishFails(t) ==
  /\ pc[t] = "miss" /\ want[t] \in ValidNames /\ cached_path_mutex = NoThread
  /\ "hash_add_fails" \in Ops
  /\ Allocate(want[t])
  /\ freed'  = freed \cup {allocated + 1}
  /\ handle' = [handle EXCEPT ![slot[t]] = allocated + 1]
  /\ Return(t)
  /\ UNCHANGED <<cacheVars, lockVars>>

TakeRef(t) ==
  /\ pc[t] = "take_ref" /\ mutex[cur[t]] = NoThread
  /\ AddRef(cur[t])
  /\ handle' = [handle EXCEPT ![slot[t]] = cur[t]]
  /\ Return(t)
  /\ UNCHANGED <<allocated, freed, name, cacheVars, lockVars>>

-----------------------------------------------------------------------------
\* iodefv2_path_ref() and iodefv2_path_clone(), into another handle.
Ref(t, h, g) ==
  /\ "ref" \in Ops /\ Idle(t) /\ Usable(h) /\ Vacant(g)
  /\ mutex[handle[h]] = NoThread
  /\ AddRef(handle[h])
  /\ handle' = [handle EXCEPT ![g] = handle[h]]
  /\ UNCHANGED <<allocated, freed, name, cacheVars, lockVars, callVars>>

Clone_CountCopied(t, h, g) ==
  /\ "clone" \in Ops /\ Idle(t) /\ Usable(h) /\ Vacant(g)
  /\ allocated < MaxPaths /\ allocated' = allocated + 1
  /\ name' = [name EXCEPT ![allocated + 1] = name[handle[h]]]
  /\ refcount' = [refcount EXCEPT ![allocated + 1] = refcount[handle[h]]]
  /\ handle' = [handle EXCEPT ![g] = allocated + 1]
  /\ UNCHANGED <<freed, cacheVars, lockVars, callVars>>
Clone(t, h, g) ==
  /\ "clone" \in Ops /\ Idle(t) /\ Usable(h) /\ Vacant(g)
  /\ Allocate(name[handle[h]])
  /\ handle' = [handle EXCEPT ![g] = allocated + 1]
  /\ UNCHANGED <<freed, cacheVars, lockVars, callVars>>

\* iodefv2_path_destroy(): the path is freed after its lock has been released.
Destroy(t, h) ==
  LET p == handle[h] IN
  /\ Usable(h) /\ mutex[p] = NoThread
  /\ DropRef(p)
  /\ handle' = [handle EXCEPT ![h] = NoPath]
  /\ IF refcount[p] = 1
       THEN Call(t, "free", p, NoHandle, NoName)
       ELSE Idle(t) /\ UNCHANGED callVars
  /\ UNCHANGED <<allocated, freed, name, cacheVars, lockVars>>

Free(t) ==
  /\ pc[t] = "free"
  /\ freed' = freed \cup {cur[t]}
  /\ Return(t)
  /\ UNCHANGED <<allocated, refcount, name, cacheVars, lockVars, handle>>

-----------------------------------------------------------------------------
\* iodefv2_path_set_index(), _make_child() and _make_parent(): invalidate() the
\* path, then give it another name.  invalidate() counts the references under
\* the path's lock, and takes the table's lock while it holds the path's.
OnlyCaller_OrCached(p) == refcount[p] <= 2
OnlyCaller_Any(p)      == TRUE
OnlyCaller(p)          == refcount[p] = 1
Invalidate(t, h, n) ==
  LET p == handle[h] IN
  /\ "mutate" \in Ops /\ cache # "destroyed"
  /\ Usable(h) /\ mutex[p] = NoThread /\ n # name[p]
  /\ \/ OnlyCaller(p) /\ Call(t, "mutate", p, h, n) /\ UNCHANGED mutex
     \/ refcount[p] = 2 /\ Call(t, "uncache", p, h, n) /\ mutex' = [mutex EXCEPT ![p] = t]
     \/ refcount[p] > 2 /\ Idle(t) /\ UNCHANGED <<callVars, mutex>>
  /\ UNCHANGED <<pathVars, cacheVars, cached_path_mutex, handle>>

\* libiodefv2_hash_elem_destroy(cached_path, path) removes the first entry that
\* compares equal to the path's name.
RemoveEntry_Kept(p) == UNCHANGED cached_path
RemoveEntry(p)      == cached_path' = cached_path \ {p}
Uncache(t) ==
  LET p == cur[t] found == Matches(name[p]) IN
  /\ pc[t] = "uncache" /\ cached_path_mutex = NoThread
  /\ mutex' = [mutex EXCEPT ![p] = NoThread]
  /\ IF found # {}
       THEN /\ RemoveEntry(FirstMatch(name[p]))
            /\ DropRef(p)
            /\ Goto(t, "mutate", p)
       ELSE Return(t) /\ UNCHANGED <<cached_path, refcount>>
  /\ UNCHANGED <<allocated, freed, name, chain, cache, cached_path_mutex, handle>>

Mutate(t) ==
  /\ pc[t] = "mutate"
  /\ name' = [name EXCEPT ![cur[t]] = want[t]]
  /\ Return(t)
  /\ UNCHANGED <<allocated, freed, refcount, cacheVars, lockVars, handle>>

-----------------------------------------------------------------------------
\* _iodefv2_path_cache_lock() and _unlock(), for a program about to fork().
CacheLock(t) ==
  /\ "cache_lock" \in Ops /\ cached_path_mutex = NoThread
  /\ Call(t, "lock_paths", NoPath, NoHandle, NoName)
  /\ cached_path_mutex' = t
  /\ UNCHANGED <<pathVars, cacheVars, mutex, handle>>

LockPath(t, p) ==
  /\ pc[t] = "lock_paths" /\ p \in cached_path /\ mutex[p] = NoThread
  /\ mutex' = [mutex EXCEPT ![p] = t]
  /\ UNCHANGED <<pathVars, cacheVars, cached_path_mutex, handle, callVars>>

CacheUnlock_PathsOnly(t) ==
  /\ pc[t] = "lock_paths" /\ \A p \in cached_path : mutex[p] = t
  /\ mutex' = [p \in Paths |-> IF p \in cached_path THEN NoThread ELSE mutex[p]]
  /\ Return(t)
  /\ UNCHANGED <<pathVars, cacheVars, cached_path_mutex, handle>>
CacheUnlock(t) ==
  /\ pc[t] = "lock_paths" /\ \A p \in cached_path : mutex[p] = t
  /\ mutex' = [p \in Paths |-> IF p \in cached_path THEN NoThread ELSE mutex[p]]
  /\ cached_path_mutex' = NoThread
  /\ Return(t)
  /\ UNCHANGED <<pathVars, cacheVars, handle>>

\* _iodefv2_path_cache_destroy(), at the end of the program: it takes no lock,
\* so no other call is in progress.
CacheDestroy_NoFlush ==
  /\ cache = "ready" /\ \A t \in Threads : Idle(t)
  /\ cached_path' = {} /\ cache' = "destroyed"
  /\ UNCHANGED <<pathVars, chain, lockVars, handle, callVars>>
CacheDestroy ==
  /\ cache = "ready" /\ \A t \in Threads : Idle(t)
  /\ refcount' = [p \in Paths |->
                    IF p \in cached_path THEN refcount[p] - 1 ELSE refcount[p]]
  /\ freed' = freed \cup {p \in cached_path : refcount[p] = 1}
  /\ cached_path' = {} /\ cache' = "destroyed"
  /\ UNCHANGED <<allocated, name, chain, lockVars, handle, callVars>>

Finished ==
  /\ cache = "destroyed" /\ \A t \in Threads : Idle(t)
  /\ \A h \in Handles : ~Usable(h)
  /\ UNCHANGED vars

Step(t) ==
  \/ Lookup(t) \/ NewFails(t) \/ Publish(t) \/ PublishFails(t) \/ TakeRef(t)
  \/ Free(t) \/ Uncache(t) \/ Mutate(t)
  \/ CacheLock(t) \/ CacheUnlock(t) \/ \E p \in Paths : LockPath(t, p)
Request(t) ==
  \E h \in Handles :
    \/ \E n \in Names : NewStart(t, h, n) \/ Invalidate(t, h, n)
    \/ \E g \in Handles : Ref(t, h, g) \/ Clone(t, h, g)
    \/ Destroy(t, h)

Next == (\E t \in Threads : Request(t) \/ Step(t)) \/ CacheDestroy \/ Finished
Spec == Init /\ [][Next]_vars

\* A thread inside a call is scheduled again, and a lock it waits for, which
\* others keep taking and releasing, is granted to it in the end.
Progress(t) ==
  \/ Lookup(t) \/ NewFails(t) \/ Publish(t) \/ TakeRef(t) \/ Free(t)
  \/ Uncache(t) \/ Mutate(t) \/ CacheUnlock(t) \/ \E p \in Paths : LockPath(t, p)
FairSpec == Spec /\ \A t \in Threads : SF_vars(Progress(t))

-----------------------------------------------------------------------------
\* Type invariant: the fields of the paths, of the table and of the calls in
\* progress have the values their C types and the code allow.
TypeOK ==
  /\ allocated \in 0..MaxPaths
  /\ freed \subseteq Paths
  /\ refcount \in [Paths -> Int]
  /\ name \in [Paths -> Names \cup {NoName}]
  /\ mutex \in [Paths -> Threads \cup {NoThread}]
  /\ cached_path \subseteq Paths
  /\ cached_path_mutex \in Threads \cup {NoThread}
  /\ cache \in {"none", "ready", "destroyed"}
  /\ handle \in [Handles -> Paths \cup {NoPath}]
  /\ pc \in [Threads -> {"idle", "lookup", "miss", "take_ref", "free",
                         "uncache", "mutate", "lock_paths"}]
  /\ cur \in [Threads -> Paths \cup {NoPath}]
  /\ slot \in [Threads -> Handles \cup {NoHandle}]
  /\ want \in [Threads -> Names \cup {NoName}]

Holders(p) == {h \in Handles : handle[h] = p}

\* Every pointer to a path that the program, a call in progress or the table
\* can still follow leads to a path that has not been freed: create, ref,
\* invalidate and destroy never let the last reference go while one is in use.
PointersLive ==
  /\ \A h \in Handles : Holds(h) => handle[h] \in Live
  /\ \A t \in Threads : cur[t] # NoPath => cur[t] \in Live
  /\ cached_path \subseteq Live

\* The count of every live path is the number of handles that point to it plus
\* one for its entry in the table: no call loses or invents a reference.
RefcountExact ==
  \A p \in Live : refcount[p] =
    Cardinality(Holders(p)) + (IF p \in cached_path THEN 1 ELSE 0)

\* The table's keys live inside the paths: a path that has an entry still
\* carries the name it was filed under, so that the lookup can find it.
CacheKeyStable == \A p \in cached_path : chain[p] = Bucket[name[p]]

\* "We can modify the path only if the caller is the only entity that has
\* pointer to it" (comment of invalidate()): once invalidate() has agreed, no
\* other handle, no other call and no entry of the table shares the path.
MutatorIsSoleHolder ==
  \A t \in Threads : pc[t] = "mutate" =>
    /\ Holders(cur[t]) = {slot[t]}
    /\ cur[t] \notin cached_path
    /\ \A u \in Threads \ {t} : cur[u] # cur[t]

\* After the table has been destroyed nothing is left behind: a path that is
\* still allocated is one the program still holds.
NothingLeaked ==
  cache = "destroyed" /\ (\A t \in Threads : Idle(t))
    => \A p \in Live : Holders(p) # {}

\* The three together, for programs whose paths change: no sequence of clones,
\* changes and releases leaves a pointer to a freed path, a count that is off or
\* a path nobody can free.
SoundCache == PointersLive /\ RefcountExact /\ NothingLeaked

\* The path new() is about to reference and hand out is the one it was asked for
\* ("Creates a path object pointing to buffer"), although the table's lock was
\* released after the lookup.
NewFindsRequested ==
  \A t \in Threads : pc[t] = "take_ref" => name[cur[t]] = want[t]

\* Every call returns: no thread waits for ever for the table or a path, although
\* _cache_lock() holds the table's lock while it waits for the paths'.
CallsReturn == \A t \in Threads : pc[t] # "idle" ~> pc[t] = "idle"

\* The handles as PathValues sees them: the value of a handle is the name of
\* the path it points to, and it is asked for while new() works for it.
valueOf == [h \in Handles |-> IF Holds(h) THEN name[handle[h]] ELSE NoName]
CreatesFor(t, h) == slot[t] = h /\ pc[t] \in {"lookup", "miss", "take_ref"}
askedOf == [h \in Handles |->
  IF \E t \in Threads : CreatesFor(t, h)
    THEN want[CHOOSE t \in Threads : CreatesFor(t, h)]
    ELSE NoName]

Store == INSTANCE PathValues WITH value <- valueOf, asked <- askedOf

\* Reference counts, cache and locks together give every handle a value of its
\* own: new() answers with the name it was asked for, and a mutator changes the
\* path of no other handle.
ValueSemantics == Store!Spec
=============================================================================
