----------------------------- MODULE IndexPool -----------------------------
(***************************************************************************)
(* The pool of indices that request blocks and I/O buffers are taken from   *)
(* (ipc/SharedIndexedMemPool.h): free indices are in bounded local lists,   *)
(* chained by localNext, whose overflow goes as a whole to a global list of *)
(* lists, chained by globalNext.  Both are popped and pushed by compare-    *)
(* and-swap on a tagged head.                                               *)
(*                                                                          *)
(* A successful compare-and-swap always changes the tag, so that the next   *)
(* one of a thread succeeds exactly if the head has not been changed since  *)
(* the thread read it.  That is what the model keeps of the 24 bits of the  *)
(* tag: who has read a head that is still current.                          *)
(***************************************************************************)
EXTENDS Naturals, FiniteSets

CONSTANTS Users, Lists,
          Limit,       \* localListLimit_
          Capacity     \* the capacity asked for

ActualCapacity_NoExtra == Capacity
\* maxIndexForCapacity: room for what may be out of reach in the other lists.
ActualCapacity == Capacity + (Cardinality(Lists) - 1) * Limit
Indices == 1..ActualCapacity
Allocated == ActualCapacity + 1    \* uint32_t(-1) in localNext
NoList == "none"

VARIABLES size,         \* indices ever handed out; may pass ActualCapacity
          local,        \* per list: its head and its size
          global,       \* the head of the global list
          localNext, globalNext,
          current,      \* threads that read the head of their list as it still is
          gcurrent,     \* threads that read the global head as it still is
          held,         \* per thread: the indices it allocated
          pc, op, list, \* op: "alloc" or "recycle"; list: the stripe chosen for it
          h, g, next,   \* the heads a thread read, and the successor
          idx,          \* the index a thread has taken or gives back
          alone         \* history: the thread whose operation nobody else's overlaps

shared == <<size, local, global, localNext, globalNext>>
vars == <<shared, current, gcurrent, held, pc, op, list, h, g, next, idx, alone>>

Empty == [idx |-> 0, size |-> 0]

Init ==
    /\ size = 0
    /\ local = [s \in Lists |-> Empty]
    /\ global = 0
    /\ localNext = [i \in Indices |-> 0] /\ globalNext = localNext
    /\ current = {} /\ gcurrent = {}
    /\ held = [t \in Users |-> {}]
    /\ pc = [t \in Users |-> "idle"] /\ op = [t \in Users |-> "alloc"]
    /\ list = [t \in Users |-> NoList]
    /\ h = [t \in Users |-> Empty]
    /\ g = [t \in Users |-> 0] /\ next = g /\ idx = g
    /\ alone = {}

Goto(t, p) ==
    /\ pc' = [pc EXCEPT ![t] = p]
    /\ alone' = IF (pc[t] = "idle" \/ t \in alone) /\ \A u \in Users \ {t} : pc[u] = "idle"
                THEN {t} ELSE {}

\* Locals that go out of scope are reset.
Return(t) ==
    /\ pc' = [pc EXCEPT ![t] = "idle"] /\ op' = [op EXCEPT ![t] = "alloc"]
    /\ alone' = {}
    /\ list' = [list EXCEPT ![t] = NoList]
    /\ h' = [h EXCEPT ![t] = Empty] /\ g' = [g EXCEPT ![t] = 0]
    /\ next' = [next EXCEPT ![t] = 0] /\ idx' = [idx EXCEPT ![t] = 0]

locals == <<op, list, h, g, next, idx>>
Forget(t) == g' = [g EXCEPT ![t] = 0] /\ next' = [next EXCEPT ![t] = 0]

SwapLocal_NoTag(t, new) ==
    /\ local[list[t]].idx = h[t].idx
    /\ local' = [local EXCEPT ![list[t]] = new]
    /\ current' = {u \in current : list[u] # list[t]}

\* compare_exchange_strong on the head of t's list: it succeeds if t's value is current.
SwapLocal(t, new) ==
    /\ t \in current
    /\ local' = [local EXCEPT ![list[t]] = new]
    /\ current' = {u \in current : list[u] # list[t]}

SwapGlobal(t, new) ==
    /\ t \in gcurrent
    /\ global' = new
    /\ gcurrent' = {}

ReadLocal(t) ==
    /\ h' = [h EXCEPT ![t] = local[list[t]]]
    /\ current' = current \cup {t}

ReadGlobal(t) ==
    /\ g' = [g EXCEPT ![t] = global]
    /\ gcurrent' = gcurrent \cup {t}

\* allocIndex and recycleIndex use the list of the processor they run on.
AllocIndex(t) ==
    /\ pc[t] = "idle"
    /\ \E s \in Lists : list' = [list EXCEPT ![t] = s]
    /\ Goto(t, "pop")
    /\ UNCHANGED <<shared, current, gcurrent, held, op, h, g, next, idx>>

RecycleIndex(t) ==
    /\ pc[t] = "idle"
    /\ \E s \in Lists : list' = [list EXCEPT ![t] = s]
    /\ \E i \in held[t] :
         /\ idx' = [idx EXCEPT ![t] = i]
         /\ held' = [held EXCEPT ![t] = @ \ {i}]
    /\ op' = [op EXCEPT ![t] = "recycle"]
    /\ Goto(t, "push")
    /\ UNCHANGED <<shared, current, gcurrent, h, g, next>>

\* localPop
PopLoad(t) ==
    /\ pc[t] = "pop"
    /\ ReadLocal(t)
    /\ Goto(t, IF local[list[t]].idx # 0 THEN "popNext" ELSE "gpop")
    /\ UNCHANGED <<shared, gcurrent, held, op, list, g, next, idx>>

PopNext(t) ==
    /\ pc[t] = "popNext"
    /\ next' = [next EXCEPT ![t] = localNext[h[t].idx]]
    /\ Goto(t, "popSwap")
    /\ UNCHANGED <<shared, current, gcurrent, held, op, list, h, g, idx>>

Popped_SameSize(t) == [idx |-> next[t], size |-> h[t].size]
Popped(t) == [idx |-> next[t], size |-> h[t].size - 1]

PopSwap(t) ==
    /\ pc[t] = "popSwap"
    /\ \/ /\ SwapLocal(t, Popped(t))
          /\ idx' = [idx EXCEPT ![t] = h[t].idx]
          /\ Goto(t, "mark")
       \/ /\ t \notin current
          /\ Goto(t, "pop")
          /\ UNCHANGED <<local, current, idx>>
    /\ Forget(t)
    /\ UNCHANGED <<size, global, localNext, globalNext, gcurrent, held, op, list, h>>

\* globalPop
GlobalPopLoad(t) ==
    /\ pc[t] = "gpop"
    /\ ReadGlobal(t)
    /\ Goto(t, IF global # 0 THEN "gpopNext" ELSE "grow")
    /\ UNCHANGED <<shared, current, held, op, list, h, next, idx>>

GlobalPopNext(t) ==
    /\ pc[t] = "gpopNext"
    /\ next' = [next EXCEPT ![t] = globalNext[g[t]]]
    /\ Goto(t, "gpopSwap")
    /\ UNCHANGED <<shared, current, gcurrent, held, op, list, h, g, idx>>

GlobalPopSwap(t) ==
    /\ pc[t] = "gpopSwap"
    /\ \/ /\ SwapGlobal(t, next[t])
          /\ idx' = [idx EXCEPT ![t] = g[t]]
          /\ Goto(t, "bulk")
       \/ /\ t \notin gcurrent
          /\ Goto(t, "gpop")
          /\ UNCHANGED <<global, gcurrent, idx>>
    /\ Forget(t)
    /\ UNCHANGED <<size, local, localNext, globalNext, current, held, op, list, h>>

\* Nothing is free: an index that was never handed out, if there is one.
GrowLoad(t) ==
    /\ pc[t] = "grow"
    /\ \/ /\ size >= ActualCapacity
          /\ Goto(t, "fail")
       \/ /\ size < ActualCapacity
          /\ Goto(t, "growAdd")
    /\ UNCHANGED <<shared, current, gcurrent, held, locals>>

GrowAdd(t) ==
    /\ pc[t] = "growAdd"
    /\ size' = size + 1
    /\ \/ /\ size' > ActualCapacity
          /\ Goto(t, "fail")
          /\ UNCHANGED idx
       \/ /\ size' <= ActualCapacity
          /\ idx' = [idx EXCEPT ![t] = size']
          /\ Goto(t, "mark")
    /\ UNCHANGED <<local, global, localNext, globalNext, current, gcurrent, held, op, list, h, g, next>>

\* allocIndex returns 0.
Fail(t) ==
    /\ pc[t] = "fail"
    /\ Return(t)
    /\ current' = current \ {t} /\ gcurrent' = gcurrent \ {t}
    /\ UNCHANGED <<shared, held>>

\* The list taken from the global one becomes the local one, but for its head.
BulkNext(t) ==
    /\ pc[t] = "bulk"
    /\ next' = [next EXCEPT ![t] = localNext[idx[t]]]
    /\ Goto(t, "bulkSwap")
    /\ UNCHANGED <<shared, current, gcurrent, held, op, list, h, g, idx>>

BulkSwap(t) ==
    /\ pc[t] = "bulkSwap"
    /\ \/ /\ SwapLocal(t, [idx |-> next[t], size |-> Limit])
          /\ Goto(t, "mark")
       \/ /\ t \notin current
          /\ Goto(t, "gpush")
          /\ UNCHANGED <<local, current>>
    /\ Forget(t)
    /\ UNCHANGED <<size, global, localNext, globalNext, gcurrent, held, op, list, h, idx>>

MarkAllocated(t) ==
    /\ pc[t] = "mark"
    /\ localNext' = [localNext EXCEPT ![idx[t]] = Allocated]
    /\ held' = [held EXCEPT ![t] = @ \cup {idx[t]}]
    /\ Return(t)
    /\ current' = current \ {t} /\ gcurrent' = gcurrent \ {t}
    /\ UNCHANGED <<size, local, global, globalNext>>

\* localPush
PushLoad(t) ==
    /\ pc[t] = "push"
    /\ ReadLocal(t)
    /\ Goto(t, "pushNext")
    /\ UNCHANGED <<shared, gcurrent, held, op, list, g, next, idx>>

PushNext(t) ==
    /\ pc[t] = "pushNext"
    /\ localNext' = [localNext EXCEPT ![idx[t]] = h[t].idx]
    /\ Goto(t, "pushSwap")
    /\ UNCHANGED <<size, local, global, globalNext, current, gcurrent, held, locals>>

PushSwap(t) ==
    /\ pc[t] = "pushSwap"
    /\ \/ /\ h[t].size = Limit
          /\ SwapLocal(t, Empty)
          /\ Goto(t, "gpush")
          /\ UNCHANGED locals
       \/ /\ h[t].size # Limit
          /\ SwapLocal(t, [idx |-> idx[t], size |-> h[t].size + 1])
          /\ Return(t)
       \/ /\ t \notin current
          /\ ReadLocal(t)
          /\ Goto(t, "pushNext")
          /\ UNCHANGED <<local, op, list, g, next, idx>>
    /\ UNCHANGED <<size, global, localNext, globalNext, gcurrent, held>>

\* globalPush of the list that starts at idx.
GlobalPushLoad(t) ==
    /\ pc[t] = "gpush"
    /\ ReadGlobal(t)
    /\ Goto(t, "gpushNext")
    /\ UNCHANGED <<shared, current, held, op, list, h, next, idx>>

GlobalPushNext(t) ==
    /\ pc[t] = "gpushNext"
    /\ globalNext' = [globalNext EXCEPT ![idx[t]] = g[t]]
    /\ Goto(t, "gpushSwap")
    /\ UNCHANGED <<size, local, global, localNext, current, gcurrent, held, locals>>

GlobalPushSwap(t) ==
    /\ pc[t] = "gpushSwap"
    /\ \/ /\ SwapGlobal(t, idx[t])
          /\ \/ op[t] = "recycle" /\ Return(t)
             \/ /\ op[t] = "alloc" /\ Goto(t, "pop")
                /\ Forget(t) /\ idx' = [idx EXCEPT ![t] = 0] /\ UNCHANGED <<op, list, h>>
       \/ /\ t \notin gcurrent
          /\ Goto(t, "gpush")
          /\ Forget(t)
          /\ UNCHANGED <<global, gcurrent, op, list, h, idx>>
    /\ UNCHANGED <<size, local, localNext, globalNext, current, held>>

Step(t) ==
    \/ AllocIndex(t) \/ RecycleIndex(t)
    \/ PopLoad(t) \/ PopNext(t) \/ PopSwap(t)
    \/ GlobalPopLoad(t) \/ GlobalPopNext(t) \/ GlobalPopSwap(t)
    \/ GrowLoad(t) \/ GrowAdd(t) \/ Fail(t)
    \/ BulkNext(t) \/ BulkSwap(t) \/ MarkAllocated(t)
    \/ PushLoad(t) \/ PushNext(t) \/ PushSwap(t)
    \/ GlobalPushLoad(t) \/ GlobalPushNext(t) \/ GlobalPushSwap(t)

Next == \E t \in Users : Step(t)
Spec == Init /\ [][Next]_vars

-----------------------------------------------------------------------------
(* Properties *)

Places == {"idle", "pop", "popNext", "popSwap", "gpop", "gpopNext", "gpopSwap", "grow",
           "growAdd", "fail", "bulk", "bulkSwap", "mark", "push", "pushNext", "pushSwap",
           "gpush", "gpushNext", "gpushSwap"}

\* Variables keep their types; size_ passes the capacity by at most one per thread, and
\* withSizeDecr never meets a list of size 0.
TypeOK ==
    /\ size \in 0..ActualCapacity + Cardinality(Users)
    /\ local \in [Lists -> [idx : 0..ActualCapacity, size : 0..Limit]]
    /\ global \in 0..ActualCapacity
    /\ localNext \in [Indices -> 0..Allocated] /\ globalNext \in [Indices -> 0..ActualCapacity]
    /\ current \subseteq Users /\ gcurrent \subseteq Users
    /\ held \in [Users -> SUBSET Indices]
    /\ pc \in [Users -> Places] /\ op \in [Users -> {"alloc", "recycle"}]
    /\ list \in [Users -> Lists \cup {NoList}]
    /\ h \in [Users -> [idx : 0..ActualCapacity, size : 0..Limit]]
    /\ g \in [Users -> 0..ActualCapacity] /\ idx \in [Users -> 0..ActualCapacity]
    /\ next \in [Users -> 0..Allocated] /\ alone \subseteq Users

\* The nodes of the list that starts at i: 0 is one of them if it is properly ended.
Nodes(succ, i) ==
    LET reach[n \in 0..ActualCapacity] ==
          IF n = 0 THEN {i}
          ELSE reach[n - 1] \cup {succ[j] : j \in reach[n - 1] \cap Indices}
    IN reach[ActualCapacity]

Chain(i) == Nodes(localNext, i)
LocalNodes(s) == Chain(local[s].idx)
GlobalHeads == Nodes(globalNext, global)

\* What a thread has taken out of a list, or not yet put into one.
InHand(t) ==
    CASE pc[t] \in {"bulk", "bulkSwap", "gpush", "gpushNext", "gpushSwap"} -> Chain(idx[t]) \ {0}
      [] pc[t] \in {"mark", "push", "pushNext", "pushSwap"} -> {idx[t]}
      [] OTHER -> {}

Owners(i) ==
    {<<"local", s>> : s \in {s \in Lists : i \in LocalNodes(s)}}
      \cup {<<"global", j>> : j \in {j \in GlobalHeads \ {0} : i \in Chain(j)}}
      \cup {<<"hand", t>> : t \in {t \in Users : i \in InHand(t)}}
      \cup {<<"held", t>> : t \in {t \in Users : i \in held[t]}}

\* An index that was ever handed out is in one list, or with one thread, and nowhere
\* else, and no list runs into an allocated one: what one thread was given is never given to another, and none is lost,
\* whatever was popped and pushed between a thread's read of a head and its
\* compare-and-swap.
OneOwner ==
    /\ \A i \in Indices : Cardinality(Owners(i)) = IF i <= size THEN 1 ELSE 0
    /\ \A s \in Lists : Allocated \notin LocalNodes(s)

\* The size in the head of a local list is its length, also after a list of the
\* global one, whose length nobody recorded, has become the local list.
SizeIsLength ==
    \A s \in Lists : 0 \in LocalNodes(s) /\ Cardinality(LocalNodes(s) \ {0}) = local[s].size

\* "can allocate at least _capacity_ elements, even if all the local lists are full"
\* (SharedIndexedMemPool.h:101): an allocation that nobody disturbs fails only if
\* Capacity indices are in use, however the free ones came to lie in the lists.
FailsOnlyFull ==
    \A t \in alone :
      pc[t] = "fail" => Cardinality(UNION {held[u] : u \in Users}) >= Capacity
=============================================================================
