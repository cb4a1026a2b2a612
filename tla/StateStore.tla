------------------------------ MODULE StateStore ------------------------------
(***************************************************************************)
(* A state store as the processors use it, through the interface of        *)
(* src/statestore/state_store.go.                                          *)
(*                                                                         *)
(* The store follows the contract StateStoreSpec, which the in-memory      *)
(* store implements: entries vanish when they lapse.  The Redis store      *)
(* (src/statestore/redis_store.go) can also fail: StoreFaults names the    *)
(* operations that may.  A store is a function from the keys present to    *)
(* entries; a processor keeps its own in a variable of its module.         *)
(***************************************************************************)
EXTENDS Naturals, Functions

CONSTANTS TTL,         \* the ttl every processor passes to Set: time.Hour
          MaxTime,     \* bound on the clock, for model checking
          StoreFaults, \* the operations that may fail: {} for InMemoryStateStore
          SharedStore, \* whether other processors use the same store
          Foreign      \* a message of another type that one of them stored

ASSUME StoreAssumption == /\ TTL \in Nat
                          /\ MaxTime \in Nat
                          /\ StoreFaults \subseteq {"get", "set", "delete"}
                          /\ SharedStore \in BOOLEAN

VARIABLE now           \* the wall clock

EmptyStore == [k \in {} |-> [msg |-> {}, expiration |-> 0]]

Entry(Message) == [msg : Message, expiration : Nat]

IsStore(store, Key, Message) ==
  /\ DOMAIN store \subseteq Key
  /\ \A k \in DOMAIN store : store[k] \in Entry(Message)

-----------------------------------------------------------------------------
(* The values of "found" a Get may return.  An error of the Redis client,   *)
(* or bytes that do not unmarshal, are reported as "not found".             *)
Get(store, k) ==
  {k \in DOMAIN store} \cup (IF "get" \in StoreFaults THEN {FALSE} ELSE {})

Put(store, k, m) ==
  [j \in DOMAIN store \cup {k} |->
     IF j = k THEN [msg |-> m, expiration |-> now + TTL] ELSE store[j]]

(* The outcomes of a Set.  A Set that reports an error may have reached the *)
(* Redis server or not.                                                     *)
Set(store, k, m) ==
  LET done == [ok |-> TRUE, applied |-> TRUE, store |-> Put(store, k, m)]
      unheard == [ok |-> FALSE, applied |-> TRUE, store |-> Put(store, k, m)]
      lost == [ok |-> FALSE, applied |-> FALSE, store |-> store]
  IN {done} \cup (IF "set" \in StoreFaults THEN {unheard, lost} ELSE {})

(* Mutant of Delete: the entry stays. *)
DeleteNothing(store, k) == {store}

(* The outcomes of a Delete, whose error nobody sees. *)
Delete(store, k) ==
  {Restrict(store, DOMAIN store \ {k})}
    \cup (IF "delete" \in StoreFaults THEN {store} ELSE {})

(* What a process finds when it starts again: a Redis store keeps its       *)
(* entries, an in-memory store has none.                                    *)
Reopened(store) == {store, EmptyStore}

(* Mutant of Lapse: entries never expire. *)
LapseNever(store) == store

(* What is left of a store when the clock has advanced. *)
Lapse(store) ==
  Restrict(store, {k \in DOMAIN store : store[k].expiration >= now + 1})
=============================================================================
