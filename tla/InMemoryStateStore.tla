-------------------------- MODULE InMemoryStateStore --------------------------
(***************************************************************************)
(* The in-memory state store, src/statestore/in_memory_store.go: a Go map  *)
(* guarded by a mutex, with an expiry goroutine that sweeps it.            *)
(*                                                                         *)
(* A client goroutine invokes an operation, waits for the mutex and runs   *)
(* its critical section in one step.  The sweeper reads the clock once,    *)
(* then deletes entry by entry while it holds the mutex and the clock goes *)
(* on.  The mutex is held across steps by the sweeper only.                *)
(***************************************************************************)
EXTENDS Naturals, FiniteSets, Functions

CONSTANTS Client, Key, Message, Nil,
          TTL,       \* s.ttl, the store's default time to live
          TTLArgs,   \* the ttl arguments callers pass to Set; 0 asks for TTL
          MaxTime    \* bound on the clock, for model checking

ASSUME StoreAssumption == /\ TTL \in Nat /\ TTL > 0
                          /\ TTLArgs \subseteq Nat
                          /\ MaxTime \in Nat
                          /\ Nil \notin Message

VARIABLES now,       \* time.Now()
          states,    \* s.states, a function from the keys in the map
          done,      \* s.done is closed
          sweeper,   \* the expire goroutine: "waiting", "sweeping" or "stopped"
          sweepNow,  \* its local variable now
          toVisit,   \* the keys its range loop has still to visit
          call,      \* call[c]: the operation client c is in, or NoCall
          reply      \* reply[c]: the result of the last Get of client c

vars == <<now, states, done, sweeper, sweepNow, toVisit, call, reply>>

NoCall == [op |-> "none"]

Call == [op : {"Get", "Delete"}, key : Key]
          \cup [op : {"Set"}, key : Key, msg : Message, ttl : TTLArgs]

Absent == [msg |-> Nil, found |-> FALSE]

State == [msg : Message, expiration : Nat]

Reply == [msg : Message, found : {TRUE}] \cup {Absent}

TypeOK ==
  /\ now \in Nat
  /\ DOMAIN states \subseteq Key
  /\ \A k \in DOMAIN states : states[k] \in State
  /\ done \in BOOLEAN
  /\ sweeper \in {"waiting", "sweeping", "stopped"}
  /\ sweepNow \in Nat
  /\ toVisit \subseteq Key
  /\ call \in [Client -> Call \cup {NoCall}]
  /\ reply \in [Client -> Reply]

Init ==
  /\ now = 0
  /\ states = [k \in {} |-> Nil]
  /\ done = FALSE
  /\ sweeper = "waiting"
  /\ sweepNow = 0
  /\ toVisit = {}
  /\ call = [c \in Client |-> NoCall]
  /\ reply = [c \in Client |-> Absent]

-----------------------------------------------------------------------------
(* Mutant of MutexFree: the sweeper does not take the mutex. *)
MutexIgnored == TRUE

(* The mutex: the sweeper holds it between Lock and Unlock. *)
MutexFree == sweeper # "sweeping"

(* state.expiration.Before(t) *)
Expired(k, t) == states[k].expiration < t

Invoke(c) ==
  /\ call[c] = NoCall
  /\ \E op \in Call : call' = [call EXCEPT ![c] = op]
  /\ UNCHANGED <<now, states, done, sweeper, sweepNow, toVisit, reply>>

(* Mutant of Get: the message of a lapsed entry leaks. *)
GetLeaksLapsed(c) ==
  /\ call[c].op = "Get" /\ MutexFree
  /\ LET k == call[c].key
     IN reply' = [reply EXCEPT ![c] =
                    IF k \notin DOMAIN states
                      THEN Absent
                      ELSE [msg |-> states[k].msg, found |-> ~Expired(k, now)]]
  /\ call' = [call EXCEPT ![c] = NoCall]
  /\ UNCHANGED <<now, states, done, sweeper, sweepNow, toVisit>>

(* Get treats an entry that has lapsed and is not swept yet as absent. *)
Get(c) ==
  /\ call[c].op = "Get" /\ MutexFree
  /\ LET k == call[c].key
     IN reply' = [reply EXCEPT ![c] =
                    IF k \notin DOMAIN states \/ Expired(k, now)
                      THEN Absent
                      ELSE [msg |-> states[k].msg, found |-> TRUE]]
  /\ call' = [call EXCEPT ![c] = NoCall]
  /\ UNCHANGED <<now, states, done, sweeper, sweepNow, toVisit>>

EffectiveTTL(ttl) == IF ttl = 0 THEN TTL ELSE ttl

Set(c) ==
  /\ call[c].op = "Set" /\ MutexFree
  /\ LET k == call[c].key
     IN states' = [j \in DOMAIN states \cup {k} |->
                     IF j = k
                       THEN [msg |-> call[c].msg,
                             expiration |-> now + EffectiveTTL(call[c].ttl)]
                       ELSE states[j]]
  /\ call' = [call EXCEPT ![c] = NoCall]
  /\ UNCHANGED <<now, done, sweeper, sweepNow, toVisit, reply>>

Delete(c) ==
  /\ call[c].op = "Delete" /\ MutexFree
  /\ states' = Restrict(states, DOMAIN states \ {call[c].key})
  /\ call' = [call EXCEPT ![c] = NoCall]
  /\ UNCHANGED <<now, done, sweeper, sweepNow, toVisit, reply>>

(* Close stops the sweeper only; the map stays usable. *)
Close ==
  /\ ~done
  /\ done' = TRUE
  /\ UNCHANGED <<now, states, sweeper, sweepNow, toVisit, call, reply>>

-----------------------------------------------------------------------------
(* Mutant of SweepStart: the clock is read before the loop, not per sweep. *)
SweepStartStaleClock ==
  /\ sweeper = "waiting"
  /\ sweeper' = "sweeping"
  /\ toVisit' = DOMAIN states
  /\ UNCHANGED <<now, states, done, sweepNow, call, reply>>

(* The expire goroutine.  The ticker may fire in any waiting state: its     *)
(* period is abstracted.  When both the ticker and done are ready, select   *)
(* picks either.                                                            *)
SweepStart ==
  /\ sweeper = "waiting"
  /\ sweeper' = "sweeping"
  /\ sweepNow' = now
  /\ toVisit' = DOMAIN states
  /\ UNCHANGED <<now, states, done, call, reply>>

(* Mutant of SweepKey: an entry in its last instant is taken for lapsed. *)
SweepKeyEarly(k) ==
  /\ sweeper = "sweeping" /\ k \in toVisit
  /\ toVisit' = toVisit \ {k}
  /\ states' = IF states[k].expiration <= sweepNow
                 THEN Restrict(states, DOMAIN states \ {k})
                 ELSE states
  /\ UNCHANGED <<now, done, sweeper, sweepNow, call, reply>>

(* One iteration of the range loop. *)
SweepKey(k) ==
  /\ sweeper = "sweeping" /\ k \in toVisit
  /\ toVisit' = toVisit \ {k}
  /\ states' = IF Expired(k, sweepNow)
                 THEN Restrict(states, DOMAIN states \ {k})
                 ELSE states
  /\ UNCHANGED <<now, done, sweeper, sweepNow, call, reply>>

(* Mutant of SweepEnd: the goroutine returns on done with the mutex held. *)
SweepEndKeepsLock ==
  /\ sweeper = "sweeping" /\ toVisit = {} /\ ~done
  /\ sweeper' = "waiting"
  /\ UNCHANGED <<now, states, done, sweepNow, toVisit, call, reply>>

SweepEnd ==
  /\ sweeper = "sweeping" /\ toVisit = {}
  /\ sweeper' = "waiting"
  /\ UNCHANGED <<now, states, done, sweepNow, toVisit, call, reply>>

SweeperStop ==
  /\ sweeper = "waiting" /\ done
  /\ sweeper' = "stopped"
  /\ UNCHANGED <<now, states, done, sweepNow, toVisit, call, reply>>

Tick ==
  /\ now < MaxTime
  /\ now' = now + 1
  /\ UNCHANGED <<states, done, sweeper, sweepNow, toVisit, call, reply>>

-----------------------------------------------------------------------------
Next == \/ \E c \in Client : Invoke(c) \/ Get(c) \/ Set(c) \/ Delete(c)
        \/ Close
        \/ SweepStart \/ (\E k \in Key : SweepKey(k)) \/ SweepEnd \/ SweeperStop
        \/ Tick

Spec == Init /\ [][Next]_vars

(* Fairness.  The goroutines run: each sweeper step is weakly fair, and so  *)
(* is the ticker.  A client's critical section is strongly fair, since      *)
(* sync.RWMutex does not starve a waiter although the sweeper takes the     *)
(* mutex again and again.                                                   *)
SweeperFairness == WF_vars(SweepStart) /\ WF_vars(\E k \in Key : SweepKey(k))
                     /\ WF_vars(SweepEnd) /\ WF_vars(SweeperStop)

ClientFairness == \A c \in Client : SF_vars(Get(c) \/ Set(c) \/ Delete(c))

FairSpec == Spec /\ SweeperFairness /\ ClientFairness

-----------------------------------------------------------------------------
(* The sweeper's clock is never ahead of the time, and while it holds the   *)
(* mutex its range loop only meets keys that are in the map.                *)
SweepInv == /\ sweepNow <= now
            /\ sweeper = "sweeping" => toVisit \subseteq DOMAIN states

(* The refinement mapping: the abstract map holds the entries that have not *)
(* lapsed, whether or not the sweeper has been there.                       *)
LiveKeys == {k \in DOMAIN states : ~Expired(k, now)}

Contract == INSTANCE StateStoreSpec WITH entries <- Restrict(states, LiveKeys)

(* The store implements the contract: Get never returns an entry that has   *)
(* lapsed, however late the sweeper is, and the sweeper, whose clock is     *)
(* stale by the time it deletes, never removes an entry that is still live, *)
(* since the contract lets only a client's Delete do so.                    *)
ImplementsContract == Contract!SpecSpec

(* Every call returns, however often the sweeper takes the mutex, and also  *)
(* after Close.                                                             *)
CallsReturn == \A c \in Client : (call[c] # NoCall) ~> (call[c] = NoCall)

(* Memory is reclaimed: an entry that has lapsed and is not written again   *)
(* leaves the map, unless the store is closed.                              *)
LapsedIsSwept ==
  \A k \in Key : (k \in DOMAIN states /\ Expired(k, now))
                   ~> (done \/ k \notin DOMAIN states \/ ~Expired(k, now))
=============================================================================
