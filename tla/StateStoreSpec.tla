---------------------------- MODULE StateStoreSpec ----------------------------
(***************************************************************************)
(* What a StateStore (src/statestore/state_store.go) promises the          *)
(* processors that keep their state in it: a map whose entries vanish, by  *)
(* themselves and at once, when their time to live has passed, and which   *)
(* nothing else changes but the calls of its clients, each taking effect   *)
(* once between its invocation and its return.                             *)
(*                                                                         *)
(* There are no locks, no sweeper and no stale entries here.               *)
(* InMemoryStateStore is shown to implement this specification.            *)
(***************************************************************************)
EXTENDS Naturals, Functions

CONSTANTS Client,    \* goroutines that call the store
          Key,       \* keys (strings in the code)
          Message,   \* protobuf messages the processors store
          Nil,       \* "no message": what Get returns when nothing is found
          TTL,       \* the store's default time to live
          TTLArgs    \* the ttl arguments callers pass to Set; 0 asks for TTL

VARIABLES now,       \* the wall clock
          entries,   \* the map: a function from the keys present
          call,      \* call[c]: the operation client c is in, or SpecNoCall
          reply      \* reply[c]: the result of the last Get of client c

specVars == <<now, entries, call, reply>>

SpecNoCall == [op |-> "none"]

SpecCall == [op : {"Get", "Delete"}, key : Key]
              \cup [op : {"Set"}, key : Key, msg : Message, ttl : TTLArgs]

SpecAbsent == [msg |-> Nil, found |-> FALSE]

SpecInit == /\ now = 0
            /\ entries = [k \in {} |-> Nil]
            /\ call = [c \in Client |-> SpecNoCall]
            /\ reply = [c \in Client |-> SpecAbsent]

SpecInvoke(c) ==
  /\ call[c] = SpecNoCall
  /\ \E op \in SpecCall : call' = [call EXCEPT ![c] = op]
  /\ UNCHANGED <<now, entries, reply>>

SpecReturn(c) == call' = [call EXCEPT ![c] = SpecNoCall]

(* Get answers with the message of an unexpired entry and with nothing else. *)
SpecGet(c) ==
  /\ call[c].op = "Get"
  /\ LET k == call[c].key
     IN reply' = [reply EXCEPT ![c] = IF k \in DOMAIN entries
                    THEN [msg |-> entries[k].msg, found |-> TRUE]
                    ELSE SpecAbsent]
  /\ SpecReturn(c)
  /\ UNCHANGED <<now, entries>>

(* Set replaces the entry and restarts its time to live. *)
SpecSet(c) ==
  /\ call[c].op = "Set"
  /\ LET k == call[c].key
         ttl == IF call[c].ttl = 0 THEN TTL ELSE call[c].ttl
     IN entries' = [j \in DOMAIN entries \cup {k} |->
                      IF j = k THEN [msg |-> call[c].msg, expiration |-> now + ttl]
                               ELSE entries[j]]
  /\ SpecReturn(c)
  /\ UNCHANGED <<now, reply>>

SpecDelete(c) == /\ call[c].op = "Delete"
                 /\ entries' = Restrict(entries, DOMAIN entries \ {call[c].key})
                 /\ SpecReturn(c)
                 /\ UNCHANGED <<now, reply>>

(* When the clock advances, the entries whose time has passed are gone. *)
SpecTick ==
  /\ now' = now + 1
  /\ entries' = Restrict(entries,
                  {k \in DOMAIN entries : entries[k].expiration >= now + 1})
  /\ UNCHANGED <<call, reply>>

SpecNext == \/ \E c \in Client : \/ SpecInvoke(c) \/ SpecGet(c)
                                 \/ SpecSet(c) \/ SpecDelete(c)
            \/ SpecTick

SpecSpec == SpecInit /\ [][SpecNext]_specVars
=============================================================================
