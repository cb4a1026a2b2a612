---------------------------- MODULE BatchSinksProofs ----------------------------
(***************************************************************************)
(* Proofs about the database sink and the Parquet sink: for every batch    *)
(* size, every set of event types and any number of events, what they      *)
(* write is written once and in order, nothing received is unaccounted     *)
(* for, and the last flush of the database sink does not run under the     *)
(* context that is done.                                                   *)
(*                                                                         *)
(* None of this is inductive.  It rests on the numbers of the events: the  *)
(* batch is younger than what is written, except for the tables that the   *)
(* flush in progress has passed.                                           *)
(***************************************************************************)
EXTENDS BatchSinks, TLAPS, WellFoundedInduction, NaturalsInduction

-----------------------------------------------------------------------------
(* A nonempty set of numbers has a least element. *)
LEMMA LeastNat ==
  ASSUME NEW T \in SUBSET Nat, T # {}
  PROVE  \E m \in T : \A n \in T : m <= n
<1> DEFINE R == OpToRel(<, Nat)
<1>1. IsWellFoundedOn(R, Nat)
  BY NatLessThanWellFounded
<1>2. \A m, n \in Nat : <<n, m>> \in R <=> n < m
  BY DEF OpToRel
<1> HIDE DEF R
<1>3. PICK m \in T : \A n \in Nat : <<n, m>> \in R => n \notin T
  BY <1>1, WFMin
<1>4. \A n \in T : ~(n < m)
  BY <1>2, <1>3
<1> QED
  BY <1>4

(* Induction, for a set in place of a predicate. *)
LEMMA SetInduction ==
  ASSUME NEW S, 0 \in S, \A n \in Nat : n \in S => n + 1 \in S
  PROVE  \A n \in Nat : n \in S
<1> DEFINE T == {n \in Nat : n \notin S}
<1>1. ASSUME T # {} PROVE FALSE
  <2>1. PICK m \in T : \A n \in T : m <= n
    BY <1>1, LeastNat
  <2>2. m # 0 /\ m - 1 \in Nat /\ m - 1 \notin T
    BY <2>1
  <2> QED
    BY <2>1, <2>2
<1> QED
  BY <1>1

(* The loop of flush that splits the batch is a function of the number of   *)
(* events passed.                                                           *)
LEMMA RowsLoop ==
  ASSUME NEW t, batch \in Seq(Event)
  PROVE  \E f : /\ f = [n \in 0..Len(batch) |->
                          IF n = 0 THEN <<>>
                          ELSE IF batch[n].kind = t THEN Append(f[n - 1], batch[n]) ELSE f[n - 1]]
                /\ Rows(t) = f[Len(batch)]
<1> DEFINE Row(n, r) == IF batch[n].kind = t THEN Append(r, batch[n]) ELSE r
           Loop(f, m) == f = [n \in 0..m |-> IF n = 0 THEN <<>> ELSE Row(n, f[n - 1])]
           S == {m \in Nat : \E f : Loop(f, m)}
<1>1. 0 \in S
  <2>1. Loop([n \in 0..0 |-> <<>>], 0)
    OBVIOUS
  <2> QED
    BY <2>1
<1>2. ASSUME NEW m \in Nat, m \in S PROVE m + 1 \in S
  <2> HIDE DEF Row
  <2>1. PICK f : Loop(f, m)
    BY <1>2
  <2> DEFINE g == [n \in 0..(m + 1) |-> IF n <= m THEN f[n] ELSE Row(m + 1, f[m])]
  <2>2. \A n \in 0..(m + 1) : g[n] = IF n = 0 THEN <<>> ELSE Row(n, g[n - 1])
    <3> SUFFICES ASSUME NEW n \in 0..(m + 1)
                 PROVE  g[n] = IF n = 0 THEN <<>> ELSE Row(n, g[n - 1])
      OBVIOUS
    <3>1. CASE n = m + 1
      BY <3>1
    <3>2. CASE n \in 0..m
      <4>1. f[n] = IF n = 0 THEN <<>> ELSE Row(n, f[n - 1])
        BY <2>1, <3>2
      <4> QED
        BY <3>2, <4>1
    <3> QED
      BY <3>1, <3>2
  <2>3. g = [n \in 0..(m + 1) |-> g[n]]
    OBVIOUS
  <2> HIDE DEF g
  <2>4. g = [n \in 0..(m + 1) |-> IF n = 0 THEN <<>> ELSE Row(n, g[n - 1])]
    BY <2>2, <2>3
  <2> QED
    BY <2>4
<1>3. Len(batch) \in S
  <2> HIDE DEF S
  <2> QED
    BY <1>1, <1>2, SetInduction
<1>4. \E f : Loop(f, Len(batch))
  BY <1>3
<1>5. Loop(CHOOSE f : Loop(f, Len(batch)), Len(batch))
  <2> HIDE DEF Loop
  <2> QED
    BY <1>4
<1> QED
  BY <1>5 DEF Rows

(* The elements of a sequence of events. *)
LEMMA EventFacts ==
  \A s \in Seq(Event) : \A i \in 1..Len(s) : s[i] \in Event /\ s[i].n \in Nat
<1>1. \A e \in Event : e.n \in Nat
  BY BatchAssumption DEF Event
<1> QED
  BY <1>1

(* Appending an event to a sequence. *)
LEMMA AppendFacts ==
  ASSUME NEW s \in Seq(Event), NEW e \in Event
  PROVE  /\ Append(s, e) \in Seq(Event)
         /\ Len(Append(s, e)) = Len(s) + 1
         /\ \A i \in 1..(Len(s) + 1) : Append(s, e)[i] = IF i <= Len(s) THEN s[i] ELSE e
         /\ Range(Append(s, e)) = Range(s) \cup {e}
         /\ Ascending(s) /\ (\A i \in 1..Len(s) : s[i].n < e.n) => Ascending(Append(s, e))
<1>1. /\ Append(s, e) \in Seq(Event)
      /\ Len(Append(s, e)) = Len(s) + 1
      /\ \A i \in 1..(Len(s) + 1) : Append(s, e)[i] = IF i <= Len(s) THEN s[i] ELSE e
      /\ DOMAIN Append(s, e) = 1..(Len(s) + 1)
      /\ DOMAIN s = 1..Len(s)
  OBVIOUS
<1>2. Range(Append(s, e)) = Range(s) \cup {e}
  <2> DEFINE r == Append(s, e)
             l == Len(s)
  <2>1. l \in Nat
    OBVIOUS
  <2> HIDE DEF r, l
  <2>2. /\ \A i \in 1..(l + 1) : r[i] = IF i <= l THEN s[i] ELSE e
        /\ DOMAIN r = 1..(l + 1) /\ DOMAIN s = 1..l
    BY <1>1 DEF r, l
  <2>3. Range(r) \subseteq Range(s) \cup {e}
    BY <2>1, <2>2 DEF Range
  <2>4. r[l + 1] = e /\ \A i \in 1..l : r[i] = s[i] /\ i \in 1..(l + 1)
    BY <2>1, <2>2
  <2>5. Range(s) \cup {e} \subseteq Range(r)
    BY <2>1, <2>2, <2>4 DEF Range
  <2> QED
    BY <2>3, <2>5 DEF r
<1>3. ASSUME Ascending(s), \A i \in 1..Len(s) : s[i].n < e.n PROVE Ascending(Append(s, e))
  BY <1>1, <1>3 DEF Ascending
<1> QED
  BY <1>1, <1>2, <1>3

(* Appending a sequence to another. *)
LEMMA ConcatFacts ==
  ASSUME NEW s \in Seq(Event), NEW r \in Seq(Event)
  PROVE  /\ s \o r \in Seq(Event)
         /\ Len(s \o r) = Len(s) + Len(r)
         /\ \A i \in 1..Len(s \o r) : (s \o r)[i] = IF i <= Len(s) THEN s[i] ELSE r[i - Len(s)]
         /\ Range(s \o r) = Range(s) \cup Range(r)
         /\ Ascending(s) /\ Ascending(r) /\ (\A i \in 1..Len(s), j \in 1..Len(r) : s[i].n < r[j].n)
              => Ascending(s \o r)
<1> DEFINE c == s \o r
           l == Len(s)
           k == Len(r)
<1>1. /\ c \in Seq(Event) /\ Len(c) = l + k /\ l \in Nat /\ k \in Nat
      /\ \A i \in 1..(l + k) : c[i] = IF i <= l THEN s[i] ELSE r[i - l]
      /\ DOMAIN c = 1..(l + k) /\ DOMAIN s = 1..l /\ DOMAIN r = 1..k
  OBVIOUS
<1> HIDE DEF c, l, k
<1>3. /\ \A i \in 1..l : i \in 1..(l + k) /\ c[i] = s[i]
      /\ \A i \in 1..k : l + i \in 1..(l + k) /\ c[l + i] = r[i]
      /\ \A i \in 1..(l + k) : i <= l \/ i - l \in 1..k
  BY <1>1
<1>4. Range(c) = Range(s) \cup Range(r)
  <2>1. \A i \in 1..(l + k) : c[i] \in Range(s) \cup Range(r)
    <3> SUFFICES ASSUME NEW i \in 1..(l + k) PROVE c[i] \in Range(s) \cup Range(r)
      OBVIOUS
    <3>1. CASE i <= l
      <4>1. i \in 1..l /\ c[i] = s[i]
        BY <1>1, <3>1
      <4> QED
        BY <1>1, <4>1 DEF Range
    <3>2. CASE ~(i <= l)
      <4>1. i - l \in 1..k /\ c[i] = r[i - l]
        BY <1>1, <1>3, <3>2
      <4> QED
        BY <1>1, <4>1 DEF Range
    <3> QED
      BY <3>1, <3>2
  <2>2. Range(s) \subseteq Range(c)
    BY <1>1, <1>3 DEF Range
  <2>3. Range(r) \subseteq Range(c)
    <3> SUFFICES ASSUME NEW i \in 1..k PROVE r[i] \in Range(c)
      BY <1>1 DEF Range
    <3>1. l + i \in DOMAIN c /\ c[l + i] = r[i]
      BY <1>1, <1>3
    <3> QED
      BY <3>1 DEF Range
  <2>4. Range(c) = {c[i] : i \in 1..(l + k)}
    BY <1>1 DEF Range
  <2> QED
    BY <2>1, <2>2, <2>3, <2>4
<1>5. ASSUME Ascending(s), Ascending(r), \A i \in 1..Len(s), j \in 1..Len(r) : s[i].n < r[j].n
      PROVE  Ascending(c)
  <2>1. /\ \A i, j \in 1..l : i < j => s[i].n < s[j].n
        /\ \A i, j \in 1..k : i < j => r[i].n < r[j].n
        /\ \A i \in 1..l, j \in 1..k : s[i].n < r[j].n
    BY <1>5 DEF Ascending, l, k
  <2> SUFFICES ASSUME NEW i \in 1..(l + k), NEW j \in 1..(l + k), i < j
               PROVE  c[i].n < c[j].n
    BY <1>1 DEF Ascending
  <2>2. CASE j <= l
    BY <1>1, <2>1, <2>2
  <2>3. CASE i <= l /\ ~(j <= l)
    BY <1>1, <2>1, <2>3
  <2>4. CASE ~(i <= l)
    <3>1. i - l \in 1..k /\ j - l \in 1..k /\ i - l < j - l
      BY <1>1, <2>4
    <3>2. c[i] = r[i - l] /\ c[j] = r[j - l]
      BY <1>1, <2>4
    <3> QED
      BY <2>1, <3>1, <3>2
  <2> QED
    BY <1>1, <2>2, <2>3, <2>4
<1> QED
  BY <1>1, <1>4, <1>5 DEF c, l, k

(* The rows for a table are the events of its type in the batch, in the     *)
(* order of the batch.                                                      *)
LEMMA RowsFacts ==
  ASSUME NEW t, batch \in Seq(Event)
  PROVE  /\ Rows(t) \in Seq(Event)
         /\ Range(Rows(t)) = {e \in Range(batch) : e.kind = t}
         /\ Ascending(batch) => Ascending(Rows(t))
<1>1. PICK f : /\ f = [n \in 0..Len(batch) |->
                    IF n = 0 THEN <<>>
                    ELSE IF batch[n].kind = t THEN Append(f[n - 1], batch[n]) ELSE f[n - 1]]
               /\ Rows(t) = f[Len(batch)]
  BY RowsLoop
<1> DEFINE l == Len(batch)
           Of(n) == {e \in Range(batch) : e.kind = t /\ \E i \in 1..n : e = batch[i]}
           Good(n) == /\ f[n] \in Seq(Event)
                      /\ Range(f[n]) = Of(n)
                      /\ Ascending(batch) => Ascending(f[n])
           S == {n \in Nat : n <= l => Good(n)}
<1>2. l \in Nat /\ DOMAIN batch = 1..l /\ \A i \in 1..l : batch[i] \in Event
  OBVIOUS
<1>3. f[0] = <<>> /\ \A n \in 1..l : f[n] = IF batch[n].kind = t THEN Append(f[n - 1], batch[n]) ELSE f[n - 1]
  <2>1. \A n \in 0..l : f[n] = IF n = 0 THEN <<>>
                    ELSE IF batch[n].kind = t THEN Append(f[n - 1], batch[n]) ELSE f[n - 1]
    BY <1>1
  <2> QED
    BY <1>2, <2>1
<1> HIDE DEF l
<1>4. 0 \in S
  <2>1. Range(<<>>) = {} /\ <<>> \in Seq(Event) /\ Ascending(<<>>)
    BY DEF Range, Ascending
  <2>2. Of(0) = {}
    OBVIOUS
  <2> QED
    BY <1>3, <2>1, <2>2
<1>5. ASSUME NEW n \in Nat, n \in S PROVE n + 1 \in S
  <2> SUFFICES ASSUME n + 1 <= l PROVE Good(n + 1)
    OBVIOUS
  <2> DEFINE e == batch[n + 1]
  <2>1. n + 1 \in 1..l /\ n <= l /\ e \in Event /\ e \in Range(batch) /\ (n + 1) - 1 = n
    BY <1>2 DEF Range
  <2>2. Good(n)
    BY <1>5, <2>1
  <2>3. f[n + 1] = IF e.kind = t THEN Append(f[n], e) ELSE f[n]
    BY <1>3, <2>1
  <2>4. Of(n + 1) = IF e.kind = t THEN Of(n) \cup {e} ELSE Of(n)
    <3>1. 1..(n + 1) = 1..n \cup {n + 1}
      OBVIOUS
    <3> QED
      BY <2>1, <3>1
  <2>5. ASSUME Ascending(batch), NEW i \in 1..Len(f[n]) PROVE f[n][i].n < e.n
    <3>1. f[n][i] \in Of(n)
      <4>1. DOMAIN f[n] = 1..Len(f[n]) /\ Range(f[n]) = Of(n)
        BY <2>2
      <4> HIDE DEF Of
      <4> QED
        BY <4>1 DEF Range
    <3>2. PICK j \in 1..n : f[n][i] = batch[j]
      BY <3>1
    <3> QED
      BY <1>2, <2>1, <2>5, <3>2 DEF Ascending, l
  <2> HIDE DEF Of, e
  <2>6. CASE e.kind = t
    BY <2>1, <2>2, <2>3, <2>4, <2>5, <2>6, AppendFacts
  <2>7. CASE e.kind # t
    BY <2>2, <2>3, <2>4, <2>7
  <2> QED
    BY <2>6, <2>7
<1>6. l \in S
  <2> HIDE DEF S
  <2> QED
    BY <1>2, <1>4, <1>5, SetInduction
<1>7. Of(l) = {e \in Range(batch) : e.kind = t}
  BY <1>2 DEF Range
<1> QED
  BY <1>1, <1>2, <1>6, <1>7 DEF l
-----------------------------------------------------------------------------
(* The numbers of the events of s are at most m. *)
UpTo(s, m) == \A i \in 1..Len(s) : s[i].n <= m

(* The events of s came before those of r. *)
Before(s, r) == \A i \in 1..Len(s), j \in 1..Len(r) : s[i].n < r[j].n

(* The batch holds events received, in their order. *)
QueueInv ==
  /\ BatchTypeOK /\ BatchBounded
  /\ Ascending(batch) /\ UpTo(batch, Len(accepted))

(* Between flushes and for the INSERTs still to come, the rows of a table   *)
(* are older than the batch; the INSERTs of a flush that are done have      *)
(* settled the events of their types; and the INSERTs that ran under a      *)
(* context that was done are of batches that are gone, unless the flush of  *)
(* the loop is still running.                                               *)
TablesInv ==
  /\ DatabaseTypeOK
  /\ RowsOnceInOrder /\ RowsAccountedFor
  /\ \A t \in Table : UpTo(tables[t], Len(accepted))
  /\ loop # "returned" => \A k \in 1..4 : next <= k => Before(tables[Inserts[k]], batch)
  /\ \A k \in 1..4 : k < next =>
       \A e \in Range(batch) : e.kind = Inserts[k] => e \in DatabaseRows \cup refused
  /\ loop \in {"selecting", "draining"} => aborted \cap Range(batch) = {}
  /\ \A e \in aborted : e.n <= Len(accepted)

(* Objects are written under ascending names, and all of them are older     *)
(* than the batch.                                                          *)
ObjectsInv ==
  /\ ParquetTypeOK
  /\ ObjectsInOrder /\ ObjectsAccountedFor
  /\ \A key \in 0..MaxSecond :
       /\ UpTo(objects[key], Len(accepted))
       /\ second < key => objects[key] = <<>>
       /\ loop # "returned" => Before(objects[key], batch)

(* The inductive invariant. *)
BatchInv == QueueInv /\ TablesInv /\ ObjectsInv

(* Each of the four INSERTs has a table of its own. *)
LEMMA TableFacts ==
  /\ \A k \in 1..4 : Inserts[k] \in Table
  /\ \A t \in Table : \E k \in 1..4 : t = Inserts[k]
  /\ \A j, k \in 1..4 : Inserts[j] = Inserts[k] => j = k
<1>1. DOMAIN Inserts = 1..4
  BY DEF Inserts
<1>2. Table = {Inserts[k] : k \in 1..4}
  BY <1>1 DEF Table, Range
<1>3. \A j, k \in 1..4 : Inserts[j] = Inserts[k] => j = k
  BY DEF Inserts
<1> QED
  BY <1>2, <1>3

(* The invariant holds when doSink starts. *)
LEMMA InitInv == Init => BatchInv
<1> SUFFICES ASSUME Init PROVE BatchInv
  OBVIOUS
<1> USE DEF Init, BatchInit, DatabaseInit, ParquetInit
<1>1. <<>> \in Seq(Event) /\ Len(<<>>) = 0 /\ Range(<<>>) = {} /\ Ascending(<<>>)
  BY DEF Range, Ascending
<1>2. QueueInv
  <2>1. BatchTypeOK
    <3>1. cancelled \in BOOLEAN /\ inClosed \in BOOLEAN
      OBVIOUS
    <3>2. /\ sinkType \in {"database", "parquet"} /\ loop = "selecting"
          /\ batch \in Seq(Event) /\ accepted \in Seq(Event)
          /\ Len(accepted) <= MaxEvents /\ refused \subseteq Event
      BY <1>1, BatchAssumption
    <3> QED
      BY <3>1, <3>2 DEF BatchTypeOK
  <2>2. BatchBounded
    BY <1>1, BatchAssumption DEF BatchBounded
  <2>3. UpTo(batch, Len(accepted))
    BY <1>1 DEF UpTo
  <2> QED
    BY <1>1, <2>1, <2>2, <2>3 DEF QueueInv
<1>3. TablesInv
  <2>1. DatabaseTypeOK
    BY <1>1 DEF DatabaseTypeOK
  <2>2. RowsOnceInOrder /\ RowsAccountedFor
    BY <1>1 DEF RowsOnceInOrder, RowsAccountedFor
  <2>3. \A t \in Table : tables[t] = <<>>
    OBVIOUS
  <2> QED
    BY <1>1, <2>1, <2>2, <2>3, TableFacts DEF TablesInv, UpTo, Before
<1>4. ObjectsInv
  <2>1. ParquetTypeOK
    BY <1>1, S3Assumption, BatchAssumption DEF ParquetTypeOK
  <2>2. \A key \in 0..MaxSecond : objects[key] = <<>>
    OBVIOUS
  <2>3. ObjectsInOrder /\ ObjectsAccountedFor
    BY <1>1, <2>2 DEF ObjectsInOrder, ObjectsAccountedFor
  <2> QED
    BY <1>1, <2>1, <2>2, <2>3 DEF ObjectsInv, UpTo, Before
<1> QED
  BY <1>2, <1>3, <1>4 DEF BatchInv

(* An event that comes now comes after those that came before. *)
LEMMA LaterEvent ==
  ASSUME NEW s \in Seq(Event), NEW r \in Seq(Event), NEW e \in Event, NEW m \in Nat,
         e.n = m + 1, UpTo(s, m), Before(s, r)
  PROVE  UpTo(s, m + 1) /\ Before(s, Append(r, e))
<1> DEFINE c == Append(r, e)
<1>1. \A i \in 1..Len(s) : s[i].n <= m /\ s[i].n \in Nat
  BY EventFacts DEF UpTo
<1>2. /\ Len(c) = Len(r) + 1 /\ Len(r) \in Nat
      /\ \A i \in 1..(Len(r) + 1) : c[i] = IF i <= Len(r) THEN r[i] ELSE e
  BY AppendFacts
<1> HIDE DEF c
<1>3. ASSUME NEW i \in 1..Len(s), NEW j \in 1..Len(c) PROVE s[i].n < c[j].n
  <2>1. CASE j <= Len(r)
    <3>1. j \in 1..Len(r) /\ c[j] = r[j]
      BY <1>2, <2>1
    <3> QED
      BY <3>1 DEF Before
  <2>2. CASE ~(j <= Len(r))
    BY <1>1, <1>2, <2>2
  <2> QED
    BY <2>1, <2>2
<1> QED
  BY <1>1, <1>3 DEF UpTo, Before, c

(* What an accepted event does to the batch. *)
LEMMA AcceptFacts ==
  ASSUME QueueInv, NEW kind \in Kind, Accept(kind)
  PROVE  \E e \in Event :
           /\ e.n = Len(accepted) + 1
           /\ accepted' = Append(accepted, e) /\ Len(accepted') = Len(accepted) + 1
           /\ accepted' \in Seq(Event)
           /\ batch' = Append(batch, e) /\ batch' \in Seq(Event) /\ Len(batch') = Len(batch) + 1
           /\ Range(accepted') = Range(accepted) \cup {e}
           /\ Range(batch') = Range(batch) \cup {e}
           /\ \A i \in 1..Len(batch') : batch'[i] = IF i <= Len(batch) THEN batch[i] ELSE e
           /\ Ascending(batch')
<1> DEFINE e == [n |-> Len(accepted) + 1, kind |-> kind]
<1>1. batch \in Seq(Event) /\ accepted \in Seq(Event) /\ Len(accepted) \in Nat
  BY DEF QueueInv, BatchTypeOK
<1>2. e \in Event /\ e.n = Len(accepted) + 1
  BY <1>1, BatchAssumption DEF Event, Accept
<1>3. accepted' = Append(accepted, e) /\ batch' = Append(batch, e)
  BY DEF Accept
<1>4. \A i \in 1..Len(batch) : batch[i].n <= Len(accepted)
  BY DEF QueueInv, UpTo
<1>5. \A i \in 1..Len(batch) : batch[i].n < e.n
  <2>1. \A i \in 1..Len(batch) : batch[i].n \in Nat
    BY <1>1, EventFacts
  <2> QED
    BY <1>1, <1>2, <1>4, <2>1
<1>6. Ascending(batch)
  BY DEF QueueInv
<1> HIDE DEF e
<1>7. /\ Len(accepted') = Len(accepted) + 1 /\ accepted' \in Seq(Event)
      /\ Range(accepted') = Range(accepted) \cup {e}
  BY <1>1, <1>2, <1>3, AppendFacts
<1>8. /\ batch' \in Seq(Event) /\ Len(batch') = Len(batch) + 1
      /\ Range(batch') = Range(batch) \cup {e}
      /\ \A i \in 1..Len(batch') : batch'[i] = IF i <= Len(batch) THEN batch[i] ELSE e
      /\ Ascending(batch')
  <2>1. Ascending(Append(batch, e))
    BY <1>1, <1>2, <1>5, <1>6, AppendFacts
  <2> QED
    BY <1>1, <1>2, <1>3, <2>1, AppendFacts
<1> QED
  BY <1>2, <1>3, <1>7, <1>8

(* What an INSERT may do. *)
LEMMA InsertFacts ==
  ASSUME QueueInv, TablesInv, Insert
  PROVE  /\ next \in 1..4 /\ next' = next + 1 /\ UNCHANGED batchVars
         /\ \E rows \in Seq(Event) :
              /\ Range(rows) = {e \in Range(batch) : e.kind = Inserts[next]}
              /\ Ascending(rows)
              /\ \/ tables' = tables
                 \/ tables' = [tables EXCEPT ![Inserts[next]] = @ \o rows]
              /\ Range(rows) \subseteq Range(tables'[Inserts[next]]) \cup refused'
              /\ refused \subseteq refused' /\ refused' \subseteq refused \cup Range(rows)
              /\ \/ aborted' = aborted
                 \/ /\ loop = "flushing"
                    /\ aborted' = aborted \cup Range(rows)
                    /\ Range(rows) \subseteq refused'
<1> DEFINE t == Inserts[next]
           rows == Rows(t)
<1>1. next \in 1..4 /\ next' = next + 1 /\ UNCHANGED batchVars
  BY DEF Insert, TablesInv, DatabaseTypeOK
<1>2. batch \in Seq(Event) /\ Ascending(batch)
  BY DEF QueueInv, BatchTypeOK
<1>3. rows \in Seq(Event) /\ Ascending(rows) /\ Range(rows) = {e \in Range(batch) : e.kind = t}
  BY <1>2, RowsFacts
<1>4. t \in Table /\ tables \in [Table -> Seq(Event)]
  BY <1>1, TableFacts DEF TablesInv, DatabaseTypeOK
<1>5. \/ rows = <<>> /\ UNCHANGED <<tables, refused, aborted>>
      \/ /\ \E o \in Outcomes :
              /\ tables' = IF o.applied THEN [tables EXCEPT ![t] = @ \o rows] ELSE tables
              /\ refused' = IF o.failed THEN refused \cup Range(rows) ELSE refused
         /\ aborted' = IF Aborted THEN aborted \cup Range(rows) ELSE aborted
  BY DEF Insert
<1> HIDE DEF t, rows
<1>6. CASE rows = <<>> /\ UNCHANGED <<tables, refused, aborted>>
  <2>1. Range(rows) = {}
    BY <1>6 DEF Range
  <2> QED
    BY <1>1, <1>3, <1>6, <2>1 DEF t
<1>7. ASSUME NEW o \in Outcomes,
             tables' = IF o.applied THEN [tables EXCEPT ![t] = @ \o rows] ELSE tables,
             refused' = IF o.failed THEN refused \cup Range(rows) ELSE refused,
             aborted' = IF Aborted THEN aborted \cup Range(rows) ELSE aborted
      PROVE  /\ \/ tables' = tables
                \/ tables' = [tables EXCEPT ![t] = @ \o rows]
             /\ Range(rows) \subseteq Range(tables'[t]) \cup refused'
             /\ refused \subseteq refused' /\ refused' \subseteq refused \cup Range(rows)
             /\ \/ aborted' = aborted
                \/ /\ loop = "flushing"
                   /\ aborted' = aborted \cup Range(rows)
                   /\ Range(rows) \subseteq refused'
  <2>1. o.applied = TRUE \/ o.failed = TRUE
    BY DEF Outcomes
  <2>2. Aborted => o.failed = TRUE /\ loop = "flushing"
    BY DEF Outcomes, Aborted
  <2>3. o.applied = TRUE => Range(rows) \subseteq Range(tables'[t])
    <3> SUFFICES ASSUME o.applied = TRUE PROVE Range(rows) \subseteq Range(tables'[t])
      OBVIOUS
    <3>1. tables'[t] = tables[t] \o rows /\ tables[t] \in Seq(Event)
      BY <1>4, <1>7
    <3> QED
      BY <1>3, <3>1, ConcatFacts
  <2>4. o.failed = TRUE => Range(rows) \subseteq refused'
    BY <1>7
  <2>5. refused \subseteq refused' /\ refused' \subseteq refused \cup Range(rows)
    BY <1>7
  <2> QED
    BY <1>7, <2>1, <2>2, <2>3, <2>4, <2>5
<1> QED
  BY <1>1, <1>3, <1>5, <1>6, <1>7 DEF t
(* A step of doSink between events and flushes. *)
Moves ==
  /\ UNCHANGED <<sinkType, batch, accepted, refused, databaseVars, parquetVars>>
  /\ \/ loop' = loop
     \/ loop = "selecting" /\ loop' \in {"flushing", "draining", "returned"}
  /\ cancelled' \in BOOLEAN /\ inClosed' \in BOOLEAN

(* The steps, those that only move doSink taken together. *)
LEMMA NextCases ==
  ASSUME QueueInv, [Next]_vars
  PROVE  \/ /\ \E kind \in Kind : Accept(kind)
            /\ UNCHANGED <<refused, databaseVars, parquetVars>>
         \/ Moves
         \/ Insert /\ UNCHANGED parquetVars
         \/ FlushEnd /\ UNCHANGED parquetVars
         \/ Flush /\ UNCHANGED databaseVars
         \/ SecondPasses /\ UNCHANGED databaseVars
<1>1. cancelled \in BOOLEAN /\ inClosed \in BOOLEAN
  BY DEF QueueInv, BatchTypeOK
<1>2. CASE UNCHANGED vars
  BY <1>1, <1>2 DEF vars, batchVars, Moves
<1>3. CASE BatchStep /\ UNCHANGED <<databaseVars, parquetVars>>
  <2>1. CASE TickerFires
    BY <1>1, <1>3, <2>1 DEF BatchStep, TickerFires, Moves
  <2>2. CASE SeesCancel
    BY <1>1, <1>3, <2>2 DEF BatchStep, SeesCancel, Moves
  <2>3. CASE SeesClosed
    BY <1>1, <1>3, <2>3 DEF BatchStep, SeesClosed, Moves
  <2>4. CASE Cancel
    BY <1>1, <1>3, <2>4 DEF BatchStep, Cancel, Moves
  <2>5. CASE CloseInput
    BY <1>1, <1>3, <2>5 DEF BatchStep, CloseInput, Moves
  <2> QED
    BY <1>3, <2>1, <2>2, <2>3, <2>4, <2>5 DEF BatchStep
<1>4. CASE Database
  BY <1>4 DEF Database
<1>5. CASE Parquet
  BY <1>5 DEF Parquet
<1> QED
  BY <1>2, <1>3, <1>4, <1>5 DEF Next

(* The empty batch. *)
LEMMA EmptyFacts ==
  /\ <<>> \in Seq(Event) /\ Len(<<>>) = 0 /\ Range(<<>>) = {} /\ Ascending(<<>>)
  /\ \A s, m : UpTo(<<>>, m) /\ Before(<<>>, s) /\ Before(s, <<>>)
BY DEF Range, Ascending, UpTo, Before

(* What a sequence of events holds. *)
LEMMA RangeIsEvents ==
  ASSUME NEW s \in Seq(Event) PROVE Range(s) \subseteq Event
BY DEF Range

(* Every step keeps the batch in order and within its limit. *)
LEMMA QueueStep ==
  ASSUME QueueInv, TablesInv, [Next]_vars PROVE QueueInv'
<1>1. /\ BatchTypeOK /\ BatchBounded /\ Ascending(batch) /\ UpTo(batch, Len(accepted))
      /\ batch \in Seq(Event) /\ accepted \in Seq(Event) /\ Len(batch) \in Nat /\ Len(accepted) \in Nat
  BY DEF QueueInv, BatchTypeOK
<1>2. ASSUME NEW kind \in Kind, Accept(kind), UNCHANGED refused PROVE QueueInv'
  <2>1. PICK e \in Event :
           /\ e.n = Len(accepted) + 1
           /\ Len(accepted') = Len(accepted) + 1 /\ accepted' \in Seq(Event)
           /\ batch' \in Seq(Event) /\ Len(batch') = Len(batch) + 1
           /\ \A i \in 1..Len(batch') : batch'[i] = IF i <= Len(batch) THEN batch[i] ELSE e
           /\ Ascending(batch')
    BY <1>2, AcceptFacts
  <2>2. BatchTypeOK'
    <3>1. cancelled' \in BOOLEAN /\ inClosed' \in BOOLEAN
      BY <1>1, <1>2 DEF Accept, BatchTypeOK
    <3>2. /\ sinkType' \in {"database", "parquet"} /\ refused' \subseteq Event
          /\ loop' \in {"selecting", "flushing"}
          /\ Len(accepted) < MaxEvents
      BY <1>1, <1>2 DEF Accept, BatchTypeOK
    <3>3. Len(accepted') <= MaxEvents
      BY <1>1, <2>1, <3>2, BatchAssumption
    <3> QED
      BY <2>1, <3>1, <3>2, <3>3 DEF BatchTypeOK
  <2>3. BatchBounded'
    <3>1. loop = "selecting" /\ loop' = IF Len(batch') >= MaxBatchSize THEN "flushing" ELSE "selecting"
      BY <1>2 DEF Accept
    <3>2. Len(batch) < MaxBatchSize
      BY <1>1, <3>1 DEF BatchBounded
    <3> QED
      BY <1>1, <2>1, <3>1, <3>2, BatchAssumption DEF BatchBounded
  <2>4. UpTo(batch', Len(accepted'))
    <3>1. \A i \in 1..Len(batch) : batch[i].n <= Len(accepted) /\ batch[i].n \in Nat
      BY <1>1, EventFacts DEF UpTo
    <3> QED
      BY <1>1, <2>1, <3>1 DEF UpTo
  <2> QED
    BY <2>1, <2>2, <2>3, <2>4 DEF QueueInv
<1>3. CASE Moves
  <2>1. cancelled' \in BOOLEAN /\ inClosed' \in BOOLEAN
    BY <1>3 DEF Moves
  <2>2. /\ UNCHANGED <<sinkType, batch, accepted, refused>>
        /\ loop' \in {"selecting", "flushing", "draining", "returned"}
        /\ loop' = "selecting" => loop = "selecting"
    BY <1>1, <1>3 DEF Moves, BatchTypeOK
  <2>3. BatchTypeOK'
    BY <1>1, <2>1, <2>2 DEF BatchTypeOK
  <2>4. BatchBounded'
    BY <1>1, <2>2 DEF BatchBounded
  <2> QED
    BY <1>1, <2>2, <2>3, <2>4 DEF QueueInv, UpTo, Ascending
<1>4. CASE Insert
  <2>1. PICK rows \in Seq(Event) : refused' \subseteq refused \cup Range(rows)
    BY <1>4, InsertFacts
  <2>2. refused' \subseteq Event
    BY <1>1, <2>1, RangeIsEvents DEF BatchTypeOK
  <2>3. UNCHANGED batchVars
    BY <1>4, InsertFacts
  <2>4. BatchTypeOK'
    BY <1>1, <2>2, <2>3 DEF BatchTypeOK, batchVars
  <2> QED
    BY <1>1, <2>3, <2>4 DEF QueueInv, BatchBounded, UpTo, Ascending, batchVars
<1>5. ASSUME FlushReturns, refused' \subseteq Event PROVE QueueInv'
  <2>1. /\ UNCHANGED <<sinkType, cancelled, inClosed, accepted>>
        /\ loop' \in {"selecting", "returned"}
        /\ (batch' = batch /\ loop' = "returned") \/ batch' = <<>>
    BY <1>5 DEF FlushReturns
  <2>2. BatchTypeOK'
    BY <1>1, <1>5, <2>1, EmptyFacts DEF BatchTypeOK
  <2>3. BatchBounded'
    BY <1>1, <2>1, EmptyFacts, BatchAssumption DEF BatchBounded
  <2>4. Ascending(batch') /\ UpTo(batch', Len(accepted'))
    BY <1>1, <2>1, EmptyFacts
  <2> QED
    BY <2>2, <2>3, <2>4 DEF QueueInv
<1>6. CASE FlushEnd
  BY <1>1, <1>5, <1>6 DEF FlushEnd, BatchTypeOK
<1>7. CASE Flush
  <2>1. refused' = refused \/ refused' = refused \cup Range(batch)
    BY <1>7 DEF Flush, PutObject, PutObjectRefused
  <2> QED
    BY <1>1, <1>5, <1>7, <2>1, RangeIsEvents DEF Flush, BatchTypeOK
<1>8. CASE SecondPasses
  BY <1>1, <1>8 DEF SecondPasses, QueueInv, BatchTypeOK, BatchBounded, UpTo, Ascending, batchVars
<1> QED
  BY <1>2, <1>3, <1>4, <1>6, <1>7, <1>8, NextCases
-----------------------------------------------------------------------------
(* The tables: an event arrives. *)
LEMMA TablesAccept ==
  ASSUME QueueInv, TablesInv, NEW kind \in Kind, Accept(kind), UNCHANGED <<refused, databaseVars>>
  PROVE  TablesInv'
<1>1. PICK e \in Event :
         /\ e.n = Len(accepted) + 1
         /\ Len(accepted') = Len(accepted) + 1
         /\ batch' = Append(batch, e)
         /\ Range(accepted') = Range(accepted) \cup {e}
         /\ Range(batch') = Range(batch) \cup {e}
  BY AcceptFacts
<1>2. /\ loop = "selecting" /\ loop' \in {"selecting", "flushing"}
      /\ UNCHANGED <<sinkType, tables, next, aborted, refused>>
  BY DEF Accept, databaseVars
<1>3. next = 1 /\ DatabaseTypeOK /\ tables \in [Table -> Seq(Event)]
  BY <1>2 DEF TablesInv, DatabaseTypeOK, InFlush
<1>4. /\ Len(accepted) \in Nat /\ batch \in Seq(Event) /\ Len(batch) \in Nat
  BY DEF QueueInv, BatchTypeOK
<1>5. DatabaseTypeOK'
  BY <1>2, <1>3 DEF DatabaseTypeOK
<1>6. RowsOnceInOrder' /\ RowsAccountedFor'
  <2>1. RowsOnceInOrder'
    BY <1>2 DEF TablesInv, RowsOnceInOrder
  <2>2. RowsAccountedFor'
    BY <1>1, <1>2 DEF TablesInv, RowsAccountedFor, DatabaseRows
  <2> QED
    BY <2>1, <2>2
<1>7. ASSUME NEW t \in Table
      PROVE  UpTo(tables[t], Len(accepted')) /\ Before(tables[t], batch')
  <2>1. PICK k \in 1..4 : t = Inserts[k]
    BY TableFacts
  <2>2. UpTo(tables[t], Len(accepted)) /\ Before(tables[t], batch) /\ tables[t] \in Seq(Event)
    BY <1>2, <1>3, <2>1 DEF TablesInv
  <2> QED
    BY <1>1, <1>4, <2>2, LaterEvent
<1>8. e \notin aborted
  BY <1>1, <1>4 DEF TablesInv
<1>9. \A x \in aborted : x.n <= Len(accepted')
  <2>1. aborted \subseteq Event
    BY <1>3 DEF DatabaseTypeOK, QueueInv, BatchTypeOK
  <2>2. \A x \in aborted : x.n \in Nat /\ x.n <= Len(accepted)
    BY <2>1, BatchAssumption DEF Event, TablesInv
  <2> QED
    BY <1>1, <1>4, <2>2
<1>10. aborted \cap Range(batch') = {}
  BY <1>1, <1>2, <1>8 DEF TablesInv
<1> QED
  BY <1>2, <1>3, <1>5, <1>6, <1>7, <1>9, <1>10, TableFacts DEF TablesInv

(* The tables: an INSERT is applied, or not, and succeeds, or not. *)
LEMMA TablesInsert ==
  ASSUME QueueInv, TablesInv, Insert PROVE TablesInv'
<1> DEFINE t == Inserts[next]
<1>1. next \in 1..4 /\ next' = next + 1 /\ UNCHANGED batchVars
  BY InsertFacts
<1>2. PICK rows \in Seq(Event) :
        /\ Range(rows) = {e \in Range(batch) : e.kind = t}
        /\ Ascending(rows)
        /\ \/ tables' = tables
           \/ tables' = [tables EXCEPT ![t] = @ \o rows]
        /\ Range(rows) \subseteq Range(tables'[t]) \cup refused'
        /\ refused \subseteq refused' /\ refused' \subseteq refused \cup Range(rows)
        /\ \/ aborted' = aborted
           \/ /\ loop = "flushing"
              /\ aborted' = aborted \cup Range(rows)
              /\ Range(rows) \subseteq refused'
  BY InsertFacts
<1>3. /\ t \in Table /\ DatabaseTypeOK /\ tables \in [Table -> Seq(Event)]
      /\ sinkType = "database" /\ loop \in {"flushing", "draining"}
      /\ batch \in Seq(Event) /\ Len(accepted) \in Nat
      /\ DOMAIN batch = 1..Len(batch) /\ DOMAIN rows = 1..Len(rows)
  BY <1>1, TableFacts DEF TablesInv, DatabaseTypeOK, Insert, InFlush, QueueInv, BatchTypeOK
<1> HIDE DEF t
<1>4. UpTo(rows, Len(accepted)) /\ Before(tables[t], rows)
  <2>1. \A i \in 1..Len(rows) : \E j \in 1..Len(batch) : rows[i] = batch[j]
    <3> SUFFICES ASSUME NEW i \in 1..Len(rows) PROVE \E j \in 1..Len(batch) : rows[i] = batch[j]
      OBVIOUS
    <3>1. rows[i] \in Range(rows)
      BY <1>3 DEF Range
    <3>2. rows[i] \in Range(batch)
      BY <1>2, <3>1
    <3> QED
      BY <1>3, <3>2 DEF Range
  <2>2. UpTo(batch, Len(accepted)) /\ Before(tables[t], batch)
    BY <1>1, <1>3 DEF QueueInv, TablesInv, t
  <2> QED
    BY <2>1, <2>2 DEF UpTo, Before
<1>5. \A u \in Table : u # t => tables'[u] = tables[u]
  BY <1>2, <1>3
<1>6. tables'[t] = tables[t] \/ tables'[t] = tables[t] \o rows
  BY <1>2, <1>3
<1>7. tables' \in [Table -> Seq(Event)]
  <2>1. tables[t] \o rows \in Seq(Event)
    BY <1>3, ConcatFacts
  <2> QED
    BY <1>2, <1>3, <2>1
<1>8. /\ Ascending(tables'[t]) /\ UpTo(tables'[t], Len(accepted))
      /\ Range(tables[t]) \subseteq Range(tables'[t])
      /\ \A i \in 1..Len(tables'[t]) : tables'[t][i].kind = t
  <2>1. /\ Ascending(tables[t]) /\ UpTo(tables[t], Len(accepted)) /\ tables[t] \in Seq(Event)
        /\ \A i \in 1..Len(tables[t]) : tables[t][i].kind = t
    BY <1>3 DEF TablesInv, RowsOnceInOrder, DatabaseTypeOK
  <2>2. CASE tables'[t] = tables[t]
    BY <2>1, <2>2
  <2>3. CASE tables'[t] = tables[t] \o rows
    <3> DEFINE s == tables[t]
               c == tables[t] \o rows
    <3>1. /\ c \in Seq(Event) /\ Len(c) = Len(s) + Len(rows)
          /\ \A i \in 1..Len(c) : c[i] = IF i <= Len(s) THEN s[i] ELSE rows[i - Len(s)]
          /\ Range(c) = Range(s) \cup Range(rows)
      BY <2>1, ConcatFacts
    <3>2. Ascending(c)
      <4>1. \A i \in 1..Len(s), j \in 1..Len(rows) : s[i].n < rows[j].n
        BY <1>4 DEF Before
      <4> QED
        BY <1>2, <2>1, <4>1, ConcatFacts
    <3>3. \A i \in 1..Len(rows) : rows[i].kind = t
      BY <1>2, <1>3 DEF Range
    <3>4. Len(s) \in Nat /\ Len(rows) \in Nat
      BY <2>1
    <3> HIDE DEF s, c
    <3>5. \A i \in 1..Len(c) : (i <= Len(s) /\ i \in 1..Len(s)) \/ (~(i <= Len(s)) /\ i - Len(s) \in 1..Len(rows))
      BY <3>1, <3>4
    <3>6. UpTo(c, Len(accepted))
      BY <1>4, <2>1, <3>1, <3>5 DEF UpTo, s
    <3>7. \A i \in 1..Len(c) : c[i].kind = t
      BY <2>1, <3>1, <3>3, <3>5 DEF s
    <3> QED
      BY <2>3, <3>1, <3>2, <3>6, <3>7 DEF s, c
  <2> QED
    BY <1>6, <2>2, <2>3
<1>9. DatabaseRows \subseteq DatabaseRows' /\ Range(tables'[t]) \subseteq DatabaseRows'
  BY <1>3, <1>5, <1>8 DEF DatabaseRows
<1>10. DatabaseTypeOK'
  <2>1. aborted' \subseteq refused'
    BY <1>2, <1>3 DEF DatabaseTypeOK
  <2>2. \A u \in Table : \A i \in 1..Len(tables'[u]) : tables'[u][i].kind = u
    BY <1>3, <1>5, <1>8 DEF DatabaseTypeOK
  <2>3. next' \in 1..5 /\ InFlush("database")'
    BY <1>1, <1>3 DEF InFlush, batchVars
  <2> QED
    BY <1>7, <2>1, <2>2, <2>3 DEF DatabaseTypeOK
<1>11. RowsOnceInOrder'
  BY <1>3, <1>5, <1>8 DEF RowsOnceInOrder, TablesInv
<1>12. RowsAccountedFor'
  BY <1>1, <1>2, <1>9 DEF RowsAccountedFor, TablesInv, batchVars
<1>13. \A u \in Table : UpTo(tables'[u], Len(accepted'))
  BY <1>1, <1>5, <1>8 DEF TablesInv, batchVars
<1>14. ASSUME NEW k \in 1..4, next' <= k PROVE Before(tables'[Inserts[k]], batch')
  <2>1. k # next /\ next <= k
    BY <1>1, <1>14
  <2>2. Inserts[k] # t /\ Inserts[k] \in Table
    BY <1>1, <2>1, TableFacts DEF t
  <2> QED
    BY <1>1, <1>3, <1>5, <2>1, <2>2 DEF TablesInv, batchVars
<1>15. ASSUME NEW k \in 1..4, k < next', NEW e \in Range(batch'), e.kind = Inserts[k]
       PROVE  e \in DatabaseRows' \cup refused'
  <2>1. batch' = batch
    BY <1>1 DEF batchVars
  <2>2. CASE k = next
    BY <1>2, <1>9, <1>15, <2>1, <2>2 DEF t
  <2>3. CASE k < next
    BY <1>2, <1>9, <1>15, <2>1, <2>3 DEF TablesInv
  <2> QED
    BY <1>1, <1>15, <2>2, <2>3
<1>16. loop' \in {"selecting", "draining"} => aborted' \cap Range(batch') = {}
  BY <1>1, <1>2, <1>3 DEF TablesInv, batchVars
<1>17. \A e \in aborted' : e.n <= Len(accepted')
  <2>1. \A e \in Range(rows) : e.n <= Len(accepted)
    BY <1>3, <1>4 DEF UpTo, Range
  <2> QED
    BY <1>1, <1>2, <2>1 DEF TablesInv, batchVars
<1> QED
  BY <1>10, <1>11, <1>12, <1>13, <1>14, <1>15, <1>16, <1>17 DEF TablesInv
(* Every step keeps the invariant of the tables. *)
LEMMA TablesStep ==
  ASSUME QueueInv, TablesInv, [Next]_vars PROVE TablesInv'
<1>1. CASE Moves
  <2>1. /\ UNCHANGED <<sinkType, batch, accepted, refused, tables, next, aborted>>
        /\ \/ loop' = loop
           \/ loop = "selecting" /\ loop' \in {"flushing", "draining", "returned"}
    BY <1>1 DEF Moves, databaseVars
  <2>2. DatabaseTypeOK'
    BY <2>1 DEF TablesInv, DatabaseTypeOK, InFlush
  <2>3. RowsOnceInOrder' /\ RowsAccountedFor'
    BY <2>1 DEF TablesInv, RowsOnceInOrder, RowsAccountedFor, DatabaseRows
  <2>4. DatabaseRows' = DatabaseRows
    BY <2>1 DEF DatabaseRows
  <2>5. loop' # "returned" => loop # "returned"
    BY <2>1
  <2>6. loop' \in {"selecting", "draining"} => loop \in {"selecting", "draining"}
    BY <2>1
  <2>7. loop' # "returned" => \A k \in 1..4 : next' <= k => Before(tables'[Inserts[k]], batch')
    BY <2>1, <2>5 DEF TablesInv
  <2>8. \A t \in Table : UpTo(tables'[t], Len(accepted'))
    BY <2>1 DEF TablesInv
  <2>9. /\ loop' \in {"selecting", "draining"} => aborted' \cap Range(batch') = {}
        /\ \A e \in aborted' : e.n <= Len(accepted')
    BY <2>1, <2>6 DEF TablesInv
  <2>10. \A k \in 1..4 : k < next' =>
           \A e \in Range(batch') : e.kind = Inserts[k] => e \in DatabaseRows' \cup refused'
    BY <2>1, <2>4 DEF TablesInv
  <2> QED
    BY <2>2, <2>3, <2>7, <2>8, <2>9, <2>10 DEF TablesInv
<1>2. CASE FlushEnd
  <2>1. /\ UNCHANGED <<sinkType, accepted, refused, tables, aborted>>
        /\ next = 5 /\ next' = 1 /\ sinkType = "database"
        /\ \/ loop = "draining" /\ loop' = "returned" /\ batch' = batch
           \/ loop = "flushing" /\ loop' = "selecting" /\ batch' = <<>>
    BY <1>2 DEF FlushEnd, FlushReturns, InFlush
  <2>2. DatabaseTypeOK'
    BY <2>1 DEF TablesInv, DatabaseTypeOK
  <2>3. RowsOnceInOrder'
    BY <2>1 DEF TablesInv, RowsOnceInOrder
  <2>4. DatabaseRows' = DatabaseRows
    BY <2>1 DEF DatabaseRows
  <2>5. RowsAccountedFor'
    <3> SUFFICES ASSUME loop' # "returned", NEW e \in Range(accepted), e.kind \in Table
                 PROVE  e \in DatabaseRows \cup refused
      BY <2>1, <2>4 DEF RowsAccountedFor
    <3>1. e \in DatabaseRows \cup refused \cup Range(batch)
      BY <2>1 DEF TablesInv, RowsAccountedFor
    <3>2. PICK k \in 1..4 : e.kind = Inserts[k]
      BY TableFacts
    <3>3. e \in Range(batch) => e \in DatabaseRows \cup refused
      BY <2>1, <3>2 DEF TablesInv
    <3> QED
      BY <3>1, <3>3
  <2>6. loop' # "returned" => \A k \in 1..4 : next' <= k => Before(tables'[Inserts[k]], batch')
    BY <2>1, EmptyFacts
  <2>7. \A t \in Table : UpTo(tables'[t], Len(accepted'))
    BY <2>1 DEF TablesInv
  <2>8. \A k \in 1..4 : ~(k < next')
    BY <2>1
  <2>9. loop' \in {"selecting", "draining"} => aborted' \cap Range(batch') = {}
    BY <2>1, EmptyFacts
  <2>10. \A e \in aborted' : e.n <= Len(accepted')
    BY <2>1 DEF TablesInv
  <2> QED
    BY <2>2, <2>3, <2>5, <2>6, <2>7, <2>8, <2>9, <2>10 DEF TablesInv
<1>3. CASE Flush /\ UNCHANGED databaseVars
  <2>1. /\ UNCHANGED <<sinkType, accepted, tables, aborted, next>>
        /\ refused \subseteq refused' /\ sinkType = "parquet"
        /\ \/ loop = "draining" /\ loop' = "returned" /\ batch' = batch
           \/ loop = "flushing" /\ loop' = "selecting" /\ batch' = <<>>
    BY <1>3 DEF Flush, FlushReturns, InFlush, PutObject, PutObjectRefused, databaseVars
  <2>2. next = 1
    BY <2>1 DEF TablesInv, DatabaseTypeOK, InFlush
  <2>3. DatabaseTypeOK'
    BY <2>1, <2>2 DEF TablesInv, DatabaseTypeOK
  <2>4. RowsOnceInOrder' /\ RowsAccountedFor'
    BY <2>1 DEF TablesInv, RowsOnceInOrder, RowsAccountedFor
  <2>5. loop' # "returned" => \A k \in 1..4 : next' <= k => Before(tables'[Inserts[k]], batch')
    BY <2>1, EmptyFacts
  <2>6. \A t \in Table : UpTo(tables'[t], Len(accepted'))
    BY <2>1 DEF TablesInv
  <2>7. \A k \in 1..4 : ~(k < next')
    BY <2>1, <2>2
  <2>8. loop' \in {"selecting", "draining"} => aborted' \cap Range(batch') = {}
    BY <2>1, EmptyFacts
  <2>9. \A e \in aborted' : e.n <= Len(accepted')
    BY <2>1 DEF TablesInv
  <2> QED
    BY <2>3, <2>4, <2>5, <2>6, <2>7, <2>8, <2>9 DEF TablesInv
<1>4. CASE SecondPasses /\ UNCHANGED databaseVars
  BY <1>4 DEF SecondPasses, batchVars, databaseVars, TablesInv, DatabaseTypeOK, InFlush,
              RowsOnceInOrder, RowsAccountedFor, DatabaseRows
<1> QED
  BY <1>1, <1>2, <1>3, <1>4, NextCases, TablesAccept, TablesInsert
-----------------------------------------------------------------------------
(* The objects: an event arrives. *)
LEMMA ObjectsAccept ==
  ASSUME QueueInv, ObjectsInv, NEW kind \in Kind, Accept(kind), UNCHANGED <<refused, parquetVars>>
  PROVE  ObjectsInv'
<1>1. PICK e \in Event :
         /\ e.n = Len(accepted) + 1
         /\ Len(accepted') = Len(accepted) + 1
         /\ batch' = Append(batch, e)
         /\ Range(accepted') = Range(accepted) \cup {e}
         /\ Range(batch') = Range(batch) \cup {e}
  BY AcceptFacts
<1>2. loop = "selecting" /\ UNCHANGED <<sinkType, second, objects, replaced, refused>>
  BY DEF Accept, parquetVars
<1>3. ParquetTypeOK /\ objects \in [0..MaxSecond -> Seq(Event)]
  BY DEF ObjectsInv, ParquetTypeOK
<1>4. Len(accepted) \in Nat /\ batch \in Seq(Event) /\ Len(batch) \in Nat
  BY DEF QueueInv, BatchTypeOK
<1>5. ParquetTypeOK' /\ ObjectsInOrder'
  BY <1>2 DEF ObjectsInv, ParquetTypeOK, ObjectsInOrder
<1>6. ObjectsAccountedFor'
  <2>1. ObjectRows' = ObjectRows
    BY <1>2 DEF ObjectRows
  <2> QED
    BY <1>1, <1>2, <2>1 DEF ObjectsInv, ObjectsAccountedFor
<1>7. ASSUME NEW key \in 0..MaxSecond
      PROVE  /\ UpTo(objects[key], Len(accepted')) /\ Before(objects[key], batch')
             /\ second < key => objects[key] = <<>>
  <2>1. /\ UpTo(objects[key], Len(accepted)) /\ Before(objects[key], batch)
        /\ objects[key] \in Seq(Event)
        /\ second < key => objects[key] = <<>>
    BY <1>2, <1>3 DEF ObjectsInv
  <2> QED
    BY <1>1, <1>4, <2>1, LaterEvent
<1> QED
  BY <1>2, <1>5, <1>6, <1>7 DEF ObjectsInv

(* The objects: a batch is written, or refused. *)
LEMMA ObjectsFlush ==
  ASSUME QueueInv, ObjectsInv, Flush PROVE ObjectsInv'
<1>1. /\ UNCHANGED <<sinkType, accepted, second>> /\ refused \subseteq refused'
      /\ loop # "returned" /\ sinkType = "parquet"
      /\ \/ loop = "draining" /\ loop' = "returned" /\ batch' = batch
         \/ loop = "flushing" /\ loop' = "selecting" /\ batch' = <<>>
  BY DEF Flush, FlushReturns, InFlush, PutObject, PutObjectRefused
<1>2. /\ batch \in Seq(Event) /\ Ascending(batch) /\ UpTo(batch, Len(accepted))
      /\ Len(batch) <= MaxBatchSize
  BY DEF QueueInv, BatchTypeOK, BatchBounded
<1>3. /\ second \in 0..MaxSecond /\ objects \in [0..MaxSecond -> Seq(Event)]
      /\ \A key \in 0..MaxSecond :
           /\ Len(objects[key]) <= MaxBatchSize /\ Ascending(objects[key])
           /\ UpTo(objects[key], Len(accepted)) /\ Before(objects[key], batch)
           /\ second < key => objects[key] = <<>>
      /\ replaced \subseteq Event
  BY <1>1 DEF ObjectsInv, ParquetTypeOK, ObjectsInOrder
<1>4. \A a, b \in 0..MaxSecond : a < b => Before(objects[a], objects[b])
  BY DEF ObjectsInv, ObjectsInOrder, Before
<1>5. loop' # "returned" => \A key \in 0..MaxSecond : Before(objects'[key], batch')
  BY <1>1, EmptyFacts
<1>6. CASE UNCHANGED <<objects, replaced>> /\ Range(batch) \subseteq refused'
  <2>1. ParquetTypeOK' /\ ObjectsInOrder'
    BY <1>1, <1>6 DEF ObjectsInv, ParquetTypeOK, ObjectsInOrder
  <2>2. ObjectsAccountedFor'
    BY <1>1, <1>6 DEF ObjectsInv, ObjectsAccountedFor, ObjectRows
  <2> QED
    BY <1>1, <1>3, <1>5, <1>6, <2>1, <2>2 DEF ObjectsInv
<1>7. CASE /\ objects' = [objects EXCEPT ![second] = batch]
           /\ replaced' = replaced \cup Range(objects[second])
  <2>1. objects'[second] = batch /\ \A key \in 0..MaxSecond : key # second => objects'[key] = objects[key]
    BY <1>3, <1>7
  <2>2. ParquetTypeOK'
    <3>1. objects' \in [0..MaxSecond -> Seq(Event)]
      BY <1>2, <1>3, <1>7
    <3>2. replaced' \subseteq Event
      BY <1>3, <1>7, RangeIsEvents
    <3>3. \A key \in 0..MaxSecond : Len(objects'[key]) <= MaxBatchSize
      BY <1>2, <1>3, <2>1
    <3> QED
      BY <1>1, <1>3, <3>1, <3>2, <3>3 DEF ParquetTypeOK
  <2>3. \A key \in 0..MaxSecond :
          /\ Ascending(objects'[key])
          /\ UpTo(objects'[key], Len(accepted'))
          /\ second' < key => objects'[key] = <<>>
    <3> SUFFICES ASSUME NEW key \in 0..MaxSecond
                 PROVE  /\ Ascending(objects'[key])
                        /\ UpTo(objects'[key], Len(accepted'))
                        /\ second' < key => objects'[key] = <<>>
      OBVIOUS
    <3>1. CASE key = second
      <4>1. ~(second' < key)
        BY <1>1, <1>3, <3>1
      <4> QED
        BY <1>1, <1>2, <2>1, <3>1, <4>1
    <3>2. CASE key # second
      BY <1>1, <1>3, <2>1, <3>2
    <3> QED
      BY <3>1, <3>2
  <2>4. ASSUME NEW a \in 0..MaxSecond, NEW b \in 0..MaxSecond, a < b
        PROVE  Before(objects'[a], objects'[b])
    <3>1. CASE a = second
      <4>1. objects'[b] = <<>>
        BY <1>3, <2>1, <2>4, <3>1
      <4> QED
        BY <4>1, EmptyFacts
    <3>2. CASE a # second /\ b = second
      BY <1>3, <2>1, <3>2
    <3>3. CASE a # second /\ b # second
      BY <1>4, <2>1, <2>4, <3>3
    <3> QED
      BY <3>1, <3>2, <3>3
  <2>5. ObjectsInOrder'
    BY <2>3, <2>4 DEF ObjectsInOrder, Before
  <2>6. ObjectsAccountedFor'
    <3> SUFFICES ASSUME NEW e \in Range(accepted)
                 PROVE  e \in ObjectRows' \cup refused' \cup replaced'
      BY <1>1 DEF ObjectsAccountedFor
    <3>1. e \in ObjectRows \cup Range(batch) \cup refused \cup replaced
      BY <1>1 DEF ObjectsInv, ObjectsAccountedFor
    <3>2. CASE e \in ObjectRows
      <4>1. PICK key \in 0..MaxSecond : e \in Range(objects[key])
        BY <3>2 DEF ObjectRows
      <4>2. e \in Range(objects'[key]) \/ e \in replaced'
        BY <1>7, <2>1, <4>1
      <4> QED
        BY <4>2 DEF ObjectRows
    <3>3. CASE e \in Range(batch)
      BY <1>3, <2>1, <3>3 DEF ObjectRows
    <3>4. CASE e \in refused \cup replaced
      BY <1>1, <1>7, <3>4
    <3> QED
      BY <3>1, <3>2, <3>3, <3>4
  <2> QED
    BY <1>5, <2>2, <2>3, <2>5, <2>6 DEF ObjectsInv
<1> QED
  BY <1>6, <1>7 DEF Flush, PutObject, PutObjectRefused, objectKey

(* Every step keeps the invariant of the objects. *)
LEMMA ObjectsStep ==
  ASSUME QueueInv, TablesInv, ObjectsInv, [Next]_vars PROVE ObjectsInv'
<1>1. CASE Moves
  <2>1. /\ UNCHANGED <<sinkType, batch, accepted, refused, second, objects, replaced>>
        /\ loop' # "returned" => loop # "returned"
    BY <1>1 DEF Moves, parquetVars
  <2> QED
    BY <2>1 DEF ObjectsInv, ParquetTypeOK, ObjectsInOrder, ObjectsAccountedFor, ObjectRows
<1>2. CASE Insert /\ UNCHANGED parquetVars
  <2>1. UNCHANGED batchVars
    BY <1>2, InsertFacts
  <2>2. sinkType = "database"
    BY <1>2 DEF Insert, InFlush
  <2> QED
    BY <1>2, <2>1, <2>2 DEF ObjectsInv, ParquetTypeOK, ObjectsInOrder, ObjectsAccountedFor, ObjectRows, batchVars, parquetVars
<1>3. CASE FlushEnd /\ UNCHANGED parquetVars
  <2>1. /\ UNCHANGED <<sinkType, accepted, second, objects, replaced>> /\ sinkType = "database"
        /\ \/ loop' = "returned" /\ batch' = batch
           \/ batch' = <<>>
    BY <1>3 DEF FlushEnd, FlushReturns, InFlush, parquetVars
  <2>2. ParquetTypeOK' /\ ObjectsInOrder' /\ ObjectsAccountedFor'
    BY <2>1 DEF ObjectsInv, ParquetTypeOK, ObjectsInOrder, ObjectsAccountedFor, ObjectRows
  <2> QED
    BY <2>1, <2>2, EmptyFacts DEF ObjectsInv
<1>4. CASE SecondPasses
  <2>1. UNCHANGED <<batchVars, refused, objects, replaced>> /\ second' = second + 1 /\ second < MaxSecond
    BY <1>4 DEF SecondPasses
  <2>2. second \in 0..MaxSecond /\ MaxSecond \in Nat
    BY S3Assumption DEF ObjectsInv, ParquetTypeOK
  <2>3. ParquetTypeOK'
    BY <2>1, <2>2 DEF ObjectsInv, ParquetTypeOK
  <2>4. ObjectsInOrder' /\ ObjectsAccountedFor'
    BY <2>1 DEF ObjectsInv, ObjectsInOrder, ObjectsAccountedFor, ObjectRows, batchVars
  <2>5. \A key \in 0..MaxSecond : second' < key => second < key
    BY <2>1, <2>2
  <2> QED
    BY <2>1, <2>3, <2>4, <2>5 DEF ObjectsInv, batchVars
<1> QED
  BY <1>1, <1>2, <1>3, <1>4, NextCases, ObjectsAccept, ObjectsFlush

-----------------------------------------------------------------------------
(* The inductive invariant of the two sinks. *)
THEOREM BatchInvariant == Spec => []BatchInv
<1>1. BatchInv /\ [Next]_vars => BatchInv'
  BY QueueStep, TablesStep, ObjectsStep DEF BatchInv
<1> QED
  BY <1>1, InitInv, PTL DEF Spec

(* The state has its types and the batch never outgrows max_batch_size,     *)
(* however slow or faulty the flushes are.                                  *)
THEOREM BatchTypeCorrect == Spec => []TypeOK
<1>1. BatchInv => TypeOK
  BY DEF BatchInv, QueueInv, TablesInv, ObjectsInv, TypeOK
<1> QED
  BY <1>1, BatchInvariant, PTL

(* No row of a table and no event of an object is written twice or out of   *)
(* order, although doSink reuses the batch and an INSERT or PutObject that  *)
(* was applied may report an error.                                         *)
THEOREM WritesOnceInOrder == Spec => []WrittenOnceInOrder
<1>1. BatchInv => WrittenOnceInOrder
  BY DEF BatchInv, TablesInv, ObjectsInv, WrittenOnceInOrder
<1> QED
  BY <1>1, BatchInvariant, PTL

(* While doSink runs, an event it received is written or in the batch, or   *)
(* its own write failed, or its object was written over.                    *)
THEOREM LosesNothing == Spec => []NothingVanishes
<1>1. BatchInv => NothingVanishes
  BY DEF BatchInv, TablesInv, ObjectsInv, NothingVanishes
<1> QED
  BY <1>1, BatchInvariant, PTL

(* The flush before doSink returns is not refused because the context is    *)
(* done, even when the flush before it was.                                 *)
THEOREM LastFlushRuns == Spec => []LastFlushIsNotCancelled
<1>1. BatchInv => LastFlushIsNotCancelled
  BY DEF BatchInv, TablesInv, LastFlushIsNotCancelled
<1> QED
  BY <1>1, BatchInvariant, PTL
=============================================================================
