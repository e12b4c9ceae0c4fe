----------------------- MODULE OperationalOutputProofs -----------------------
(***************************************************************************)
(* The invariants of OperationalOutput for any budgets, page sizes, queue  *)
(* length and plans of the writers.                                        *)
(*                                                                         *)
(* The parts of the inductive invariant OutputInv are predicates on the    *)
(* values of the store, the history, the hub and the reader.  A page is    *)
(* shown to be an initial part of what lies ahead of its cursor; an append *)
(* takes the store's next sequence, which no cursor has reached; the queue *)
(* of the hub foretells what its reader will know; and a step of the       *)
(* reader moves its cursor only over what it was shown or told, or what a  *)
(* gap event announced, whose records are in the queue of an open stream.  *)
(***************************************************************************)
EXTENDS OperationalOutput, FiniteSetTheorems, WellFoundedInduction, SequenceTheorems, TLAPS

-----------------------------------------------------------------------------
(* Types. *)

RecordKinds == {"output", "progress", "truncated", "closed"}
Scopes == {"local", "remote", "run"}

OutputRecords ==
  [seq : Nat \ {0}, run : OutputRuns, scope : Scopes, value : Nat, kind : RecordKinds, bytes : Nat]

RunRows == [state : {"none", "active", "closed"}, bytes : Nat, first : Nat, last : Nat]

ProgressRows == [value : Nat, seq : Nat, status : {"none", "active", "closed"}]

Stores ==
  [records : SUBSET OutputRecords, next : Nat \ {0}, runs : [OutputRuns -> RunRows],
   pruned : Nat, prunedRuns : [OutputRuns -> Nat], remote : Seq(Nat), progress : ProgressRows]

Acts == {"log", "progress", "stream", "chunk", "exit"}

Hosts ==
  [phase : {"running", "flushed", "done", "dead"}, plan : Seq(Acts), records : Nat, most : Nat,
   settled : SUBSET OutputRuns, emitted : BOOLEAN, latest : Nat,
   stream : {"none", "open", "closed", "failed"}, streamBytes : Nat, streamTruncated : BOOLEAN]

Events ==
  [kind : {"gap", "record", "heartbeat", "closed"}, cursor : Nat, gap : Nat,
   record : OutputRecords \cup {NoRecord}]

Hubs ==
  [waking : BOOLEAN, fresh : BOOLEAN, open : BOOLEAN, cursor : Nat, flushing : BOOLEAN,
   pages : Nat, queue : Seq(Events)]

Subjects == OutputRuns \cup {"workflow"}

Readers ==
  [subject : Subjects, mode : {"replay", "connect", "follow", "done"}, cursor : Nat,
   shown : Seq(Nat), gap : Nat, ended : BOOLEAN, ahead : SUBSET Nat, passed : SUBSET Nat]

OutputTypes ==
  /\ ooStore \in Stores /\ ooHistory \in SUBSET OutputRecords
  /\ ooHost \in Hosts /\ ooHub \in Hubs /\ ooReader \in Readers
  /\ ooFaults \in 0..MaxOutputFaults

-----------------------------------------------------------------------------
(* The inductive invariant. *)

(* A record of the history H is in the store or was pruned, and its        *)
(* sequence names it.                                                      *)
StoreSound(st, H) ==
  /\ IsFiniteSet(st.records) /\ st.records \subseteq H
  /\ \A x \in H : x.seq < st.next
  /\ \A x, y \in H : x.seq = y.seq => x = y
  /\ \A x \in H : x \in st.records \/ x.seq <= st.prunedRuns[x.run]
  /\ \A x \in st.records : x.seq <= st.runs[x.run].last
  /\ \A r \in OutputRuns : st.runs[r].last < st.next /\ st.prunedRuns[r] <= st.pruned
  /\ st.pruned < st.next

(* The newest progress is in the history before its attempt is closed. *)
ReportedBefore(H, run, value, seq) ==
  \E y \in H : y.kind = "progress" /\ y.run = run /\ y.value = value /\ y.seq < seq

ProgressSound(st, H, host) ==
  /\ \A x \in H : x.kind = "closed" /\ x.value > 0 => ReportedBefore(H, x.run, x.value, x.seq)
  /\ host.phase = "flushed" /\ host.latest > 0 =>
       ReportedBefore(H, "local", host.latest, st.next)
  /\ host.phase \in {"running", "flushed"} => st.runs["local"].state # "closed"

(* What the reader was shown, told that it misses, or has passed over with *)
(* a connection that ended; and what it was announced on this connection.  *)
KnownTo(rd, n) ==
  \/ n <= rd.gap \/ n \in rd.passed
  \/ \E i \in DOMAIN rd.shown : rd.shown[i] = n

ToldOf(rd, n) == KnownTo(rd, n) \/ n \in rd.ahead

ReaderSound(H, rd) ==
  /\ \A i, j \in DOMAIN rd.shown : i < j => rd.shown[i] < rd.shown[j]
  /\ \A i \in DOMAIN rd.shown :
       rd.shown[i] <= rd.cursor /\ \E z \in H : z.seq = rd.shown[i] /\ InScope(z, rd.subject)
  /\ \A x \in H : InScope(x, rd.subject) /\ x.seq <= rd.cursor => ToldOf(rd, x.seq)

(* An event that shows the record n, or tells of a gap that it lies in. *)
Tells(e, n) ==
  \/ e.kind = "record" /\ e.cursor = n
  \/ e.kind = "gap" /\ (n <= e.gap \/ n <= e.cursor)

(* What the reader will know once it has received the first k events. *)
Foretold(rd, q, k, n) == ToldOf(rd, n) \/ \E j \in DOMAIN q : j <= k /\ Tells(q[j], n)

QueueSound(H, rd, q) ==
  /\ \A i \in DOMAIN q : q[i].kind = "record" =>
       /\ q[i].record \in H /\ q[i].record.seq = q[i].cursor
       /\ InScope(q[i].record, rd.subject)
       /\ \A k \in DOMAIN rd.shown : rd.shown[k] < q[i].cursor
  /\ \A i, j \in DOMAIN q :
       q[i].kind = "record" /\ q[j].kind = "record" /\ i < j => q[i].cursor < q[j].cursor
  /\ \A i \in DOMAIN q : \A x \in H :
       InScope(x, rd.subject) /\ x.seq <= q[i].cursor => Foretold(rd, q, i, x.seq)

(* What the hub has put on the way, when the stream is open, is all up to  *)
(* its cursor.                                                             *)
HubSound(H, hub, rd) ==
  hub.open =>
    /\ rd.cursor <= hub.cursor
    /\ \A i \in DOMAIN hub.queue : hub.queue[i].cursor <= hub.cursor
    /\ \A x \in H : InScope(x, rd.subject) /\ x.seq <= hub.cursor =>
         Foretold(rd, hub.queue, Len(hub.queue), x.seq)

(* No cursor is ahead of the store. *)
CursorsBehind(next, hub, rd) ==
  /\ rd.cursor < next /\ hub.cursor < next
  /\ \A i \in DOMAIN hub.queue : hub.queue[i].cursor < next

(* What is announced to the reader, or will be by a gap event in the queue; *)
(* as long as the stream is open, its records are on their way.             *)
Owed(rd, q, n) ==
  \/ n \in rd.ahead
  \/ \E i \in DOMAIN q : q[i].kind = "gap" /\ q[i].gap < n /\ n <= q[i].cursor

Coming(rd, q, n) ==
  KnownTo(rd, n) \/ \E j \in DOMAIN q : q[j].kind = "record" /\ q[j].cursor = n

PendingSound(H, hub, rd) ==
  /\ rd.mode # "follow" => rd.ahead = {}
  /\ \A n \in rd.ahead : n <= rd.cursor
  /\ hub.open => \A x \in H :
       InScope(x, rd.subject) /\ Owed(rd, hub.queue, x.seq) => Coming(rd, hub.queue, x.seq)

Following(hub, rd) == rd.mode # "follow" => ~hub.open /\ hub.queue = <<>>

(* What concerns the follower and the reader. *)
StreamSound(H, next, hub, rd) ==
  /\ ReaderSound(H, rd) /\ QueueSound(H, rd, hub.queue) /\ HubSound(H, hub, rd)
  /\ CursorsBehind(next, hub, rd) /\ Following(hub, rd) /\ PendingSound(H, hub, rd)

OutputInv ==
  /\ OutputTypes
  /\ StoreSound(ooStore, ooHistory)
  /\ ProgressSound(ooStore, ooHistory, ooHost)
  /\ StreamSound(ooHistory, ooStore.next, ooHub, ooReader)

-----------------------------------------------------------------------------
(* Largest and least of a few numbers. *)

(* The larger of two numbers. *)
LEMMA MaxOfTwo ==
  ASSUME NEW a \in Nat, NEW b \in Nat
  PROVE  Max({a, b}) \in {a, b} /\ Max({a, b}) >= a /\ Max({a, b}) >= b /\ Max({a, b}) \in Nat
<1>1. \E m \in {a, b} : \A k \in {a, b} : m >= k
  OBVIOUS
<1>2. Max({a, b}) \in {a, b} /\ \A k \in {a, b} : Max({a, b}) >= k
  BY <1>1 DEF Max
<1> QED BY <1>2

(* The smaller of two numbers. *)
LEMMA MinOfTwo ==
  ASSUME NEW a \in Int, NEW b \in Int
  PROVE  Min({a, b}) \in {a, b} /\ Min({a, b}) <= a /\ Min({a, b}) <= b /\ Min({a, b}) \in Int
<1>1. \E m \in {a, b} : \A k \in {a, b} : m <= k
  OBVIOUS
<1>2. Min({a, b}) \in {a, b} /\ \A k \in {a, b} : Min({a, b}) <= k
  BY <1>1 DEF Min
<1> QED BY <1>2

-----------------------------------------------------------------------------
(* A page: the records of a set in the order of their sequences. *)

UpTo(S, x) == {y \in S : y.seq <= x.seq}
Rank(S, x) == Cardinality(UpTo(S, x))

Named(S) == \A x, y \in S : x.seq = y.seq => x = y

(* Every place up to the size of the set is the rank of one record. *)
LEMMA RankFacts ==
  ASSUME NEW S, IsFiniteSet(S), S \subseteq OutputRecords, Named(S)
  PROVE  /\ \A x \in S : Rank(S, x) \in 1..Cardinality(S)
         /\ \A x, y \in S : x.seq < y.seq => Rank(S, x) < Rank(S, y)
         /\ \A i \in 1..Cardinality(S) : \E x \in S : Rank(S, x) = i
<1>1. Cardinality(S) \in Nat /\ \A x \in S : x.seq \in Nat
  BY FS_CardinalityType DEF OutputRecords
<1>2. ASSUME NEW x \in S PROVE IsFiniteSet(UpTo(S, x)) /\ Rank(S, x) \in 1..Cardinality(S)
  <2>1. UpTo(S, x) \in SUBSET S /\ x \in UpTo(S, x)
    BY <1>1 DEF UpTo
  <2>2. IsFiniteSet(UpTo(S, x)) /\ Cardinality(UpTo(S, x)) <= Cardinality(S)
    BY <2>1, FS_Subset
  <2>3. Cardinality(UpTo(S, x)) \in Nat /\ Cardinality(UpTo(S, x)) # 0
    BY <2>1, <2>2, FS_CardinalityType, FS_EmptySet
  <2> QED BY <1>1, <2>2, <2>3 DEF Rank
<1>3. ASSUME NEW x \in S, NEW y \in S, x.seq < y.seq PROVE Rank(S, x) < Rank(S, y)
  <2>1. UpTo(S, x) \in SUBSET UpTo(S, y)
    BY <1>1, <1>3 DEF UpTo
  <2>2. y \in UpTo(S, y) /\ y \notin UpTo(S, x)
    BY <1>1, <1>3 DEF UpTo
  <2>3. /\ Cardinality(UpTo(S, x)) <= Cardinality(UpTo(S, y))
        /\ Cardinality(UpTo(S, y)) = Cardinality(UpTo(S, x)) => UpTo(S, y) = UpTo(S, x)
    BY <1>2, <2>1, FS_Subset
  <2>4. Rank(S, x) \in Nat /\ Rank(S, y) \in Nat
    BY <1>1, <1>2
  <2> QED BY <2>2, <2>3, <2>4 DEF Rank
<1>4. ASSUME NEW i \in 1..Cardinality(S) PROVE \E x \in S : Rank(S, x) = i
  <2>1. PICK n \in Nat : n = Cardinality(S)
    BY <1>1
  <2>2. PICK f : f = [x \in S |-> Rank(S, x)]
    OBVIOUS
  <2>3. f \in [S -> 1..n]
    BY <1>2, <2>1, <2>2
  <2>4. \A x, y \in S : f[x] = f[y] => x = y
    <3> SUFFICES ASSUME NEW x \in S, NEW y \in S, f[x] = f[y] PROVE x = y
      OBVIOUS
    <3>1. Rank(S, x) = Rank(S, y) /\ Rank(S, x) \in Nat
      BY <1>1, <1>2, <2>2
    <3>2. ~(x.seq < y.seq) /\ ~(y.seq < x.seq)
      BY <1>3, <3>1
    <3>3. x.seq = y.seq
      BY <1>1, <3>2
    <3> QED BY <3>3 DEF Named
  <2>5. f \in Injection(S, 1..n)
    BY <2>3, <2>4 DEF Injection, IsInjective
  <2>6. IsFiniteSet(1..n) /\ Cardinality(1..n) = n
    BY FS_Interval
  <2>7. f \in Surjection(S, 1..n)
    BY <2>1, <2>5, <2>6, FS_Injection
  <2>8. \E x \in S : f[x] = i
    BY <2>1, <2>7 DEF Surjection
  <2> QED BY <2>2, <2>8
<1> QED BY <1>2, <1>3, <1>4

Paged(S, limit) ==
  [i \in 1..Min({limit, Cardinality(S)}) |-> CHOOSE x \in S : Cardinality({y \in S : y.seq <= x.seq}) = i]

(* A page is in order and leaves nothing out before its last record. *)
InitialPart(S, r) ==
  /\ r \in Seq(S)
  /\ \A i, j \in DOMAIN r : i < j => r[i].seq < r[j].seq
  /\ \A i \in DOMAIN r : \A y \in S :
       y.seq <= r[i].seq => \E j \in DOMAIN r : r[j] = y

(* A page is an initial part of what lies ahead: ranks run from 1 without a hole. *)
LEMMA PagedFacts ==
  ASSUME NEW S, IsFiniteSet(S), S \subseteq OutputRecords, Named(S), NEW limit \in Nat
  PROVE  InitialPart(S, Paged(S, limit))
<1>0. PICK r : r = Paged(S, limit)
  OBVIOUS
<1>1. Cardinality(S) \in Nat /\ \A x \in S : x.seq \in Nat
  BY FS_CardinalityType DEF OutputRecords
<1>2. PICK n \in Nat : n = Min({limit, Cardinality(S)})
  BY <1>1, MinOfTwo
<1>3. n <= Cardinality(S)
  BY <1>1, <1>2, MinOfTwo
<1>4. r = [i \in 1..n |-> CHOOSE x \in S : Rank(S, x) = i]
  BY <1>0, <1>2 DEF Paged, Rank, UpTo
<1>5. DOMAIN r = 1..n
  BY <1>4
<1>6. ASSUME NEW i \in 1..n PROVE r[i] \in S /\ Rank(S, r[i]) = i
  <2>1. i \in 1..Cardinality(S)
    BY <1>1, <1>3
  <2>2. \E x \in S : Rank(S, x) = i
    BY <2>1, RankFacts
  <2> QED BY <1>4, <2>2
<1>7. r \in [1..n -> S]
  BY <1>4, <1>5, <1>6
<1>8. r \in Seq(S)
  BY <1>7
<1>9. ASSUME NEW i \in 1..n, NEW j \in 1..n, i < j PROVE r[i].seq < r[j].seq
  <2>1. r[i] \in S /\ r[j] \in S /\ Rank(S, r[i]) = i /\ Rank(S, r[j]) = j
    BY <1>6
  <2>2. CASE r[i].seq = r[j].seq
    BY <1>9, <2>1, <2>2 DEF Named
  <2>3. CASE r[j].seq < r[i].seq
    BY <1>9, <2>1, <2>3, RankFacts
  <2> QED BY <1>1, <2>1, <2>2, <2>3
<1>10. ASSUME NEW i \in 1..n, NEW y \in S, y.seq <= r[i].seq PROVE \E j \in 1..n : r[j] = y
  <2>1. r[i] \in S /\ Rank(S, r[i]) = i
    BY <1>6
  <2>2. PICK k \in 1..Cardinality(S) : k = Rank(S, y)
    BY RankFacts
  <2>3. k <= i
    <3>1. CASE y.seq < r[i].seq
      <4>1. Rank(S, y) < Rank(S, r[i])
        BY <2>1, <3>1, RankFacts
      <4> QED BY <1>1, <2>1, <2>2, <4>1
    <3>2. CASE y.seq = r[i].seq
      <4>1. y = r[i]
        BY <2>1, <3>2 DEF Named
      <4> QED BY <2>1, <2>2, <4>1
    <3> QED BY <1>1, <1>10, <2>1, <3>1, <3>2
  <2>4. k \in 1..n
    BY <1>1, <2>2, <2>3
  <2>5. r[k] \in S /\ Rank(S, r[k]) = Rank(S, y)
    BY <1>6, <2>2, <2>4
  <2>6. r[k].seq = y.seq
    <3>1. Rank(S, y) \in Nat
      BY <1>1, <2>2
    <3>2. ~(r[k].seq < y.seq) /\ ~(y.seq < r[k].seq)
      BY <2>5, <3>1, RankFacts
    <3> QED BY <1>1, <2>5, <3>2
  <2>7. r[k] = y
    BY <2>5, <2>6 DEF Named
  <2> QED BY <2>4, <2>7
<1>11. InitialPart(S, r)
  BY <1>5, <1>8, <1>9, <1>10 DEF InitialPart
<1> QED BY <1>0, <1>11

(* A page behind the cursor after: its records are of the history and in   *)
(* order, and what lies up to its end is in it or in its gap.              *)
PageSound(H, top, subject, after, page) ==
  /\ page.records \in Seq(H) /\ page.next \in Nat /\ page.gap \in Nat
  /\ after <= page.next /\ page.next < top /\ (page.gap # 0 => after < page.gap)
  /\ \A i \in DOMAIN page.records :
       /\ InScope(page.records[i], subject)
       /\ after < page.records[i].seq /\ page.records[i].seq <= page.next
  /\ \A i, j \in DOMAIN page.records : i < j => page.records[i].seq < page.records[j].seq
  /\ \A x \in H : InScope(x, subject) /\ after < x.seq /\ x.seq <= page.next =>
       x.seq <= page.gap \/ \E j \in DOMAIN page.records : page.records[j] = x

(* ReadPage leaves out nothing between its cursor and its end but what it reports as a gap. *)
LEMMA PageFacts ==
  ASSUME NEW st \in Stores, NEW H \in SUBSET OutputRecords, StoreSound(st, H),
         NEW subject \in Subjects, NEW after \in Nat, after < st.next, NEW limit \in Nat,
         NEW page, page = ReadPage(st, subject, after, limit)
  PROVE  PageSound(H, st.next, subject, after, page)
<1>1. PICK pruned : pruned = PrunedThrough(st, subject)
  OBVIOUS
<1>2. /\ st.next \in Nat /\ pruned \in Nat /\ pruned < st.next
      /\ \A x \in H : InScope(x, subject) => x \in st.records \/ x.seq <= pruned
  <2>1. /\ st.next \in Nat /\ st.pruned \in Nat /\ st.prunedRuns \in [OutputRuns -> Nat]
    BY DEF Stores
  <2>2. \A x \in H : x.run \in OutputRuns /\ x.seq \in Nat
    BY DEF OutputRecords
  <2>3. CASE subject \in OutputRuns
    <3>1. pruned = st.prunedRuns[subject]
      BY <1>1, <2>3 DEF PrunedThrough
    <3> QED BY <2>1, <2>2, <2>3, <3>1 DEF StoreSound, InScope
  <2>4. CASE subject \notin OutputRuns
    <3>1. pruned = st.pruned
      BY <1>1, <2>4 DEF PrunedThrough
    <3> QED BY <2>1, <2>2, <2>4, <3>1 DEF StoreSound
  <2> QED BY <2>3, <2>4
<1>3. PICK scope : scope = {x \in st.records : InScope(x, subject)}
  OBVIOUS
<1>4. PICK from : from = IF subject \in OutputRuns THEN Max({after, pruned}) ELSE after
  OBVIOUS
<1>5. /\ from \in Nat /\ after <= from /\ from < st.next
      /\ from = after \/ (from = pruned /\ after < pruned)
  BY <1>2, <1>4, MaxOfTwo
<1>6. PICK ahead : ahead = {x \in scope : x.seq > from}
  OBVIOUS
<1>7. PICK latest : latest = Max({x.seq : x \in scope} \cup {pruned})
  OBVIOUS
<1>8. PICK records : records = Paged(ahead, limit)
  OBVIOUS
<1>9. PICK next : next = NextAfter(records, from, latest)
  OBVIOUS
<1>10. page = [records |-> records, next |-> next, more |-> next < latest,
               gap |-> IF after < pruned THEN pruned ELSE 0]
  BY <1>1, <1>3, <1>4, <1>6, <1>7, <1>8, <1>9 DEF ReadPage, Paged
<1>11. page.records = records /\ page.next = next /\ page.gap = IF after < pruned THEN pruned ELSE 0
  BY <1>10
<1>12. /\ ahead \subseteq st.records /\ st.records \subseteq H /\ IsFiniteSet(st.records)
       /\ \A x \in H : x.seq \in Nat \ {0} /\ x.seq < st.next
       /\ \A x \in ahead : InScope(x, subject) /\ x.seq > from
  BY <1>3, <1>6 DEF StoreSound, OutputRecords
<1>13. IsFiniteSet(ahead) /\ ahead \subseteq OutputRecords /\ Named(ahead)
  <2>1. ahead \in SUBSET st.records
    BY <1>12
  <2>2. IsFiniteSet(ahead)
    BY <1>12, <2>1, FS_Subset
  <2> QED BY <1>12, <2>2 DEF StoreSound, Named
<1>14. /\ records \in Seq(ahead)
       /\ \A i, j \in DOMAIN records : i < j => records[i].seq < records[j].seq
       /\ \A i \in DOMAIN records : \A y \in ahead :
            y.seq <= records[i].seq => \E j \in DOMAIN records : records[j] = y
  <2>1. InitialPart(ahead, records)
    BY <1>8, <1>13, PagedFacts
  <2> QED BY <2>1 DEF InitialPart
<1>15. \A i \in DOMAIN records : records[i] \in ahead /\ records[i] \in H
  BY <1>12, <1>14
<1>16. records \in Seq(H)
  BY <1>12, <1>14
<1>17. /\ next \in Nat /\ from <= next /\ next < st.next
       /\ \A i \in DOMAIN records : records[i].seq <= next
       /\ next = from \/ \E i \in DOMAIN records : next = records[i].seq
  <2>1. CASE records = <<>>
    <3>1. next = from /\ DOMAIN records = {}
      BY <1>9, <2>1 DEF NextAfter
    <3> QED BY <1>5, <3>1
  <2>2. CASE records # <<>>
    <3>1. PICK m : m = Len(records)
      OBVIOUS
    <3>2. m \in Nat /\ DOMAIN records = 1..m /\ m # 0
      BY <1>14, <2>2, <3>1, EmptySeq
    <3>3. m \in DOMAIN records /\ next = records[m].seq
      BY <1>9, <2>2, <3>1, <3>2 DEF NextAfter, Last
    <3>4. next \in Nat /\ from < next /\ next < st.next
      BY <1>5, <1>12, <1>15, <3>3
    <3>5. ASSUME NEW i \in DOMAIN records PROVE records[i].seq <= next
      <4>1. CASE i = m
        BY <3>3, <3>4, <4>1
      <4>2. CASE i # m
        <5>1. i < m
          BY <3>2, <4>2
        <5>2. records[i].seq < records[m].seq /\ records[i].seq \in Nat
          BY <1>12, <1>14, <1>15, <3>3, <5>1
        <5> QED BY <3>3, <3>4, <5>2
      <4> QED BY <4>1, <4>2
    <3> QED BY <1>5, <3>3, <3>4, <3>5
  <2> QED BY <2>1, <2>2
<1>18. \A i \in DOMAIN records :
         InScope(records[i], subject) /\ after < records[i].seq /\ records[i].seq <= next
  BY <1>5, <1>12, <1>15, <1>17
<1>19. ASSUME NEW x \in H, InScope(x, subject), after < x.seq, x.seq <= next
       PROVE  x.seq <= page.gap \/ \E j \in DOMAIN records : records[j] = x
  <2>1. x.seq \in Nat
    BY <1>12
  <2>2. CASE x.seq <= pruned
    BY <1>2, <1>11, <1>19, <2>1, <2>2
  <2>3. CASE ~(x.seq <= pruned)
    <3>1. x \in st.records /\ x.seq > from
      BY <1>2, <1>5, <1>19, <2>1, <2>3
    <3>2. x \in ahead
      BY <1>3, <1>6, <1>19, <3>1
    <3>3. next # from
      BY <1>5, <1>17, <1>19, <2>1, <3>1
    <3>4. PICK i \in DOMAIN records : next = records[i].seq
      BY <1>17, <3>3
    <3> QED BY <1>14, <1>19, <3>2, <3>4
  <2> QED BY <2>2, <2>3
<1>20. page.gap \in Nat /\ after <= next /\ (page.gap # 0 => after < page.gap)
  BY <1>2, <1>5, <1>11, <1>17
<1> QED BY <1>11, <1>14, <1>16, <1>17, <1>18, <1>19, <1>20 DEF PageSound

-----------------------------------------------------------------------------
(* Appends. *)

Drafts ==
  [run : OutputRuns, scope : Scopes, kind : RecordKinds, bytes : Nat, value : Nat, remote : Nat]

(* Stores that differ in the worker's numbers and the progress alone. *)
SameTables(st, new) ==
  /\ new \in Stores
  /\ new.records = st.records /\ new.next = st.next /\ new.runs = st.runs
  /\ new.pruned = st.pruned /\ new.prunedRuns = st.prunedRuns

(* The worker's numbers are remembered. *)
LEMMA RememberFacts ==
  ASSUME NEW st \in Stores, NEW d \in Drafts, NEW n \in Nat
  PROVE  SameTables(st, RememberRemote(st, d, n))
<1>1. PICK new : new = RememberRemote(st, d, n)
  OBVIOUS
<1>2. CASE d.remote = 0
  BY <1>1, <1>2 DEF RememberRemote, SameTables
<1>3. CASE d.remote # 0
  <2>1. PICK numbers : numbers = Append(st.remote, n)
    OBVIOUS
  <2>2. st.remote \in Seq(Nat)
    BY DEF Stores
  <2>3. numbers \in Seq(Nat)
    BY <2>1, <2>2, AppendProperties
  <2>4. new = [st EXCEPT !.remote = numbers]
    BY <1>1, <1>3, <2>1 DEF RememberRemote
  <2>5. SameTables(st, new)
    BY <2>3, <2>4 DEF SameTables, Stores
  <2> QED BY <1>1, <2>5
<1> QED BY <1>1, <1>2, <1>3

(* The tables with a record more, of the sequence that was next. *)
Inserts(st, x, new) ==
  /\ new \in Stores
  /\ new.records = st.records \cup {x} /\ new.next = st.next + 1
  /\ new.pruned = st.pruned /\ new.prunedRuns = st.prunedRuns
  /\ new.runs[x.run].last = x.seq
  /\ new.runs[x.run].state = IF x.kind = "closed" /\ x.scope = RunScope THEN "closed" ELSE "active"
  /\ \A r \in OutputRuns \ {x.run} : new.runs[r] = st.runs[r]

(* Insert adds the record and touches the row of its run alone. *)
LEMMA InsertFacts ==
  ASSUME NEW st \in Stores, NEW x \in OutputRecords, x.seq = st.next
  PROVE  Inserts(st, x, Insert(st, x))
<1>1. PICK a : a = [st EXCEPT !.records = @ \cup {x}, !.next = @ + 1]
  OBVIOUS
<1>2. /\ x.run \in OutputRuns /\ x.seq \in Nat /\ x.bytes \in Nat /\ x.value \in Nat
      /\ st.records \subseteq OutputRecords /\ st.next \in Nat \ {0}
      /\ st.progress \in ProgressRows /\ st.runs \in [OutputRuns -> RunRows]
  BY DEF Stores, OutputRecords
<1>3. PICK s : s = st.records \cup {x}
  OBVIOUS
<1>4. PICK n : n = st.next + 1
  OBVIOUS
<1>5. s \in SUBSET OutputRecords /\ n \in Nat \ {0}
  BY <1>2, <1>3, <1>4
<1>6. a = [st EXCEPT !.records = s, !.next = n]
  BY <1>1, <1>3, <1>4
<1>7. /\ a \in Stores /\ a.records = s /\ a.next = n /\ a.runs = st.runs
      /\ a.pruned = st.pruned /\ a.prunedRuns = st.prunedRuns /\ a.progress = st.progress
  BY <1>5, <1>6 DEF Stores
<1>8. PICK row : row = RunRow(IF x.kind = "closed" /\ x.scope = RunScope THEN "closed" ELSE "active",
                              st.runs[x.run].bytes + x.bytes,
                              IF st.runs[x.run].state = "none" THEN x.seq ELSE st.runs[x.run].first, x.seq)
  OBVIOUS
<1>9. /\ row \in RunRows /\ row.last = x.seq
      /\ row.state = IF x.kind = "closed" /\ x.scope = RunScope THEN "closed" ELSE "active"
  <2>1. st.runs[x.run] \in RunRows
    BY <1>2
  <2>2. st.runs[x.run].bytes + x.bytes \in Nat /\ st.runs[x.run].first \in Nat
    BY <1>2, <2>1 DEF RunRows
  <2> QED BY <1>2, <1>8, <2>2 DEF RunRow, RunRows
<1>10. PICK rows : rows = [st.runs EXCEPT ![x.run] = row]
  OBVIOUS
<1>11. /\ rows \in [OutputRuns -> RunRows] /\ rows[x.run] = row
       /\ \A r \in OutputRuns \ {x.run} : rows[r] = st.runs[r]
  BY <1>2, <1>9, <1>10
<1>12. PICK status : status = IF x.kind = "closed" /\ x.run = "local" /\ st.progress.status # "none"
                              THEN "closed" ELSE st.progress.status
  OBVIOUS
<1>13. PICK prog : prog = [st.progress EXCEPT !.status = status]
  OBVIOUS
<1>14. prog \in ProgressRows
  BY <1>2, <1>12, <1>13 DEF ProgressRows
<1>15. PICK b : b = UpdateRunAccounting(a, x)
  OBVIOUS
<1>16. b = [a EXCEPT !.runs = rows, !.progress = prog]
  <2>1. b = [a EXCEPT !.runs[x.run] = row, !.progress.status = status]
    BY <1>7, <1>8, <1>12, <1>15 DEF UpdateRunAccounting
  <2>2. [a EXCEPT !.runs[x.run] = row, !.progress.status = status]
          = [a EXCEPT !.runs = [a.runs EXCEPT ![x.run] = row],
                      !.progress = [a.progress EXCEPT !.status = status]]
    BY <1>7 DEF Stores
  <2> QED BY <1>7, <1>10, <1>13, <2>1, <2>2
<1>17. /\ b \in Stores /\ b.records = s /\ b.next = n /\ b.runs = rows
       /\ b.pruned = st.pruned /\ b.prunedRuns = st.prunedRuns
  BY <1>7, <1>11, <1>14, <1>16 DEF Stores
<1>18. PICK c : c = UpdateProgressProjection(b, x)
  OBVIOUS
<1>19. /\ c \in Stores /\ c.records = s /\ c.next = n /\ c.runs = rows
       /\ c.pruned = st.pruned /\ c.prunedRuns = st.prunedRuns
  <2>1. CASE x.kind # "progress"
    BY <1>17, <1>18, <2>1 DEF UpdateProgressProjection
  <2>2. CASE x.kind = "progress"
    <3>1. PICK p : p = [value |-> x.value, seq |-> x.seq, status |-> "active"]
      OBVIOUS
    <3>2. p \in ProgressRows /\ c = [b EXCEPT !.progress = p]
      BY <1>2, <1>18, <2>2, <3>1 DEF ProgressRows, UpdateProgressProjection
    <3> QED BY <1>17, <3>2 DEF Stores
  <2> QED BY <2>1, <2>2
<1>20. Insert(st, x) = c
  BY <1>1, <1>15, <1>18 DEF Insert
<1>21. Inserts(st, x, c)
  BY <1>3, <1>4, <1>9, <1>11, <1>19 DEF Inserts
<1> QED BY <1>20, <1>21

(* The tables stay sound when a record is inserted. *)
LEMMA InsertSound ==
  ASSUME NEW st \in Stores, NEW H \in SUBSET OutputRecords, StoreSound(st, H),
         NEW x \in OutputRecords, x.seq = st.next, NEW new, Inserts(st, x, new)
  PROVE  StoreSound(new, H \cup {x})
<1>1. /\ new.records = st.records \cup {x} /\ new.next = st.next + 1
      /\ new.pruned = st.pruned /\ new.prunedRuns = st.prunedRuns
      /\ new.runs[x.run].last = x.seq
      /\ \A r \in OutputRuns \ {x.run} : new.runs[r] = st.runs[r]
  BY DEF Inserts
<1>2. /\ st.next \in Nat /\ x.run \in OutputRuns /\ st.prunedRuns \in [OutputRuns -> Nat]
      /\ st.pruned \in Nat /\ st.runs \in [OutputRuns -> RunRows]
      /\ \A y \in H : y.seq \in Nat /\ y.run \in OutputRuns
      /\ \A r \in OutputRuns : st.runs[r].last \in Nat
  BY DEF Stores, OutputRecords, RunRows
<1>3. IsFiniteSet(new.records) /\ new.records \subseteq H \cup {x}
  BY <1>1, FS_AddElement DEF StoreSound
<1>4. \A y \in H \cup {x} : y.seq < new.next
  BY <1>1, <1>2 DEF StoreSound
<1>5. \A y, z \in H \cup {x} : y.seq = z.seq => y = z
  BY <1>2 DEF StoreSound
<1>6. \A y \in H \cup {x} : y \in new.records \/ y.seq <= new.prunedRuns[y.run]
  BY <1>1 DEF StoreSound
<1>7. \A y \in new.records : y.seq <= new.runs[y.run].last
  <2> SUFFICES ASSUME NEW y \in new.records PROVE y.seq <= new.runs[y.run].last
    OBVIOUS
  <2>1. y \in H \cup {x} /\ y.seq <= x.seq
    BY <1>1, <1>2, <1>3 DEF StoreSound
  <2>2. CASE y.run = x.run
    BY <1>1, <2>1, <2>2
  <2>3. CASE y.run # x.run
    <3>1. y \in st.records /\ y \in H
      BY <1>1, <2>3 DEF StoreSound
    <3>2. new.runs[y.run] = st.runs[y.run]
      BY <1>1, <1>2, <2>3, <3>1
    <3> QED BY <3>1, <3>2 DEF StoreSound
  <2> QED BY <2>2, <2>3
<1>8. \A r \in OutputRuns : new.runs[r].last < new.next /\ new.prunedRuns[r] <= new.pruned
  <2> SUFFICES ASSUME NEW r \in OutputRuns
               PROVE  new.runs[r].last < new.next /\ new.prunedRuns[r] <= new.pruned
    OBVIOUS
  <2>1. CASE r = x.run
    BY <1>1, <1>2, <2>1 DEF StoreSound
  <2>2. CASE r # x.run
    <3>1. new.runs[r] = st.runs[r] /\ st.runs[r].last < st.next /\ st.runs[r].last \in Nat
      BY <1>1, <1>2, <2>2 DEF StoreSound
    <3>2. new.prunedRuns[r] <= new.pruned
      BY <1>1 DEF StoreSound
    <3> QED BY <1>1, <1>2, <3>1, <3>2
  <2> QED BY <2>1, <2>2
<1>9. new.pruned < new.next
  BY <1>1, <1>2 DEF StoreSound
<1> QED BY <1>3, <1>4, <1>5, <1>6, <1>7, <1>8, <1>9 DEF StoreSound

(* What an append of the draft d makes of store and history. *)
AppendSound(st, H, d, done) ==
  /\ done.store \in Stores /\ done.added \in SUBSET OutputRecords
  /\ StoreSound(done.store, H \cup done.added)
  /\ st.next <= done.store.next
  /\ \A x \in done.added :
       /\ x.seq = st.next /\ x.run = d.run /\ x.value = d.value
       /\ x.kind \in {d.kind, "truncated"}
  /\ \A r \in OutputRuns : done.store.runs[r].state = "closed" =>
       st.runs[r].state = "closed" \/ (d.kind = "closed" /\ d.scope = RunScope /\ d.run = r)
  /\ d.kind # "output" /\ d.remote = 0 /\ st.runs[d.run].state # "closed" =>
       \E x \in done.added : x.kind = d.kind

(* The tables are sound whatever the worker's numbers and the progress are. *)
LEMMA SameTablesSound ==
  ASSUME NEW st, NEW H, StoreSound(st, H), NEW new, SameTables(st, new)
  PROVE  StoreSound(new, H)
BY DEF StoreSound, SameTables

(* The least of a set of naturals. *)
LEMMA LeastSequence ==
  ASSUME NEW S \in SUBSET Nat, S # {}
  PROVE  Min(S) \in Nat
<1>1. PICK m \in S : \A k \in S : ~(<<k, m>> \in OpToRel(<, Nat))
  BY WFMin, NatLessThanWellFounded, Zenon
<1>2. \A k \in S : m <= k
  <2> SUFFICES ASSUME NEW k \in S PROVE m <= k
    OBVIOUS
  <2>1. ~(k < m)
    BY <1>1 DEF OpToRel
  <2> QED BY <2>1
<1>3. Min(S) \in S
  BY <1>2 DEF Min
<1> QED BY <1>3

(* An append that leaves the tables as they are. *)
LEMMA NothingAdded ==
  ASSUME NEW st \in Stores, NEW H \in SUBSET OutputRecords, StoreSound(st, H),
         NEW d \in Drafts, NEW o, NEW new, SameTables(st, new),
         d.kind = "output" \/ d.remote # 0 \/ st.runs[d.run].state = "closed"
  PROVE  AppendSound(st, H, d, AppendResult(o, new, {}))
<1>1. PICK done : done = AppendResult(o, new, {})
  OBVIOUS
<1>2. done.store = new /\ done.added = {}
  BY <1>1 DEF AppendResult
<1>3. StoreSound(new, H) /\ H \cup {} = H
  BY SameTablesSound
<1>4. st.next \in Nat /\ new.next = st.next /\ new.runs = st.runs /\ new \in Stores
  BY DEF SameTables, Stores
<1>5. AppendSound(st, H, d, done)
  BY <1>2, <1>3, <1>4 DEF AppendSound
<1> QED BY <1>1, <1>5

(* AppendBounded adds at most one record, at the next sequence, to sound tables. *)
LEMMA AppendFacts ==
  ASSUME NEW st \in Stores, NEW H \in SUBSET OutputRecords, StoreSound(st, H), NEW d \in Drafts
  PROVE  AppendSound(st, H, d, AppendBounded(st, d))
<1>1. /\ d.run \in OutputRuns /\ d.scope \in Scopes /\ d.kind \in RecordKinds
      /\ d.bytes \in Nat /\ d.value \in Nat /\ d.remote \in Nat
  BY DEF Drafts
<1>2. Len(st.remote) \in Nat
  <2>1. st.remote \in Seq(Nat)
    BY DEF Stores
  <2> QED BY <2>1
<1>3. SameTables(st, st)
  BY DEF SameTables
<1>4. CASE d.remote > 0 /\ d.remote <= Len(st.remote)
  <2>1. AppendBounded(st, d) = AppendResult("duplicate", st, {}) /\ d.remote # 0
    BY <1>1, <1>2, <1>4 DEF AppendBounded
  <2> QED BY <1>3, <2>1, NothingAdded
<1>5. CASE d.remote > Len(st.remote) + 1
  <2>1. AppendBounded(st, d) = AppendResult("refused", st, {}) /\ d.remote # 0
    BY <1>1, <1>2, <1>5 DEF AppendBounded
  <2> QED BY <1>3, <2>1, NothingAdded
<1>6. CASE ~(d.remote > 0 /\ d.remote <= Len(st.remote)) /\ ~(d.remote > Len(st.remote) + 1)
  <2>1. AppendBounded(st, d) =
          IF st.runs[d.run].state = "closed" THEN AppendResult("refused", st, {})
          ELSE IF OverBudget(st, d) /\ Markers(st, d) # {}
          THEN AppendResult("dropped", RememberRemote(st, d, Min(Markers(st, d))), {})
          ELSE LET x == RecordOf(st, d)
               IN  AppendResult(x.kind, RememberRemote(Insert(st, x), d, x.seq), {x})
    BY <1>6 DEF AppendBounded
  <2>2. CASE st.runs[d.run].state = "closed"
    <3>1. AppendBounded(st, d) = AppendResult("refused", st, {})
      BY <2>1, <2>2
    <3> QED BY <1>3, <2>2, <3>1, NothingAdded
  <2>3. CASE st.runs[d.run].state # "closed" /\ OverBudget(st, d) /\ Markers(st, d) # {}
    <3>1. d.kind = "output"
      BY <2>3 DEF OverBudget
    <3>2. \A y \in st.records : y.seq \in Nat
      BY DEF Stores, OutputRecords
    <3>3. Markers(st, d) \in SUBSET Nat
      BY <3>2 DEF Markers, OfLane
    <3>4. Min(Markers(st, d)) \in Nat
      BY <2>3, <3>3, LeastSequence
    <3>5. PICK new : new = RememberRemote(st, d, Min(Markers(st, d)))
      OBVIOUS
    <3>6. SameTables(st, new)
      BY <3>4, <3>5, RememberFacts
    <3>7. AppendBounded(st, d) = AppendResult("dropped", new, {})
      BY <2>1, <2>3, <3>5
    <3> QED BY <3>1, <3>6, <3>7, NothingAdded
  <2>4. CASE st.runs[d.run].state # "closed" /\ ~(OverBudget(st, d) /\ Markers(st, d) # {})
    <3>1. PICK x : x = RecordOf(st, d)
      OBVIOUS
    <3>2. st.next \in Nat \ {0}
      BY DEF Stores
    <3>3. /\ x \in OutputRecords /\ x.seq = st.next /\ x.run = d.run /\ x.scope = d.scope
          /\ x.value = d.value /\ x.kind = IF OverBudget(st, d) THEN "truncated" ELSE d.kind
      BY <1>1, <3>1, <3>2 DEF RecordOf, OutputRecords, RecordKinds
    <3>4. OverBudget(st, d) => d.kind = "output"
      BY DEF OverBudget
    <3>5. PICK mid : mid = Insert(st, x)
      OBVIOUS
    <3>6. Inserts(st, x, mid)
      BY <3>3, <3>5, InsertFacts
    <3>7. StoreSound(mid, H \cup {x}) /\ mid \in Stores
      BY <3>3, <3>6, InsertSound DEF Inserts
    <3>8. PICK new : new = RememberRemote(mid, d, x.seq)
      OBVIOUS
    <3>9. SameTables(mid, new)
      BY <3>2, <3>3, <3>7, <3>8, RememberFacts
    <3>10. StoreSound(new, H \cup {x})
      BY <3>7, <3>9, SameTablesSound
    <3>11. PICK done : done = AppendBounded(st, d)
      OBVIOUS
    <3>12. done = AppendResult(x.kind, new, {x})
      BY <2>1, <2>4, <3>1, <3>5, <3>8, <3>11
    <3>13. done.store = new /\ done.added = {x}
      BY <3>12 DEF AppendResult
    <3>14. /\ new \in Stores /\ new.next = st.next + 1 /\ new.runs = mid.runs
      BY <3>6, <3>9 DEF SameTables, Inserts
    <3>15. \A r \in OutputRuns : new.runs[r].state = "closed" =>
             st.runs[r].state = "closed" \/ (d.kind = "closed" /\ d.scope = RunScope /\ d.run = r)
      <4> SUFFICES ASSUME NEW r \in OutputRuns, new.runs[r].state = "closed"
                   PROVE  st.runs[r].state = "closed" \/ (d.kind = "closed" /\ d.scope = RunScope /\ d.run = r)
        OBVIOUS
      <4>1. CASE r = x.run
        <5>1. x.kind = "closed" /\ x.scope = RunScope
          BY <3>6, <3>14, <4>1 DEF Inserts
        <5> QED BY <3>3, <4>1, <5>1
      <4>2. CASE r # x.run
        BY <3>6, <3>14, <4>2 DEF Inserts
      <4> QED BY <4>1, <4>2
    <3>16. d.kind # "output" => x.kind = d.kind
      BY <3>3, <3>4
    <3>17. AppendSound(st, H, d, done)
      BY <3>2, <3>3, <3>10, <3>13, <3>14, <3>15, <3>16 DEF AppendSound
    <3> QED BY <3>11, <3>17
  <2> QED BY <2>2, <2>3, <2>4
<1> QED BY <1>4, <1>5, <1>6

-----------------------------------------------------------------------------
(* Writers: nothing that is appended lies behind a cursor. *)

(* A record at the next sequence lies behind no cursor. *)
LEMMA HistoryGrows ==
  ASSUME NEW H \in SUBSET OutputRecords, NEW A \in SUBSET OutputRecords,
         NEW hub \in Hubs, NEW rd \in Readers, NEW next \in Nat, NEW top \in Nat, next <= top,
         \A x \in A : x.seq = next, StreamSound(H, next, hub, rd)
  PROVE  StreamSound(H \cup A, top, hub, rd)
<1>1. /\ ReaderSound(H, rd) /\ QueueSound(H, rd, hub.queue) /\ HubSound(H, hub, rd)
      /\ CursorsBehind(next, hub, rd) /\ Following(hub, rd) /\ PendingSound(H, hub, rd)
  BY DEF StreamSound
<1>2. /\ rd.cursor \in Nat /\ hub.cursor \in Nat /\ hub.queue \in Seq(Events)
  BY DEF Readers, Hubs
<1>3. \A i \in DOMAIN hub.queue : hub.queue[i].cursor \in Nat
  <2>1. \A i \in DOMAIN hub.queue : hub.queue[i] \in Events
    BY <1>2
  <2> QED BY <2>1 DEF Events
<1>4. /\ \A x \in A : ~(x.seq <= rd.cursor) /\ ~(x.seq <= hub.cursor)
      /\ \A i \in DOMAIN hub.queue : \A x \in A : ~(x.seq <= hub.queue[i].cursor)
  BY <1>1, <1>2, <1>3 DEF CursorsBehind
<1>5. ReaderSound(H \cup A, rd)
  BY <1>1, <1>4 DEF ReaderSound
<1>6. QueueSound(H \cup A, rd, hub.queue)
  BY <1>1, <1>4 DEF QueueSound
<1>7. HubSound(H \cup A, hub, rd)
  BY <1>1, <1>4 DEF HubSound
<1>8. CursorsBehind(top, hub, rd)
  BY <1>1, <1>2, <1>3 DEF CursorsBehind
<1>9. \A x \in A : ~Owed(rd, hub.queue, x.seq)
  BY <1>1, <1>4 DEF Owed, PendingSound
<1>10. PendingSound(H \cup A, hub, rd)
  BY <1>1, <1>9 DEF PendingSound
<1> QED BY <1>1, <1>5, <1>6, <1>7, <1>8, <1>10 DEF StreamSound

(* A hub whose stream is as it was. *)
SameStream(hub, new) ==
  new \in Hubs /\ new.open = hub.open /\ new.queue = hub.queue /\ new.cursor = hub.cursor

(* A hub that only wakes or forgets a wakeup leaves the stream sound. *)
LEMMA SameStreamSound ==
  ASSUME NEW H, NEW next, NEW hub, NEW rd, NEW new, StreamSound(H, next, hub, rd), SameStream(hub, new)
  PROVE  StreamSound(H, next, new, rd)
BY DEF StreamSound, SameStream, QueueSound, HubSound, CursorsBehind, Following, PendingSound

(* A step of a writer. *)
LEMMA WriteKeeps ==
  ASSUME OutputInv, NEW A \in SUBSET OutputRecords, \A x \in A : x.seq = ooStore.next,
         ooHistory' = ooHistory \cup A, ooStore' \in Stores, StoreSound(ooStore, ooHistory)',
         ooStore.next <= ooStore'.next, SameStream(ooHub, ooHub'), ooHost' \in Hosts,
         ProgressSound(ooStore, ooHistory, ooHost)', UNCHANGED <<ooReader, ooFaults>>
  PROVE  OutputInv'
<1>1. /\ OutputTypes /\ StreamSound(ooHistory, ooStore.next, ooHub, ooReader)
  BY DEF OutputInv
<1>2. ooStore.next \in Nat /\ ooStore'.next \in Nat
  BY <1>1 DEF OutputTypes, Stores
<1>3. StreamSound(ooHistory \cup A, ooStore'.next, ooHub, ooReader)
  BY <1>1, <1>2, HistoryGrows DEF OutputTypes
<1>4. StreamSound(ooHistory, ooStore.next, ooHub, ooReader)'
  BY <1>3, SameStreamSound
<1>5. OutputTypes'
  BY <1>1 DEF OutputTypes, SameStream
<1> QED BY <1>4, <1>5 DEF OutputInv

(* An append, with what it may say of the progress. *)
LEMMA AppendKeeps ==
  ASSUME OutputInv, NEW d \in Drafts, Appended(d), ooHost' \in Hosts,
         UNCHANGED <<ooReader, ooFaults>>,
         d.kind = "closed" /\ d.value > 0 => ReportedBefore(ooHistory, d.run, d.value, ooStore.next),
         ooHost'.phase = "flushed" /\ ooHost'.latest > 0 =>
           \/ ooHost.phase = "flushed" /\ ooHost'.latest = ooHost.latest
           \/ /\ d.kind = "progress" /\ d.run = "local" /\ d.value = ooHost'.latest
              /\ d.remote = 0 /\ ooHost.phase = "running",
         ooHost'.phase \in {"running", "flushed"} =>
           ooHost.phase \in {"running", "flushed"} /\ ~(d.scope = RunScope /\ d.run = "local")
  PROVE  OutputInv'
<1>1. /\ ooStore \in Stores /\ ooHistory \in SUBSET OutputRecords /\ ooHub \in Hubs
      /\ StoreSound(ooStore, ooHistory) /\ ProgressSound(ooStore, ooHistory, ooHost)
  BY DEF OutputInv, OutputTypes
<1>2. PICK done : done = AppendBounded(ooStore, d)
  OBVIOUS
<1>3. AppendSound(ooStore, ooHistory, d, done)
  BY <1>1, <1>2, AppendFacts
<1>4. /\ ooStore' = done.store /\ ooHistory' = ooHistory \cup done.added
      /\ ooHub' = IF done.added = {} THEN ooHub ELSE [ooHub EXCEPT !.waking = TRUE]
  BY <1>2 DEF Appended
<1>5. PICK A \in SUBSET OutputRecords : A = done.added
  BY <1>3 DEF AppendSound
<1>6. /\ \A x \in A : /\ x.seq = ooStore.next /\ x.run = d.run /\ x.value = d.value
                      /\ x.kind \in {d.kind, "truncated"}
      /\ ooHistory' = ooHistory \cup A /\ ooStore' \in Stores
      /\ StoreSound(ooStore', ooHistory') /\ ooStore.next <= ooStore'.next
      /\ ooStore'.runs["local"].state = "closed" =>
           ooStore.runs["local"].state = "closed" \/ (d.scope = RunScope /\ d.run = "local")
      /\ d.kind # "output" /\ d.remote = 0 /\ ooStore.runs[d.run].state # "closed" =>
           \E x \in A : x.kind = d.kind
  BY <1>3, <1>4, <1>5 DEF AppendSound, OutputRuns
<1>7. SameStream(ooHub, ooHub')
  BY <1>1, <1>4 DEF SameStream, Hubs
<1>8. /\ ooStore.next \in Nat /\ ooStore'.next \in Nat
      /\ \A x \in ooHistory \cup A : x.seq < ooStore'.next /\ x.seq \in Nat
  BY <1>1, <1>6 DEF StoreSound, Stores, OutputRecords
<1>9. \A run, value, seq : ReportedBefore(ooHistory, run, value, seq) => ReportedBefore(ooHistory', run, value, seq)
  BY <1>6 DEF ReportedBefore
<1>10. \A x \in ooHistory' : x.kind = "closed" /\ x.value > 0 =>
         ReportedBefore(ooHistory', x.run, x.value, x.seq)
  <2> SUFFICES ASSUME NEW x \in ooHistory', x.kind = "closed", x.value > 0
               PROVE  ReportedBefore(ooHistory', x.run, x.value, x.seq)
    OBVIOUS
  <2>1. CASE x \in ooHistory
    BY <1>1, <1>9, <2>1 DEF ProgressSound
  <2>2. CASE x \in A
    <3>1. d.kind = "closed" /\ d.value > 0 /\ x.run = d.run /\ x.value = d.value /\ x.seq = ooStore.next
      BY <1>6, <2>2
    <3> QED BY <1>9, <3>1
  <2> QED BY <1>6, <2>1, <2>2
<1>11. ASSUME ooHost'.phase = "flushed", ooHost'.latest > 0
       PROVE  ReportedBefore(ooHistory', "local", ooHost'.latest, ooStore'.next)
  <2>1. CASE ooHost.phase = "flushed" /\ ooHost'.latest = ooHost.latest
    <3>1. ReportedBefore(ooHistory, "local", ooHost.latest, ooStore.next)
      BY <1>1, <1>11, <2>1 DEF ProgressSound
    <3> QED BY <1>6, <1>8, <2>1, <3>1 DEF ReportedBefore
  <2>2. CASE /\ d.kind = "progress" /\ d.run = "local" /\ d.value = ooHost'.latest
             /\ d.remote = 0 /\ ooHost.phase = "running"
    <3>1. PICK x \in A : x.kind = "progress"
      BY <1>1, <1>6, <2>2 DEF ProgressSound
    <3>2. x \in ooHistory' /\ x.run = "local" /\ x.value = ooHost'.latest /\ x.seq < ooStore'.next
      BY <1>6, <1>8, <2>2, <3>1
    <3> QED BY <3>1, <3>2 DEF ReportedBefore
  <2> QED BY <1>11, <2>1, <2>2
<1>12. ooHost'.phase \in {"running", "flushed"} => ooStore'.runs["local"].state # "closed"
  BY <1>1, <1>6 DEF ProgressSound
<1>13. ProgressSound(ooStore', ooHistory', ooHost')
  BY <1>10, <1>11, <1>12 DEF ProgressSound
<1> QED BY <1>6, <1>7, <1>13, WriteKeeps


(* A step of the host alone. *)
LEMMA HostKeeps ==
  ASSUME OutputInv, ooHost' \in Hosts,
         UNCHANGED <<ooStore, ooHistory, ooHub, ooReader, ooFaults>>,
         ooHost'.phase = "flushed" /\ ooHost'.latest > 0 =>
           ooHost.phase = "flushed" /\ ooHost'.latest = ooHost.latest,
         ooHost'.phase \in {"running", "flushed"} => ooHost.phase \in {"running", "flushed"}
  PROVE  OutputInv'
<1>1. /\ OutputTypes /\ StoreSound(ooStore, ooHistory)
      /\ StreamSound(ooHistory, ooStore.next, ooHub, ooReader)
  BY DEF OutputInv
<1>2. ProgressSound(ooStore, ooHistory, ooHost')
  BY DEF OutputInv, ProgressSound
<1>3. OutputTypes'
  BY <1>1 DEF OutputTypes
<1> QED BY <1>1, <1>2, <1>3 DEF OutputInv

(* The host with the rest of its plan. *)
LEMMA PlanRest ==
  ASSUME NEW plan \in Seq(Acts), plan # <<>>
  PROVE  Tail(plan) \in Seq(Acts)
OBVIOUS

(* The drafts of the local attempt. *)
LEMMA LocalDrafts ==
  ASSUME NEW kind \in RecordKinds, NEW bytes \in Nat, NEW value \in Nat, NEW d,
         d = LocalDraft(kind, bytes, value)
  PROVE  /\ d \in Drafts /\ d.run = "local" /\ d.scope = "local" /\ d.scope # RunScope
         /\ d.kind = kind /\ d.value = value /\ d.remote = 0
BY DEF LocalDraft, Draft, Drafts, Lane, OutputRuns, Scopes, RunScope

(* A console record of the script. *)
LEMMA WriteScriptOutputKeeps ==
  ASSUME OutputInv, WriteScriptOutput
  PROVE  OutputInv'
<1>1. ooHost \in Hosts /\ ooHost.phase = "running" /\ ooHost.plan # <<>>
  BY DEF OutputInv, OutputTypes, WriteScriptOutput, NextAct
<1>2. PICK rest : rest = Tail(ooHost.plan)
  OBVIOUS
<1>3. rest \in Seq(Acts)
  BY <1>1, <1>2, PlanRest DEF Hosts
<1>4. ooHost' = [ooHost EXCEPT !.emitted = TRUE, !.plan = rest]
  BY <1>2 DEF WriteScriptOutput
<1>5. ooHost' \in Hosts /\ ooHost'.phase = "running"
  BY <1>1, <1>3, <1>4 DEF Hosts
<1>6. PICK d : d = LocalDraft("output", 1, 0)
  OBVIOUS
<1>7. d \in Drafts /\ d.scope # RunScope /\ d.kind = "output"
  BY <1>6, LocalDrafts DEF RecordKinds
<1>8. Appended(d) /\ UNCHANGED <<ooReader, ooFaults>>
  BY <1>6 DEF WriteScriptOutput
<1> QED BY <1>1, <1>5, <1>7, <1>8, AppendKeeps

(* A report within the cadence appends nothing. *)
LEMMA CoalesceKeeps ==
  ASSUME OutputInv, NEW value \in Nat, CoalesceProgress(value), ooHost' \in Hosts,
         ooHost.phase = "running", ooHost'.phase = "running", UNCHANGED <<ooReader, ooFaults>>
  PROVE  OutputInv'
<1>1. /\ ooStore \in Stores /\ ooHistory \in SUBSET OutputRecords /\ ooHub \in Hubs
      /\ StoreSound(ooStore, ooHistory) /\ ProgressSound(ooStore, ooHistory, ooHost)
  BY DEF OutputInv, OutputTypes
<1>2. PICK prog : prog = [ooStore.progress EXCEPT !.value = value, !.status = "active"]
  OBVIOUS
<1>3. prog \in ProgressRows
  BY <1>1, <1>2 DEF Stores, ProgressRows
<1>4. ooStore' = [ooStore EXCEPT !.progress = prog]
  BY <1>1, <1>2 DEF CoalesceProgress, Stores
<1>5. SameTables(ooStore, ooStore')
  BY <1>1, <1>3, <1>4 DEF SameTables, Stores
<1>6. StoreSound(ooStore', ooHistory) /\ ooHistory' = ooHistory /\ ooHistory' = ooHistory \cup {}
  BY <1>1, <1>5, SameTablesSound DEF CoalesceProgress
<1>7. ooStore' \in Stores /\ ooStore.next <= ooStore'.next /\ ooStore'.runs = ooStore.runs
  BY <1>1, <1>5 DEF SameTables, Stores
<1>8. SameStream(ooHub, ooHub')
  <2>1. PICK w : w = (ooHub.waking \/ ooHub.fresh)
    OBVIOUS
  <2>2. w \in BOOLEAN /\ ooHub' = [ooHub EXCEPT !.waking = w]
    BY <2>1 DEF CoalesceProgress
  <2> QED BY <1>1, <2>2 DEF SameStream, Hubs
<1>9. ProgressSound(ooStore', ooHistory', ooHost')
  BY <1>1, <1>6, <1>7 DEF ProgressSound
<1>10. {} \in SUBSET OutputRecords /\ \A x \in {} : x.seq = ooStore.next
  OBVIOUS
<1> QED BY <1>6, <1>7, <1>8, <1>9, <1>10, WriteKeeps

(* A progress report, appended or coalesced. *)
LEMMA ReportProgressKeeps ==
  ASSUME OutputInv, ReportProgress
  PROVE  OutputInv'
<1>1. ooHost \in Hosts /\ ooHost.phase = "running" /\ ooHost.plan # <<>>
  BY DEF OutputInv, OutputTypes, ReportProgress, NextAct
<1>2. PICK rest : rest = Tail(ooHost.plan)
  OBVIOUS
<1>3. rest \in Seq(Acts)
  BY <1>1, <1>2, PlanRest DEF Hosts
<1>4. PICK value : value = ooHost.latest + 1
  OBVIOUS
<1>5. value \in Nat
  BY <1>1, <1>4 DEF Hosts
<1>6. ooHost' = [ooHost EXCEPT !.emitted = TRUE, !.latest = value, !.plan = rest]
  BY <1>2, <1>4 DEF ReportProgress
<1>7. ooHost' \in Hosts /\ ooHost'.phase = "running"
  BY <1>1, <1>3, <1>5, <1>6 DEF Hosts
<1>8. /\ CoalesceProgress(value) \/ Appended(LocalDraft("progress", 0, value))
      /\ UNCHANGED <<ooReader, ooFaults>>
  BY <1>4 DEF ReportProgress
<1>9. CASE CoalesceProgress(value)
  BY <1>1, <1>5, <1>7, <1>8, <1>9, CoalesceKeeps
<1>10. CASE Appended(LocalDraft("progress", 0, value))
  <2>1. PICK d : d = LocalDraft("progress", 0, value)
    OBVIOUS
  <2>2. d \in Drafts /\ d.scope # RunScope /\ d.kind = "progress"
    BY <1>5, <2>1, LocalDrafts DEF RecordKinds
  <2>3. Appended(d)
    BY <1>10, <2>1
  <2> QED BY <1>1, <1>7, <1>8, <2>2, <2>3, AppendKeeps
<1> QED BY <1>8, <1>9, <1>10

(* A process that begins to stream moves the host alone. *)
LEMMA StartStreamKeeps ==
  ASSUME OutputInv, StartStream
  PROVE  OutputInv'
<1>1. ooHost \in Hosts /\ ooHost.phase = "running" /\ ooHost.plan # <<>>
  BY DEF OutputInv, OutputTypes, StartStream, NextAct
<1>2. PICK rest : rest = Tail(ooHost.plan)
  OBVIOUS
<1>3. rest \in Seq(Acts)
  BY <1>1, <1>2, PlanRest DEF Hosts
<1>4. ooHost' = [ooHost EXCEPT !.stream = "open", !.plan = rest,
                               !.streamBytes = 0, !.streamTruncated = FALSE]
  BY <1>2 DEF StartStream
<1>5. ooHost' \in Hosts /\ ooHost'.phase = "running"
  BY <1>1, <1>3, <1>4 DEF Hosts
<1>6. UNCHANGED <<ooStore, ooHistory, ooHub, ooReader, ooFaults>>
  BY DEF StartStream
<1> QED BY <1>1, <1>5, <1>6, HostKeeps

(* A chunk of a streamed process: dropped by its own budget, appended, or its failure. *)
LEMMA AppendProcessOutputKeeps ==
  ASSUME OutputInv, AppendProcessOutput
  PROVE  OutputInv'
<1>1. ooHost \in Hosts /\ ooHost.phase = "running" /\ ooHost.plan # <<>>
  BY DEF OutputInv, OutputTypes, AppendProcessOutput, NextAct
<1>2. PICK rest : rest = Tail(ooHost.plan)
  OBVIOUS
<1>3. rest \in Seq(Acts) /\ <<>> \in Seq(Acts)
  BY <1>1, <1>2, PlanRest DEF Hosts
<1>4. PICK over : over = (ooHost.streamBytes + 1 > MaxStreamBytes)
  OBVIOUS
<1>5. over \in BOOLEAN
  BY <1>4
<1>6. PICK bytes : bytes = IF over THEN ooHost.streamBytes ELSE ooHost.streamBytes + 1
  OBVIOUS
<1>7. bytes \in Nat
  BY <1>1, <1>6 DEF Hosts
<1>8. PICK d : d = LocalDraft(IF over THEN "truncated" ELSE "output", IF over THEN 0 ELSE 1, 0)
  OBVIOUS
<1>9. d \in Drafts /\ d.scope # RunScope /\ d.kind # "closed" /\ d.value = 0
  <2>1. CASE over
    BY <1>8, <2>1, LocalDrafts DEF RecordKinds
  <2>2. CASE ~over
    BY <1>8, <2>2, LocalDrafts DEF RecordKinds
  <2> QED BY <1>5, <2>1, <2>2
<1>10. UNCHANGED <<ooReader, ooFaults>>
  BY DEF AppendProcessOutput
<1>11. CASE ooHost.streamTruncated
  <2>1. ooHost' = [ooHost EXCEPT !.plan = rest] /\ UNCHANGED <<ooStore, ooHistory, ooHub>>
    BY <1>2, <1>11 DEF AppendProcessOutput
  <2>2. ooHost' \in Hosts /\ ooHost'.phase = "running"
    BY <1>1, <1>3, <2>1 DEF Hosts
  <2> QED BY <1>1, <1>10, <2>1, <2>2, HostKeeps
<1>12. CASE ~ooHost.streamTruncated
  <2>1. /\ Appended(d)
        /\ \/ ooHost' = [ooHost EXCEPT !.stream = "failed", !.plan = <<>>]
           \/ ooHost' = [ooHost EXCEPT !.streamTruncated = over, !.plan = rest, !.streamBytes = bytes]
    BY <1>2, <1>4, <1>6, <1>8, <1>12 DEF AppendProcessOutput
  <2>2. ooHost' \in Hosts /\ ooHost'.phase = "running"
    <3>1. CASE ooHost' = [ooHost EXCEPT !.stream = "failed", !.plan = <<>>]
      BY <1>1, <1>3, <3>1 DEF Hosts
    <3>2. CASE ooHost' = [ooHost EXCEPT !.streamTruncated = over, !.plan = rest, !.streamBytes = bytes]
      BY <1>1, <1>3, <1>5, <1>7, <3>2 DEF Hosts
    <3> QED BY <2>1, <3>1, <3>2
  <2> QED BY <1>1, <1>9, <1>10, <2>1, <2>2, AppendKeeps
<1> QED BY <1>11, <1>12

(* A process closes its stream without a value. *)
LEMMA CloseProcessStreamKeeps ==
  ASSUME OutputInv, CloseProcessStream
  PROVE  OutputInv'
<1>1. ooHost \in Hosts /\ ooHost.phase = "running" /\ ooHost.plan # <<>>
  BY DEF OutputInv, OutputTypes, CloseProcessStream, NextAct
<1>2. PICK rest : rest = Tail(ooHost.plan)
  OBVIOUS
<1>3. rest \in Seq(Acts)
  BY <1>1, <1>2, PlanRest DEF Hosts
<1>4. ooHost' = [ooHost EXCEPT !.stream = "closed", !.plan = rest]
  BY <1>2 DEF CloseProcessStream
<1>5. ooHost' \in Hosts /\ ooHost'.phase = "running"
  BY <1>1, <1>3, <1>4 DEF Hosts
<1>6. PICK d : d = LocalDraft("closed", 0, 0)
  OBVIOUS
<1>7. d \in Drafts /\ d.scope # RunScope /\ d.value = 0
  BY <1>6, LocalDrafts DEF RecordKinds
<1>8. Appended(d) /\ UNCHANGED <<ooReader, ooFaults>>
  BY <1>6 DEF CloseProcessStream
<1> QED BY <1>1, <1>5, <1>7, <1>8, AppendKeeps

(* The newest report is in the history when the script has completed. *)
LEMMA CompleteScriptKeeps ==
  ASSUME OutputInv, CompleteScript
  PROVE  OutputInv'
<1>1. ooHost \in Hosts /\ ooHost.phase = "running" /\ ooHost.latest \in Nat
  BY DEF OutputInv, OutputTypes, CompleteScript, Hosts
<1>2. ooHost' = [ooHost EXCEPT !.phase = "flushed"] /\ UNCHANGED <<ooReader, ooFaults>>
  BY DEF CompleteScript
<1>3. ooHost' \in Hosts /\ ooHost'.phase = "flushed" /\ ooHost'.latest = ooHost.latest
  BY <1>1, <1>2 DEF Hosts
<1>4. CASE ooHost.latest = 0
  <2>1. UNCHANGED <<ooStore, ooHistory, ooHub>>
    BY <1>4 DEF CompleteScript
  <2> QED BY <1>1, <1>2, <1>3, <1>4, <2>1, HostKeeps
<1>5. CASE ooHost.latest # 0
  <2>1. PICK d : d = LocalDraft("progress", 0, ooHost.latest)
    OBVIOUS
  <2>2. /\ d \in Drafts /\ d.run = "local" /\ d.scope # RunScope /\ d.kind = "progress"
        /\ d.value = ooHost.latest /\ d.remote = 0
    BY <1>1, <2>1, LocalDrafts DEF RecordKinds
  <2>3. Appended(d)
    BY <1>5, <2>1 DEF CompleteScript
  <2> QED BY <1>1, <1>2, <1>3, <2>2, <2>3, AppendKeeps
<1> QED BY <1>4, <1>5

(* The attempt is closed with the value that was flushed before. *)
LEMMA CloseAttemptKeeps ==
  ASSUME OutputInv, CloseAttempt
  PROVE  OutputInv'
<1>1. ooHost \in Hosts /\ ooHost.phase = "flushed" /\ ooHost.latest \in Nat
  BY DEF OutputInv, OutputTypes, CloseAttempt, Hosts
<1>2. ooHost' = [ooHost EXCEPT !.phase = "done"] /\ UNCHANGED <<ooReader, ooFaults>>
  BY DEF CloseAttempt
<1>3. ooHost' \in Hosts /\ ooHost'.phase = "done"
  BY <1>1, <1>2 DEF Hosts
<1>4. CASE ~ooHost.emitted
  <2>1. UNCHANGED <<ooStore, ooHistory, ooHub>>
    BY <1>4 DEF CloseAttempt
  <2> QED BY <1>2, <1>3, <2>1, HostKeeps
<1>5. CASE ooHost.emitted
  <2>1. PICK d : d = LocalDraft("closed", 0, ooHost.latest)
    OBVIOUS
  <2>2. d \in Drafts /\ d.run = "local" /\ d.value = ooHost.latest
    BY <1>1, <2>1, LocalDrafts DEF RecordKinds
  <2>3. Appended(d)
    BY <1>5, <2>1 DEF CloseAttempt
  <2>4. ooHost.latest > 0 => ReportedBefore(ooHistory, "local", ooHost.latest, ooStore.next)
    BY <1>1 DEF OutputInv, ProgressSound
  <2> QED BY <1>2, <1>3, <2>2, <2>3, <2>4, AppendKeeps
<1> QED BY <1>4, <1>5

(* The drafts of a worker, of recovery and of the end of a run. *)
LEMMA OtherDrafts ==
  ASSUME NEW run \in OutputRuns, NEW scope \in Scopes, NEW kind \in RecordKinds,
         NEW bytes \in Nat, NEW n \in Nat, NEW d, d = Draft(run, scope, kind, bytes, 0, n)
  PROVE  /\ d \in Drafts /\ d.run = run /\ d.scope = scope /\ d.kind = kind /\ d.value = 0
BY DEF Draft, Drafts

(* A record of the worker, new, sent again or ahead of its turn. *)
LEMMA IngestRemoteOutputKeeps ==
  ASSUME OutputInv, NEW n \in 1..(Len(ooStore.remote) + 2), IngestRemoteOutput(n)
  PROVE  OutputInv'
<1>1. ooHost \in Hosts /\ ooStore \in Stores
  BY DEF OutputInv, OutputTypes
<1>2. n \in Nat
  <2>1. ooStore.remote \in Seq(Nat)
    BY <1>1 DEF Stores
  <2>2. Len(ooStore.remote) \in Nat
    BY <2>1
  <2> QED BY <2>2
<1>3. PICK d : d = Draft("remote", Lane("remote"), "output", 1, 0, n)
  OBVIOUS
<1>4. d \in Drafts /\ d.run = "remote" /\ d.value = 0
  <2>1. "remote" \in OutputRuns /\ Lane("remote") \in Scopes /\ "output" \in RecordKinds /\ 1 \in Nat
    BY DEF OutputRuns, Lane, Scopes, RecordKinds
  <2> QED BY <1>2, <1>3, <2>1, OtherDrafts
<1>5. Appended(d) /\ UNCHANGED <<ooHost, ooReader, ooFaults>>
  BY <1>3 DEF IngestRemoteOutput
<1>6. /\ ooHost' \in Hosts /\ ooHost'.phase = ooHost.phase /\ ooHost'.latest = ooHost.latest
      /\ UNCHANGED <<ooReader, ooFaults>>
  BY <1>1, <1>5
<1> QED BY <1>4, <1>5, <1>6, AppendKeeps

(* The output of a run is closed only when its host is done with it. *)
LEMMA SettleOperationalRunKeeps ==
  ASSUME OutputInv, NEW run \in OutputRuns, SettleOperationalRun(run)
  PROVE  OutputInv'
<1>1. ooHost \in Hosts
  BY DEF OutputInv, OutputTypes
<1>2. PICK s : s = ooHost.settled \cup {run}
  OBVIOUS
<1>3. s \in SUBSET OutputRuns
  BY <1>1, <1>2 DEF Hosts
<1>4. ooHost' = [ooHost EXCEPT !.settled = s] /\ UNCHANGED <<ooReader, ooFaults>>
  BY <1>2 DEF SettleOperationalRun
<1>5. ooHost' \in Hosts /\ ooHost'.phase = ooHost.phase /\ ooHost'.latest = ooHost.latest
  BY <1>1, <1>3, <1>4 DEF Hosts
<1>6. PICK d : d = Draft(run, RunScope, "closed", 0, 0, 0)
  OBVIOUS
<1>7. d \in Drafts /\ d.run = run /\ d.value = 0
  <2>1. RunScope \in Scopes /\ "closed" \in RecordKinds /\ 0 \in Nat
    BY DEF RunScope, Scopes, RecordKinds
  <2> QED BY <1>6, <2>1, OtherDrafts
<1>8. Appended(d)
  BY <1>6 DEF SettleOperationalRun
<1>9. run = "local" => ~(ooHost.phase \in {"running", "flushed"})
  BY DEF SettleOperationalRun
<1> QED BY <1>4, <1>5, <1>7, <1>8, <1>9, AppendKeeps

(* Recovery closes a lane without a value. *)
LEMMA RecoverInterruptedStreamKeeps ==
  ASSUME OutputInv, NEW run \in OutputRuns, RecoverInterruptedStream(run)
  PROVE  OutputInv'
<1>1. ooHost \in Hosts
  BY DEF OutputInv, OutputTypes
<1>2. PICK d : d = Draft(run, Lane(run), "closed", 0, 0, 0)
  OBVIOUS
<1>3. d \in Drafts /\ d.scope # RunScope /\ d.value = 0
  <2>1. Lane(run) \in Scopes /\ Lane(run) # RunScope /\ "closed" \in RecordKinds /\ 0 \in Nat
    BY DEF Lane, RunScope, OutputRuns, Scopes, RecordKinds
  <2> QED BY <1>2, <2>1, OtherDrafts
<1>4. Appended(d) /\ UNCHANGED <<ooHost, ooReader, ooFaults>>
  BY <1>2 DEF RecoverInterruptedStream
<1>5. /\ ooHost' \in Hosts /\ ooHost'.phase = ooHost.phase /\ ooHost'.latest = ooHost.latest
      /\ UNCHANGED <<ooReader, ooFaults>>
  BY <1>1, <1>4
<1> QED BY <1>3, <1>4, <1>5, AppendKeeps

(* Pruning removes a run that is closed, and remembers how far. *)
LEMMA PruneRunKeeps ==
  ASSUME OutputInv, NEW run \in OutputRuns, PruneRun(run)
  PROVE  OutputInv'
<1>1. /\ ooStore \in Stores /\ ooHistory \in SUBSET OutputRecords
      /\ StoreSound(ooStore, ooHistory) /\ ProgressSound(ooStore, ooHistory, ooHost)
      /\ OutputTypes /\ StreamSound(ooHistory, ooStore.next, ooHub, ooReader)
  BY DEF OutputInv, OutputTypes
<1>2. UNCHANGED <<ooHistory, ooHost, ooHub, ooReader, ooFaults>>
  BY DEF PruneRun
<1>3. PICK st : st = ooStore
  OBVIOUS
<1>4. /\ st \in Stores /\ st.records \subseteq OutputRecords /\ st.next \in Nat \ {0}
      /\ st.runs \in [OutputRuns -> RunRows] /\ st.pruned \in Nat
      /\ st.prunedRuns \in [OutputRuns -> Nat] /\ st.remote \in Seq(Nat) /\ st.progress \in ProgressRows
  BY <1>1, <1>3 DEF Stores
<1>5. PICK last : last = st.runs[run].last
  OBVIOUS
<1>6. last \in Nat /\ st.prunedRuns[run] \in Nat /\ last < st.next
  BY <1>1, <1>3, <1>4, <1>5 DEF RunRows, StoreSound
<1>7. PICK recs : recs = {x \in st.records : x.run # run}
  OBVIOUS
<1>8. PICK rows : rows = [st.runs EXCEPT ![run] = NoRunRow]
  OBVIOUS
<1>9. PICK numbers : numbers = IF run = "remote" THEN <<>> ELSE st.remote
  OBVIOUS
<1>10. PICK prog : prog = IF run = "local" THEN [value |-> 0, seq |-> 0, status |-> "none"] ELSE st.progress
  OBVIOUS
<1>11. PICK p : p = Max({st.prunedRuns[run], last})
  OBVIOUS
<1>12. PICK all : all = Max({st.pruned, last})
  OBVIOUS
<1>13. PICK behind : behind = [st.prunedRuns EXCEPT ![run] = p]
  OBVIOUS
<1>14. /\ p \in Nat /\ p \in {st.prunedRuns[run], last} /\ p >= st.prunedRuns[run] /\ p >= last
  BY <1>6, <1>11, MaxOfTwo
<1>15. /\ all \in Nat /\ all \in {st.pruned, last} /\ all >= st.pruned /\ all >= last
  BY <1>4, <1>6, <1>12, MaxOfTwo
<1>16. NoRunRow \in RunRows /\ NoRunRow.last = 0 /\ NoRunRow.state = "none"
  BY DEF NoRunRow, RunRow, RunRows
<1>17. /\ rows \in [OutputRuns -> RunRows] /\ rows[run] = NoRunRow
       /\ \A r \in OutputRuns \ {run} : rows[r] = st.runs[r]
  BY <1>4, <1>8, <1>16
<1>18. /\ behind \in [OutputRuns -> Nat] /\ behind[run] = p
       /\ \A r \in OutputRuns \ {run} : behind[r] = st.prunedRuns[r]
  BY <1>4, <1>13, <1>14
<1>19. recs \in SUBSET OutputRecords /\ numbers \in Seq(Nat) /\ prog \in ProgressRows
  <2>1. [value |-> 0, seq |-> 0, status |-> "none"] \in ProgressRows
    BY DEF ProgressRows
  <2> QED BY <1>4, <1>7, <1>9, <1>10, <2>1
<1>20. ooStore' = [st EXCEPT !.records = recs, !.runs = rows, !.remote = numbers, !.progress = prog,
                             !.prunedRuns = behind, !.pruned = all]
  <2>1. ooStore' = [st EXCEPT !.records = recs, !.runs[run] = NoRunRow, !.remote = numbers,
                              !.progress = prog, !.prunedRuns[run] = p, !.pruned = all]
    BY <1>3, <1>5, <1>7, <1>9, <1>10, <1>11, <1>12 DEF PruneRun, PruneTerminal
  <2> QED BY <1>4, <1>8, <1>13, <2>1 DEF Stores
<1>21. PICK new : new = ooStore'
  OBVIOUS
<1>22. /\ new \in Stores /\ new.records = recs /\ new.runs = rows /\ new.next = st.next
       /\ new.prunedRuns = behind /\ new.pruned = all
  BY <1>4, <1>15, <1>17, <1>18, <1>19, <1>20, <1>21 DEF Stores
<1>23. \A x \in ooHistory : x.run \in OutputRuns /\ x.seq \in Nat
  BY <1>1 DEF OutputRecords
<1>24. StoreSound(st, ooHistory)
  BY <1>1, <1>3
<1>25. IsFiniteSet(new.records) /\ new.records \subseteq ooHistory /\ new.records \subseteq st.records
  BY <1>7, <1>22, <1>24, FS_Subset DEF StoreSound
<1>26. \A x \in ooHistory : x \in new.records \/ x.seq <= new.prunedRuns[x.run]
  <2> SUFFICES ASSUME NEW x \in ooHistory, x \notin recs PROVE x.seq <= behind[x.run]
    BY <1>22
  <2>1. x \in st.records \/ x.seq <= st.prunedRuns[x.run]
    BY <1>24 DEF StoreSound
  <2>2. CASE x.run = run
    <3>1. x.seq <= last \/ x.seq <= st.prunedRuns[run]
      BY <1>5, <1>24, <2>1, <2>2 DEF StoreSound
    <3> QED BY <1>6, <1>14, <1>18, <1>23, <2>2, <3>1
  <2>3. CASE x.run # run
    BY <1>7, <1>18, <1>23, <2>1, <2>3
  <2> QED BY <2>2, <2>3
<1>27. \A x \in new.records : x.seq <= new.runs[x.run].last
  BY <1>7, <1>17, <1>22, <1>23, <1>24, <1>25 DEF StoreSound
<1>28. \A r \in OutputRuns : new.runs[r].last < new.next /\ new.prunedRuns[r] <= new.pruned
  <2> SUFFICES ASSUME NEW r \in OutputRuns PROVE rows[r].last < st.next /\ behind[r] <= all
    BY <1>22
  <2>1. st.runs[r].last < st.next /\ st.prunedRuns[r] <= st.pruned /\ st.prunedRuns[r] \in Nat
    BY <1>4, <1>24 DEF StoreSound
  <2>2. CASE r = run
    <3>1. rows[r].last < st.next
      BY <1>4, <1>16, <1>17, <2>2
    <3>2. behind[r] <= all
      BY <1>4, <1>6, <1>14, <1>15, <1>18, <2>1, <2>2
    <3> QED BY <3>1, <3>2
  <2>3. CASE r # run
    BY <1>4, <1>15, <1>17, <1>18, <2>1, <2>3
  <2> QED BY <2>2, <2>3
<1>29. new.pruned < new.next
  BY <1>6, <1>15, <1>22, <1>24 DEF StoreSound
<1>30. StoreSound(new, ooHistory)
  BY <1>22, <1>24, <1>25, <1>26, <1>27, <1>28, <1>29 DEF StoreSound
<1>31. ProgressSound(new, ooHistory, ooHost)
  <2>1. "local" \in OutputRuns
    BY DEF OutputRuns
  <2>2. rows["local"].state = "closed" => st.runs["local"].state = "closed"
    BY <1>16, <1>17, <2>1
  <2> QED BY <1>1, <1>3, <1>22, <2>2 DEF ProgressSound
<1>32. OutputTypes'
  BY <1>1, <1>2, <1>21, <1>22 DEF OutputTypes
<1> QED BY <1>1, <1>2, <1>3, <1>21, <1>22, <1>30, <1>31, <1>32 DEF OutputInv

-----------------------------------------------------------------------------
(* The hub. *)

(* A step of the hub and the reader. *)
LEMMA StreamKeeps ==
  ASSUME OutputInv, ooHub' \in Hubs, ooReader' \in Readers, ooFaults' \in 0..MaxOutputFaults,
         UNCHANGED <<ooStore, ooHistory, ooHost>>,
         StreamSound(ooHistory, ooStore.next, ooHub', ooReader')
  PROVE  OutputInv'
<1>1. OutputTypes'
  BY DEF OutputInv, OutputTypes
<1> QED BY <1>1 DEF OutputInv

(* A wakeup reaches the hub. *)
LEMMA NotifyHubKeeps ==
  ASSUME OutputInv, NotifyHub
  PROVE  OutputInv'
<1>1. /\ ooHub \in Hubs /\ StreamSound(ooHistory, ooStore.next, ooHub, ooReader)
      /\ ooReader \in Readers /\ ooFaults \in 0..MaxOutputFaults
  BY DEF OutputInv, OutputTypes
<1>2. PICK f : f = (ooHub.flushing \/ ooHub.open)
  OBVIOUS
<1>3. f \in BOOLEAN /\ ooHub' = [ooHub EXCEPT !.waking = FALSE, !.fresh = FALSE, !.flushing = f]
  BY <1>2 DEF NotifyHub
<1>4. SameStream(ooHub, ooHub')
  BY <1>1, <1>3 DEF SameStream, Hubs
<1>5. StreamSound(ooHistory, ooStore.next, ooHub', ooReader)
  BY <1>1, <1>4, SameStreamSound
<1>6. ooHub' \in Hubs /\ UNCHANGED <<ooStore, ooHistory, ooHost, ooReader, ooFaults>>
  BY <1>4 DEF SameStream, NotifyHub
<1> QED BY <1>1, <1>5, <1>6, StreamKeeps

(* What the hub may put on the way after its cursor: all up to top. *)
EventsSound(H, cursor, subject, E, top) ==
  /\ E \in Seq(Events) /\ top \in Nat /\ cursor <= top
  /\ \A i \in DOMAIN E : E[i].cursor <= top
  /\ \A i \in DOMAIN E : E[i].kind = "record" =>
       /\ E[i].record \in H /\ E[i].record.seq = E[i].cursor
       /\ InScope(E[i].record, subject) /\ cursor < E[i].cursor
  /\ \A i, j \in DOMAIN E :
       E[i].kind = "record" /\ E[j].kind = "record" /\ i < j => E[i].cursor < E[j].cursor
  /\ \A i \in DOMAIN E : \A x \in H :
       InScope(x, subject) /\ cursor < x.seq /\ x.seq <= E[i].cursor =>
         \E j \in DOMAIN E : j <= i /\ Tells(E[j], x.seq)
  /\ \A x \in H : InScope(x, subject) /\ cursor < x.seq /\ x.seq <= top =>
       \E j \in DOMAIN E : Tells(E[j], x.seq)
  /\ \A i \in DOMAIN E : \A x \in H :
       E[i].kind = "gap" /\ InScope(x, subject) /\ E[i].gap < x.seq /\ x.seq <= E[i].cursor =>
         \E j \in DOMAIN E : E[j].kind = "record" /\ E[j].cursor = x.seq

(* A queue with the first k of the events E behind it. *)
Queued(q, E, k, new) ==
  /\ new \in Seq(Events) /\ k \in 0..Len(E) /\ Len(new) = Len(q) + k
  /\ \A i \in DOMAIN q : i \in DOMAIN new /\ i <= Len(q) /\ new[i] = q[i]
  /\ \A m \in DOMAIN E : m <= k => Len(q) + m \in DOMAIN new /\ new[Len(q) + m] = E[m]
  /\ \A i \in DOMAIN new : i \in DOMAIN q \/ \E m \in DOMAIN E : m <= k /\ i = Len(q) + m

(* Appending a prefix of the events to the queue. *)
LEMMA QueuedFacts ==
  ASSUME NEW q \in Seq(Events), NEW E \in Seq(Events), NEW n \in Int, n <= Len(E)
  PROVE  Queued(q, E, IF n > 0 THEN n ELSE 0, q \o SubSeq(E, 1, n))
<1>1. PICK cut : cut = SubSeq(E, 1, n)
  OBVIOUS
<1>2. PICK k : k = IF n > 0 THEN n ELSE 0
  OBVIOUS
<1>3. PICK new : new = q \o cut
  OBVIOUS
<1>4. Len(E) \in Nat /\ Len(q) \in Nat /\ k \in 0..Len(E) /\ DOMAIN E = 1..Len(E) /\ DOMAIN q = 1..Len(q)
  BY <1>2
<1>5. \A i \in 1..n : E[i] \in Events
  BY <1>4
<1>6. /\ cut \in Seq(Events) /\ Len(cut) = (IF 1 <= n THEN n - 1 + 1 ELSE 0)
      /\ \A i \in 1..(n - 1 + 1) : cut[i] = E[1 + i - 1]
  BY <1>1, <1>5, SubSeqProperties
<1>7. Len(cut) = k /\ \A i \in 1..k : cut[i] = E[i]
  BY <1>2, <1>6
<1>8. /\ new \in Seq(Events) /\ Len(new) = Len(q) + Len(cut)
      /\ \A i \in 1..(Len(q) + Len(cut)) : new[i] = IF i <= Len(q) THEN q[i] ELSE cut[i - Len(q)]
  BY <1>3, <1>6, ConcatProperties
<1>9. Len(new) = Len(q) + k /\ DOMAIN new = 1..(Len(q) + k)
  BY <1>7, <1>8
<1>10. \A i \in DOMAIN q : i \in DOMAIN new /\ i <= Len(q) /\ new[i] = q[i]
  BY <1>4, <1>7, <1>8, <1>9
<1>11. \A m \in DOMAIN E : m <= k => Len(q) + m \in DOMAIN new /\ new[Len(q) + m] = E[m]
  <2> SUFFICES ASSUME NEW m \in DOMAIN E, m <= k
               PROVE  Len(q) + m \in DOMAIN new /\ new[Len(q) + m] = E[m]
    OBVIOUS
  <2>1. m \in 1..k /\ Len(q) + m \in 1..(Len(q) + k) /\ ~(Len(q) + m <= Len(q)) /\ Len(q) + m - Len(q) = m
    BY <1>4
  <2>2. Len(q) + m \in 1..(Len(q) + Len(cut))
    BY <1>7, <2>1
  <2>3. new[Len(q) + m] = IF Len(q) + m <= Len(q) THEN q[Len(q) + m] ELSE cut[Len(q) + m - Len(q)]
    BY ONLY <1>8, <2>2
  <2>4. new[Len(q) + m] = cut[m]
    BY ONLY <2>1, <2>3
  <2> QED BY <1>7, <1>9, <2>1, <2>4
<1>12. \A i \in DOMAIN new : i \in DOMAIN q \/ \E m \in DOMAIN E : m <= k /\ i = Len(q) + m
  <2> SUFFICES ASSUME NEW i \in DOMAIN new, ~(i \in DOMAIN q)
               PROVE  \E m \in DOMAIN E : m <= k /\ i = Len(q) + m
    OBVIOUS
  <2>1. i - Len(q) \in 1..Len(E) /\ i - Len(q) <= k /\ i = Len(q) + (i - Len(q))
    BY <1>4, <1>9
  <2> QED BY <1>4, <2>1
<1>13. Queued(q, E, k, new)
  BY <1>4, <1>8, <1>9, <1>10, <1>11, <1>12 DEF Queued
<1> QED BY <1>1, <1>2, <1>3, <1>13

(* The elements of a sequence. *)
LEMMA SeqElements ==
  ASSUME NEW S, NEW s \in Seq(S)
  PROVE  \A i \in DOMAIN s : s[i] \in S
OBVIOUS

(* The stream stays sound when events that are sound are put on the way,   *)
(* all of them as long as it stays open.                                   *)
LEMMA StreamGrows ==
  ASSUME NEW H \in SUBSET OutputRecords, NEW next \in Nat, NEW hub \in Hubs, NEW rd \in Readers,
         StreamSound(H, next, hub, rd), hub.open,
         NEW E, NEW top, EventsSound(H, hub.cursor, rd.subject, E, top), top < next,
         NEW new \in Hubs, NEW k, Queued(hub.queue, E, k, new.queue),
         new.open => k = Len(E) /\ new.cursor = top,
         ~new.open => new.cursor = hub.cursor
  PROVE  StreamSound(H, next, new, rd)
<1>1. PICK q : q = hub.queue
  OBVIOUS
<1>2. PICK p : p = new.queue
  OBVIOUS
<1>3. /\ ReaderSound(H, rd) /\ QueueSound(H, rd, q) /\ HubSound(H, hub, rd)
      /\ CursorsBehind(next, hub, rd) /\ Following(hub, rd) /\ PendingSound(H, hub, rd)
  BY <1>1 DEF StreamSound
<1>4. /\ q \in Seq(Events) /\ hub.cursor \in Nat /\ rd.cursor \in Nat /\ rd.shown \in Seq(Nat)
      /\ E \in Seq(Events) /\ top \in Nat /\ p \in Seq(Events)
  BY <1>1, <1>2 DEF Hubs, Readers, EventsSound
<1>5. /\ \A i \in DOMAIN q : q[i] \in Events /\ q[i].cursor \in Nat
      /\ \A i \in DOMAIN E : E[i] \in Events /\ E[i].cursor \in Nat
      /\ \A i \in DOMAIN rd.shown : rd.shown[i] \in Nat
      /\ \A x \in H : x.seq \in Nat
  <2>1. \A i \in DOMAIN q : q[i] \in Events
    BY <1>4, SeqElements
  <2>2. \A i \in DOMAIN E : E[i] \in Events
    BY <1>4, SeqElements
  <2>3. \A i \in DOMAIN rd.shown : rd.shown[i] \in Nat
    BY <1>4, SeqElements
  <2> QED BY <2>1, <2>2, <2>3 DEF Events, OutputRecords
<1>0. PICK a : a = Len(q)
  OBVIOUS
<1>6. /\ a \in Nat /\ k \in Nat /\ Len(E) \in Nat /\ k <= Len(E) /\ Len(p) = a + k /\ Len(p) \in Nat
      /\ \A i \in DOMAIN q : i \in Nat /\ i <= a
      /\ \A i \in Nat : 1 <= i /\ i <= a => i \in DOMAIN q
      /\ \A i \in DOMAIN E : i \in Nat /\ 1 <= i /\ i <= Len(E)
      /\ \A i \in DOMAIN p : i \in Nat /\ 1 <= i
  <2>1. /\ DOMAIN q = 1..Len(q) /\ DOMAIN E = 1..Len(E) /\ DOMAIN p = 1..Len(p)
        /\ Len(q) \in Nat /\ Len(E) \in Nat /\ Len(p) \in Nat
    BY <1>4
  <2>2. k \in 0..Len(E) /\ Len(p) = a + k
    BY <1>0, <1>1, <1>2 DEF Queued
  <2>3. PICK b : b = Len(E)
    OBVIOUS
  <2>4. a \in Nat /\ b \in Nat /\ k \in 0..b /\ DOMAIN q = 1..a /\ DOMAIN E = 1..b
    BY <1>0, <2>1, <2>2, <2>3, Zenon
  <2>5. k \in Nat /\ k <= b
    BY <2>4
  <2>6. /\ \A i \in DOMAIN q : i \in Nat /\ i <= a
        /\ \A i \in Nat : 1 <= i /\ i <= a => i \in DOMAIN q
        /\ \A i \in DOMAIN E : i \in Nat /\ 1 <= i /\ i <= b
    BY <2>4
  <2>7. \A i \in DOMAIN p : i \in Nat /\ 1 <= i
    BY <2>1
  <2> QED BY <2>1, <2>2, <2>3, <2>4, <2>5, <2>6, <2>7, Zenon
<1>7. /\ \A i \in DOMAIN q : i \in DOMAIN p /\ i <= a /\ p[i] = q[i]
      /\ \A m \in DOMAIN E : m <= k => a + m \in DOMAIN p /\ p[a + m] = E[m]
      /\ \A i \in DOMAIN p : i \in DOMAIN q \/ \E m \in DOMAIN E : m <= k /\ i = a + m
  BY <1>0, <1>1, <1>2 DEF Queued
<1>8. /\ rd.cursor <= hub.cursor /\ \A i \in DOMAIN q : q[i].cursor <= hub.cursor
      /\ \A x \in H : InScope(x, rd.subject) /\ x.seq <= hub.cursor => Foretold(rd, q, a, x.seq)
  BY <1>0, <1>1, <1>3 DEF HubSound
<1>9. \A i \in DOMAIN rd.shown : rd.shown[i] <= hub.cursor
  <2> SUFFICES ASSUME NEW i \in DOMAIN rd.shown PROVE rd.shown[i] <= hub.cursor
    OBVIOUS
  <2>1. rd.shown[i] <= rd.cursor
    BY <1>3 DEF ReaderSound
  <2>2. rd.shown[i] \in Nat /\ rd.cursor \in Nat /\ hub.cursor \in Nat /\ rd.cursor <= hub.cursor
    BY <1>4, <1>5, <1>8, Zenon
  <2> QED BY ONLY <2>1, <2>2
<1>10. ASSUME NEW i, NEW j \in Nat, NEW n, Foretold(rd, q, i, n), i <= j, i \in Nat
       PROVE  Foretold(rd, p, j, n)
  <2>1. CASE ToldOf(rd, n)
    BY <2>1 DEF Foretold
  <2>2. CASE \E m \in DOMAIN q : m <= i /\ Tells(q[m], n)
    <3>1. PICK m \in DOMAIN q : m <= i /\ Tells(q[m], n)
      BY <2>2
    <3>2. m \in DOMAIN p /\ p[m] = q[m] /\ m <= j
      BY <1>6, <1>7, <1>10, <3>1
    <3> QED BY <3>1, <3>2 DEF Foretold
  <2> QED BY <1>10, <2>1, <2>2 DEF Foretold
<1>11. ASSUME NEW m \in DOMAIN E, m <= k, NEW n, Tells(E[m], n), NEW j \in Nat, a + m <= j
       PROVE  Foretold(rd, p, j, n)
  BY <1>7, <1>11 DEF Foretold
<1>12. QueueSound(H, rd, p)
  <2>1. ASSUME NEW i \in DOMAIN p, p[i].kind = "record"
        PROVE  /\ p[i].record \in H /\ p[i].record.seq = p[i].cursor
               /\ InScope(p[i].record, rd.subject)
               /\ \A l \in DOMAIN rd.shown : rd.shown[l] < p[i].cursor
    <3>1. CASE i \in DOMAIN q
      <4>1. p[i] = q[i]
        BY <1>7, <3>1
      <4> QED BY <1>3, <2>1, <3>1, <4>1 DEF QueueSound
    <3>2. CASE \E m \in DOMAIN E : m <= k /\ i = a + m
      <4>1. PICK m \in DOMAIN E : m <= k /\ i = a + m
        BY <3>2
      <4>2. p[i] = E[m]
        BY <1>7, <4>1
      <4>3. /\ E[m].record \in H /\ E[m].record.seq = E[m].cursor
            /\ InScope(E[m].record, rd.subject) /\ hub.cursor < E[m].cursor
        BY <2>1, <4>2 DEF EventsSound
      <4>4. ASSUME NEW l \in DOMAIN rd.shown PROVE rd.shown[l] < E[m].cursor
        <5>1. /\ rd.shown[l] \in Nat /\ hub.cursor \in Nat /\ E[m].cursor \in Nat
              /\ rd.shown[l] <= hub.cursor
          BY <1>4, <1>5, <1>9, Zenon
        <5> QED BY ONLY <4>3, <5>1
      <4> QED BY <4>2, <4>3, <4>4
    <3> QED BY <1>7, <3>1, <3>2
  <2>2. ASSUME NEW i \in DOMAIN p, NEW j \in DOMAIN p, p[i].kind = "record", p[j].kind = "record", i < j
        PROVE  p[i].cursor < p[j].cursor
    <3>1. CASE j \in DOMAIN q
      <4>1. i \in DOMAIN q /\ p[i] = q[i] /\ p[j] = q[j]
        BY <1>6, <1>7, <2>2, <3>1
      <4> QED BY <1>3, <2>2, <3>1, <4>1 DEF QueueSound
    <3>2. CASE \E m \in DOMAIN E : m <= k /\ j = a + m
      <4>1. PICK m \in DOMAIN E : m <= k /\ j = a + m
        BY <3>2
      <4>2. p[j] = E[m] /\ hub.cursor < E[m].cursor
        BY <1>7, <2>2, <4>1 DEF EventsSound
      <4>3. CASE i \in DOMAIN q
        <5>1. p[i] = q[i] /\ q[i].cursor <= hub.cursor
          BY <1>7, <1>8, <4>3
        <5>2. q[i].cursor \in Nat /\ E[m].cursor \in Nat /\ hub.cursor \in Nat
          BY <1>4, <1>5, <4>3, Zenon
        <5> QED BY ONLY <4>2, <5>1, <5>2
      <4>4. CASE \E l \in DOMAIN E : l <= k /\ i = a + l
        <5>1. PICK l \in DOMAIN E : l <= k /\ i = a + l
          BY <4>4
        <5>2. p[i] = E[l] /\ l < m
          BY <1>6, <1>7, <2>2, <4>1, <5>1
        <5> QED BY <2>2, <4>2, <5>2 DEF EventsSound
      <4> QED BY <1>7, <4>3, <4>4
    <3> QED BY <1>7, <3>1, <3>2
  <2>3. ASSUME NEW i \in DOMAIN p, NEW x \in H, InScope(x, rd.subject), x.seq <= p[i].cursor
        PROVE  Foretold(rd, p, i, x.seq)
    <3>1. CASE i \in DOMAIN q
      <4>1. p[i] = q[i] /\ i \in Nat
        BY <1>6, <1>7, <3>1
      <4>2. Foretold(rd, q, i, x.seq)
        BY <1>3, <2>3, <3>1, <4>1 DEF QueueSound
      <4> QED BY <1>10, <4>1, <4>2
    <3>2. CASE \E m \in DOMAIN E : m <= k /\ i = a + m
      <4>1. PICK m \in DOMAIN E : m <= k /\ i = a + m
        BY <3>2
      <4>2. p[i] = E[m] /\ i \in Nat /\ a <= i /\ m \in Nat
        BY <1>6, <1>7, <4>1
      <4>3. CASE x.seq <= hub.cursor
        <5>1. Foretold(rd, q, a, x.seq)
          BY <1>8, <2>3, <4>3
        <5> QED BY <1>6, <1>10, <4>2, <5>1
      <4>4. CASE hub.cursor < x.seq
        <5>1. PICK j \in DOMAIN E : j <= m /\ Tells(E[j], x.seq)
          BY <2>3, <4>1, <4>2, <4>4 DEF EventsSound
        <5>2. j <= k /\ a + j <= i
          <6>1. a \in Nat /\ j \in Nat /\ k \in Nat
            BY <1>6
          <6> QED BY ONLY <4>1, <4>2, <5>1, <6>1
        <5> QED BY <1>11, <4>2, <5>1, <5>2
      <4>5. x.seq \in Nat /\ hub.cursor \in Nat
        BY <1>4, <1>5, Zenon
      <4>6. x.seq <= hub.cursor \/ hub.cursor < x.seq
        BY ONLY <4>5
      <4> QED BY <4>3, <4>4, <4>6
    <3> QED BY <1>7, <3>1, <3>2
  <2> QED BY <2>1, <2>2, <2>3 DEF QueueSound
<1>13. \A i \in DOMAIN p : p[i].cursor <= top /\ p[i].cursor \in Nat
  <2> SUFFICES ASSUME NEW i \in DOMAIN p PROVE p[i].cursor <= top /\ p[i].cursor \in Nat
    OBVIOUS
  <2>1. hub.cursor <= top
    BY DEF EventsSound
  <2>2. CASE i \in DOMAIN q
    <3>1. p[i] = q[i] /\ q[i].cursor <= hub.cursor /\ q[i].cursor \in Nat
      BY <1>5, <1>7, <1>8, <2>2
    <3>2. hub.cursor \in Nat /\ top \in Nat
      BY <1>4
    <3> QED BY ONLY <2>1, <3>1, <3>2
  <2>3. CASE \E m \in DOMAIN E : m <= k /\ i = a + m
    <3>1. PICK m \in DOMAIN E : m <= k /\ i = a + m
      BY <2>3
    <3>2. p[i] = E[m]
      BY <1>7, <3>1
    <3> QED BY <1>5, <3>2 DEF EventsSound
  <2> QED BY <1>7, <2>2, <2>3
<1>14. HubSound(H, new, rd)
  <2> SUFFICES ASSUME new.open PROVE HubSound(H, new, rd)
    BY DEF HubSound
  <2>1. k = Len(E) /\ new.cursor = top /\ hub.cursor <= top
    BY DEF EventsSound
  <2>2. rd.cursor <= new.cursor
    BY <1>4, <1>8, <2>1
  <2>3. ASSUME NEW x \in H, InScope(x, rd.subject), x.seq <= top
        PROVE  Foretold(rd, p, Len(p), x.seq)
    <3>1. CASE x.seq <= hub.cursor
      <4>1. Foretold(rd, q, a, x.seq) /\ a <= Len(p) /\ Len(p) \in Nat
        BY <1>6, <1>8, <2>3, <3>1
      <4> QED BY <1>6, <1>10, <4>1
    <3>2. CASE hub.cursor < x.seq
      <4>1. PICK j \in DOMAIN E : Tells(E[j], x.seq)
        BY <2>3, <3>2 DEF EventsSound
      <4>2. j <= k /\ a + j <= Len(p) /\ Len(p) \in Nat
        BY <1>6, <2>1, <4>1
      <4> QED BY <1>11, <4>1, <4>2
    <3> QED BY <1>4, <1>5, <3>1, <3>2
  <2> QED BY <1>2, <1>13, <2>1, <2>2, <2>3 DEF HubSound
<1>15. CursorsBehind(next, new, rd)
  <2>1. new.cursor < next /\ rd.cursor < next
    BY <1>3 DEF CursorsBehind
  <2>2. ASSUME NEW i \in DOMAIN p PROVE p[i].cursor < next
    <3>1. p[i].cursor <= top /\ p[i].cursor \in Nat /\ top \in Nat /\ top < next /\ next \in Nat
      BY <1>4, <1>13, Zenon
    <3> QED BY ONLY <3>1
  <2> QED BY <1>2, <2>1, <2>2 DEF CursorsBehind
<1>16. Following(new, rd)
  BY <1>3 DEF Following
<1>17. ASSUME new.open, NEW x \in H, InScope(x, rd.subject), Owed(rd, p, x.seq)
       PROVE  Coming(rd, p, x.seq)
  <2>1. k = Len(E)
    BY <1>17
  <2>2. ASSUME Owed(rd, q, x.seq) PROVE Coming(rd, p, x.seq)
    <3>1. Coming(rd, q, x.seq)
      BY <1>1, <1>3, <1>17, <2>2 DEF PendingSound
    <3> QED BY <1>7, <3>1 DEF Coming
  <2>3. CASE x.seq \in rd.ahead
    BY <2>2, <2>3 DEF Owed
  <2>4. CASE \E i \in DOMAIN p : p[i].kind = "gap" /\ p[i].gap < x.seq /\ x.seq <= p[i].cursor
    <3>1. PICK i \in DOMAIN p : p[i].kind = "gap" /\ p[i].gap < x.seq /\ x.seq <= p[i].cursor
      BY <2>4
    <3>2. CASE i \in DOMAIN q
      <4>1. p[i] = q[i]
        BY <1>7, <3>2
      <4> QED BY <2>2, <3>1, <3>2, <4>1 DEF Owed
    <3>3. CASE \E m \in DOMAIN E : m <= k /\ i = a + m
      <4>1. PICK m \in DOMAIN E : m <= k /\ i = a + m
        BY <3>3
      <4>2. p[i] = E[m]
        BY <1>7, <4>1
      <4>3. PICK j \in DOMAIN E : E[j].kind = "record" /\ E[j].cursor = x.seq
        BY <1>17, <3>1, <4>2 DEF EventsSound
      <4>4. j <= k
        BY <1>6, <2>1, <4>3
      <4>5. a + j \in DOMAIN p /\ p[a + j] = E[j]
        BY <1>7, <4>4
      <4> QED BY <4>3, <4>5 DEF Coming
    <3> QED BY <1>7, <3>2, <3>3
  <2> QED BY <1>17, <2>3, <2>4 DEF Owed
<1>18. PendingSound(H, new, rd)
  BY <1>2, <1>3, <1>17 DEF PendingSound
<1> QED BY <1>2, <1>3, <1>12, <1>14, <1>15, <1>16, <1>18 DEF StreamSound

(* The queue after an attempt to put events on the way. *)
Enqueued(hub, E, new) ==
  /\ new \in Hubs /\ new.cursor = hub.cursor /\ new.pages = hub.pages
  /\ \E k : Queued(hub.queue, E, k, new.queue) /\ (new.open => k = Len(E))

(* Enqueue takes a prefix of the events, and all of them if the stream stays open. *)
LEMMA EnqueueFacts ==
  ASSUME NEW hub \in Hubs, NEW E \in Seq(Events)
  PROVE  Enqueued(hub, E, Enqueue(hub, E))
<1>1. PICK new : new = Enqueue(hub, E)
  OBVIOUS
<1>2. /\ hub.queue \in Seq(Events) /\ Len(hub.queue) \in Nat /\ Len(E) \in Nat /\ QueueSize \in Nat
  BY OutputLimits DEF Hubs
<1>3. PICK free : free = QueueSize - Len(hub.queue)
  OBVIOUS
<1>4. PICK n : n = Min({free, Len(E)})
  OBVIOUS
<1>5. free \in Int
  BY <1>2, <1>3
<1>6. n \in Int /\ n <= Len(E) /\ n \in {free, Len(E)}
  <2>1. PICK l : l = Len(E)
    OBVIOUS
  <2>2. l \in Int /\ n = Min({free, l})
    BY <1>2, <1>4, <2>1
  <2>3. n \in {free, l} /\ n <= l
    BY <1>5, <2>2, MinOfTwo
  <2> QED BY <1>5, <2>1, <2>2, <2>3
<1>7. PICK p : p = hub.queue \o SubSeq(E, 1, n)
  OBVIOUS
<1>8. PICK k : k = IF n > 0 THEN n ELSE 0
  OBVIOUS
<1>9. Queued(hub.queue, E, k, p)
  BY <1>2, <1>6, <1>7, <1>8, QueuedFacts
<1>10. p \in Seq(Events)
  BY <1>9 DEF Queued
<1>11. PICK o : o = (Len(E) <= free)
  OBVIOUS
<1>12. o \in BOOLEAN
  BY <1>11
<1>13. new = [hub EXCEPT !.queue = p, !.open = o]
  BY <1>1, <1>3, <1>4, <1>7, <1>11 DEF Enqueue
<1>14. /\ new \in Hubs /\ new.queue = p /\ new.open = o /\ new.cursor = hub.cursor
       /\ new.pages = hub.pages
  BY <1>10, <1>12, <1>13 DEF Hubs
<1>15. o => k = Len(E)
  <2>3. ASSUME o PROVE k = Len(E)
    <3>1. Len(E) <= free
      BY <1>11, <2>3
    <3>2. n = Len(E)
      <4>1. n = free => n = Len(E)
        BY <1>2, <1>5, <1>6, <3>1
      <4> QED BY <1>6, <4>1
    <3> QED BY <1>2, <1>8, <3>2
  <2> QED BY <2>3
<1>16. Enqueued(hub, E, new)
  BY <1>9, <1>14, <1>15 DEF Enqueued
<1> QED BY <1>1, <1>16

(* The events of a page tell of all up to where the page ends. *)
LEMMA PageEventsFacts ==
  ASSUME NEW H \in SUBSET OutputRecords, NEW top \in Nat, NEW subject, NEW after \in Nat,
         NEW page, PageSound(H, top, subject, after, page)
  PROVE  EventsSound(H, after, subject, PageEvents(page), page.next)
<1>1. PICK rs : rs = page.records
  OBVIOUS
<1>2. PICK L : L = [i \in 1..Len(rs) |-> Event("record", rs[i].seq, 0, rs[i])]
  OBVIOUS
<1>3. PICK g : g = IF page.gap = 0 THEN <<>> ELSE <<Event("gap", page.next, page.gap, NoRecord)>>
  OBVIOUS
<1>4. PICK E : E = PageEvents(page)
  OBVIOUS
<1>5. E = g \o L
  BY <1>1, <1>2, <1>3, <1>4 DEF PageEvents
<1>6. rs \in Seq(H) /\ page.next \in Nat /\ page.gap \in Nat /\ after <= page.next
  BY <1>1 DEF PageSound
<1>7. Len(rs) \in Nat /\ DOMAIN rs = 1..Len(rs) /\ \A i \in 1..Len(rs) : rs[i] \in H
  BY <1>6
<1>8. \A x \in H : x \in OutputRecords /\ x.seq \in Nat
  BY DEF OutputRecords
<1>9. ASSUME NEW i \in 1..Len(rs)
      PROVE  /\ L[i] \in Events /\ L[i].kind = "record" /\ L[i].cursor = rs[i].seq
             /\ L[i].record = rs[i]
  BY <1>2, <1>7, <1>8 DEF Event, Events
<1>10. L \in Seq(Events) /\ Len(L) = Len(rs)
  <2>1. \A i \in 1..Len(rs) : Event("record", rs[i].seq, 0, rs[i]) \in Events
    BY <1>7, <1>8 DEF Event, Events
  <2> QED BY <1>2, <1>7, <2>1
<1>11. /\ \A i \in 1..Len(rs) : InScope(rs[i], subject) /\ after < rs[i].seq /\ rs[i].seq <= page.next
       /\ \A i, j \in 1..Len(rs) : i < j => rs[i].seq < rs[j].seq
       /\ \A x \in H : InScope(x, subject) /\ after < x.seq /\ x.seq <= page.next =>
            x.seq <= page.gap \/ \E j \in 1..Len(rs) : rs[j] = x
  BY <1>1, <1>7 DEF PageSound
<1>12. CASE page.gap = 0
  <2>1. g = <<>>
    BY <1>3, <1>12
  <2>2. <<>> \o L = L
    BY <1>10, ConcatEmptySeq
  <2>3. E = L
    BY <1>5, <2>1, <2>2
  <2>4. DOMAIN L = 1..Len(rs)
    BY <1>2
  <2>5. ASSUME NEW i \in 1..Len(rs), NEW x \in H, InScope(x, subject), after < x.seq, x.seq <= rs[i].seq
        PROVE  \E j \in 1..Len(rs) : j <= i /\ Tells(L[j], x.seq)
    <3>1. x.seq <= page.next /\ ~(x.seq <= page.gap)
      BY <1>6, <1>7, <1>8, <1>11, <1>12, <2>5
    <3>2. PICK j \in 1..Len(rs) : rs[j] = x
      BY <1>11, <2>5, <3>1
    <3>3. ~(i < j)
      <4>1. i < j => rs[i].seq < rs[j].seq
        BY <1>11
      <4>2. rs[i].seq \in Nat /\ x.seq \in Nat
        BY <1>7, <1>8
      <4> QED BY <2>5, <3>2, <4>1, <4>2
    <3>4. j <= i
      BY <1>7, <3>3
    <3>5. Tells(L[j], x.seq)
      BY <1>9, <3>2 DEF Tells
    <3> QED BY <3>4, <3>5
  <2>6. ASSUME NEW x \in H, InScope(x, subject), after < x.seq, x.seq <= page.next
        PROVE  \E j \in 1..Len(rs) : Tells(L[j], x.seq)
    <3>1. ~(x.seq <= page.gap)
      BY <1>8, <1>12, <2>6
    <3>2. PICK j \in 1..Len(rs) : rs[j] = x
      BY <1>11, <2>6, <3>1
    <3>3. Tells(L[j], x.seq)
      BY <1>9, <3>2 DEF Tells
    <3> QED BY <3>3
  <2>7. \A i \in DOMAIN L : L[i].cursor <= page.next
    BY <1>9, <1>11, <2>4
  <2>8. \A i \in DOMAIN L : L[i].kind = "record" =>
          /\ L[i].record \in H /\ L[i].record.seq = L[i].cursor
          /\ InScope(L[i].record, subject) /\ after < L[i].cursor
    BY <1>7, <1>9, <1>11, <2>4
  <2>9. \A i, j \in DOMAIN L :
          L[i].kind = "record" /\ L[j].kind = "record" /\ i < j => L[i].cursor < L[j].cursor
    BY <1>9, <1>11, <2>4
  <2>10. \A i \in DOMAIN L : \A x \in H :
           InScope(x, subject) /\ after < x.seq /\ x.seq <= L[i].cursor =>
             \E j \in DOMAIN L : j <= i /\ Tells(L[j], x.seq)
    BY <1>9, <2>4, <2>5
  <2>12. \A i \in DOMAIN L : L[i].kind # "gap"
    BY <1>9, <2>4
  <2>11. EventsSound(H, after, subject, L, page.next)
    BY <1>6, <1>10, <2>4, <2>6, <2>7, <2>8, <2>9, <2>10, <2>12 DEF EventsSound
  <2> QED BY <1>4, <2>3, <2>11
<1>13. CASE page.gap # 0
  <2>1. PICK e : e = Event("gap", page.next, page.gap, NoRecord)
    OBVIOUS
  <2>2. e \in Events /\ e.kind = "gap" /\ e.cursor = page.next /\ e.gap = page.gap
    BY <1>6, <2>1 DEF Event, Events
  <2>3. g = <<e>>
    BY <1>3, <1>13, <2>1
  <2>4. g \in Seq(Events) /\ Len(g) = 1 /\ g[1] = e
    BY <2>2, <2>3
  <2>5. /\ E \in Seq(Events) /\ Len(E) = Len(g) + Len(L)
        /\ \A i \in 1..(Len(g) + Len(L)) : E[i] = IF i <= Len(g) THEN g[i] ELSE L[i - Len(g)]
    <3>1. L \in Seq(Events) /\ g \in Seq(Events)
      BY <1>10, <2>4
    <3>2. /\ g \o L \in Seq(Events) /\ Len(g \o L) = Len(g) + Len(L)
          /\ \A i \in 1..(Len(g) + Len(L)) : (g \o L)[i] = IF i <= Len(g) THEN g[i] ELSE L[i - Len(g)]
      BY <3>1, ConcatProperties
    <3> QED BY <1>5, <3>2, Zenon
  <2>6. PICK n : n = Len(rs)
    OBVIOUS
  <2>7. n \in Nat /\ DOMAIN E = 1..(1 + n)
    BY <1>7, <1>10, <2>4, <2>5, <2>6
  <2>8. E[1] = e /\ 1 \in DOMAIN E
    BY <1>10, <2>4, <2>5, <2>6, <2>7
  <2>9. ASSUME NEW i \in DOMAIN E, i # 1
        PROVE  i - 1 \in 1..n /\ E[i] = L[i - 1]
    <3>1. i \in 1..(1 + n) /\ i - 1 \in 1..n /\ ~(i <= 1)
      BY <2>7, <2>9
    <3>2. E[i] = IF i <= Len(g) THEN g[i] ELSE L[i - Len(g)]
      BY <1>10, <2>5, <2>4, <2>6, <3>1
    <3> QED BY <2>4, <3>1, <3>2
  <2>10. ASSUME NEW i \in DOMAIN E, E[i].kind = "record"
         PROVE  \E m \in 1..n : i = m + 1 /\ E[i].cursor = rs[m].seq /\ E[i].record = rs[m]
    <3>1. i # 1
      BY <2>2, <2>8, <2>10
    <3>2. i - 1 \in 1..n /\ E[i] = L[i - 1] /\ i = (i - 1) + 1
      BY <2>7, <2>9, <3>1
    <3>3. L[i - 1].cursor = rs[i - 1].seq /\ L[i - 1].record = rs[i - 1]
      BY <1>9, <2>6, <3>2
    <3> QED BY <3>2, <3>3
  <2>11. \A i \in DOMAIN E : E[i].cursor <= page.next
    <3> SUFFICES ASSUME NEW i \in DOMAIN E PROVE E[i].cursor <= page.next
      OBVIOUS
    <3>1. CASE i = 1
      BY <1>6, <2>2, <2>8, <3>1
    <3>2. CASE i # 1
      <4>1. i - 1 \in 1..n /\ E[i] = L[i - 1]
        BY <2>9, <3>2
      <4>2. L[i - 1].cursor = rs[i - 1].seq /\ rs[i - 1].seq <= page.next
        BY <1>9, <1>11, <2>6, <4>1
      <4> QED BY <4>1, <4>2
    <3> QED BY <3>1, <3>2
  <2>12. ASSUME NEW i \in DOMAIN E, E[i].kind = "record"
         PROVE  /\ E[i].record \in H /\ E[i].record.seq = E[i].cursor
                /\ InScope(E[i].record, subject) /\ after < E[i].cursor
    <3>1. PICK m \in 1..n : i = m + 1 /\ E[i].cursor = rs[m].seq /\ E[i].record = rs[m]
      BY <2>10, <2>12
    <3>2. rs[m] \in H /\ InScope(rs[m], subject) /\ after < rs[m].seq
      BY <1>7, <1>11, <2>6, <3>1
    <3> QED BY <3>1, <3>2
  <2>13. ASSUME NEW i \in DOMAIN E, NEW j \in DOMAIN E, E[i].kind = "record", E[j].kind = "record", i < j
         PROVE  E[i].cursor < E[j].cursor
    <3>1. PICK l \in 1..n : i = l + 1 /\ E[i].cursor = rs[l].seq
      BY <2>10, <2>13
    <3>2. PICK m \in 1..n : j = m + 1 /\ E[j].cursor = rs[m].seq
      BY <2>10, <2>13
    <3>3. l < m
      BY <2>7, <2>13, <3>1, <3>2
    <3>4. rs[l].seq < rs[m].seq
      BY <1>11, <2>6, <3>3
    <3> QED BY <3>1, <3>2, <3>4
  <2>14. \A x \in H : x.seq <= page.next => Tells(E[1], x.seq)
    BY <2>2, <2>8 DEF Tells
  <2>15. ASSUME NEW i \in DOMAIN E, NEW x \in H, x.seq <= E[i].cursor
         PROVE  \E j \in DOMAIN E : j <= i /\ Tells(E[j], x.seq)
    <3>1. E[i].cursor <= page.next /\ E[i] \in Events /\ 1 <= i
      BY <2>5, <2>7, <2>11
    <3>2. E[i].cursor \in Nat
      BY <3>1 DEF Events
    <3>3. x.seq <= page.next
      BY <1>6, <1>8, <2>15, <3>1, <3>2
    <3> QED BY <2>8, <2>14, <3>1, <3>3
  <2>17. ASSUME NEW i \in DOMAIN E, NEW x \in H, E[i].kind = "gap", InScope(x, subject),
                E[i].gap < x.seq, x.seq <= E[i].cursor
         PROVE  \E j \in DOMAIN E : E[j].kind = "record" /\ E[j].cursor = x.seq
    <3>1. i = 1
      <4>1. ASSUME i # 1 PROVE FALSE
        <5>1. i - 1 \in 1..n /\ E[i] = L[i - 1]
          BY <2>9, <4>1
        <5>2. L[i - 1].kind = "record"
          BY <1>9, <2>6, <5>1
        <5> QED BY <2>17, <5>1, <5>2
      <4> QED BY <4>1
    <3>2. page.gap < x.seq /\ x.seq <= page.next
      BY <2>2, <2>8, <2>17, <3>1
    <3>3. after < x.seq /\ ~(x.seq <= page.gap)
      <4>1. after < page.gap /\ after \in Nat /\ page.gap \in Nat /\ x.seq \in Nat
        BY <1>6, <1>8, <1>13 DEF PageSound
      <4> QED BY ONLY <3>2, <4>1
    <3>4. PICK m \in 1..n : rs[m] = x
      BY <1>11, <2>6, <2>17, <3>2, <3>3
    <3>5. m + 1 \in DOMAIN E /\ m + 1 # 1 /\ (m + 1) - 1 = m
      BY <2>7, <3>4
    <3>6. E[m + 1] = L[m]
      BY <2>9, <3>5
    <3>7. L[m].kind = "record" /\ L[m].cursor = x.seq
      BY <1>9, <2>6, <3>4
    <3> QED BY <3>5, <3>6, <3>7
  <2>16. EventsSound(H, after, subject, E, page.next)
    BY <1>6, <2>5, <2>8, <2>11, <2>12, <2>13, <2>14, <2>15, <2>17 DEF EventsSound
  <2> QED BY <1>4, <2>16
<1> QED BY <1>12, <1>13

(* A page of a flush: the hub's cursor moves only when all its events are queued. *)
LEMMA FlushPageKeeps ==
  ASSUME OutputInv, FlushPage
  PROVE  OutputInv'
<1>1. /\ ooStore \in Stores /\ ooHistory \in SUBSET OutputRecords /\ StoreSound(ooStore, ooHistory)
      /\ ooHub \in Hubs /\ ooReader \in Readers /\ ooFaults \in 0..MaxOutputFaults
      /\ StreamSound(ooHistory, ooStore.next, ooHub, ooReader) /\ ooHub.open
  BY DEF OutputInv, OutputTypes, FlushPage
<1>2. /\ ooReader.subject \in Subjects /\ ooHub.cursor \in Nat /\ ooHub.pages \in Nat
      /\ ooStore.next \in Nat /\ ooHub.cursor < ooStore.next /\ HubPageSize \in Nat
  BY <1>1, OutputLimits DEF Readers, Hubs, Stores, StreamSound, CursorsBehind
<1>3. PICK page : page = ReadPage(ooStore, ooReader.subject, ooHub.cursor, HubPageSize)
  OBVIOUS
<1>4. PageSound(ooHistory, ooStore.next, ooReader.subject, ooHub.cursor, page)
  BY <1>1, <1>2, <1>3, PageFacts
<1>5. PICK E : E = PageEvents(page)
  OBVIOUS
<1>6. EventsSound(ooHistory, ooHub.cursor, ooReader.subject, E, page.next)
  BY <1>1, <1>2, <1>4, <1>5, PageEventsFacts
<1>7. E \in Seq(Events) /\ page.next \in Nat /\ ooHub.cursor <= page.next /\ page.next < ooStore.next
  BY <1>4, <1>6 DEF EventsSound, PageSound
<1>8. PICK hub : hub = Enqueue(ooHub, E)
  OBVIOUS
<1>9. Enqueued(ooHub, E, hub)
  BY <1>1, <1>7, <1>8, EnqueueFacts
<1>10. PICK k : Queued(ooHub.queue, E, k, hub.queue) /\ (hub.open => k = Len(E))
  BY <1>9 DEF Enqueued
<1>11. hub \in Hubs /\ hub.cursor = ooHub.cursor /\ hub.pages = ooHub.pages
  BY <1>9 DEF Enqueued
<1>12. PICK again : again = (hub.open /\ page.more /\ ooHub.pages + 1 < HubPages)
  OBVIOUS
<1>13. PICK c : c = IF hub.open THEN Max({hub.cursor, page.next}) ELSE hub.cursor
  OBVIOUS
<1>14. PICK n : n = IF again THEN hub.pages + 1 ELSE 0
  OBVIOUS
<1>15. again \in BOOLEAN /\ n \in Nat
  BY <1>2, <1>11, <1>12, <1>14
<1>16. hub.open => c = page.next
  <2>1. PICK m : m = Max({ooHub.cursor, page.next})
    OBVIOUS
  <2>2. m \in {ooHub.cursor, page.next} /\ m >= page.next
    BY <1>2, <1>7, <2>1, MaxOfTwo
  <2>3. m = page.next
    BY <1>2, <1>7, <2>2
  <2> QED BY <1>11, <1>13, <2>1, <2>3
<1>17. c \in Nat /\ (~hub.open => c = ooHub.cursor)
  BY <1>2, <1>7, <1>11, <1>13, <1>16
<1>18. ooHub' = [hub EXCEPT !.cursor = c, !.flushing = again, !.pages = n]
  BY <1>3, <1>5, <1>8, <1>12, <1>13, <1>14 DEF FlushPage
<1>19. PICK new : new = ooHub'
  OBVIOUS
<1>20. new \in Hubs /\ new.open = hub.open /\ new.queue = hub.queue /\ new.cursor = c
  BY <1>11, <1>15, <1>17, <1>18, <1>19 DEF Hubs
<1>21. StreamSound(ooHistory, ooStore.next, new, ooReader)
  BY <1>1, <1>2, <1>6, <1>7, <1>10, <1>16, <1>17, <1>20, StreamGrows
<1>22. UNCHANGED <<ooStore, ooHistory, ooHost, ooReader, ooFaults>>
  BY DEF FlushPage
<1> QED BY <1>1, <1>19, <1>20, <1>21, <1>22, StreamKeeps

(* An event that carries the hub's cursor adds nothing to what is told. *)
LEMMA CursorEvent ==
  ASSUME NEW H \in SUBSET OutputRecords, NEW hub \in Hubs, NEW subject,
         NEW kind \in {"heartbeat", "closed"}
  PROVE  EventsSound(H, hub.cursor, subject, <<Event(kind, hub.cursor, 0, NoRecord)>>, hub.cursor)
<1>1. PICK e : e = Event(kind, hub.cursor, 0, NoRecord)
  OBVIOUS
<1>2. hub.cursor \in Nat
  BY DEF Hubs
<1>3. e \in Events /\ e.kind # "record" /\ e.kind # "gap" /\ e.cursor = hub.cursor
  BY <1>1, <1>2 DEF Event, Events
<1>4. PICK E : E = <<e>>
  OBVIOUS
<1>5. E \in Seq(Events) /\ DOMAIN E = {1} /\ E[1] = e
  BY <1>3, <1>4
<1>6. \A x \in H : x.seq \in Nat
  BY DEF OutputRecords
<1>7. EventsSound(H, hub.cursor, subject, E, hub.cursor)
  BY <1>2, <1>3, <1>5, <1>6 DEF EventsSound
<1> QED BY <1>1, <1>4, <1>7

(* A heartbeat carries the hub's cursor. *)
LEMMA HeartbeatKeeps ==
  ASSUME OutputInv, Heartbeat
  PROVE  OutputInv'
<1>1. /\ ooStore \in Stores /\ ooHistory \in SUBSET OutputRecords
      /\ ooHub \in Hubs /\ ooReader \in Readers /\ ooFaults \in 0..MaxOutputFaults
      /\ StreamSound(ooHistory, ooStore.next, ooHub, ooReader) /\ ooHub.open
  BY DEF OutputInv, OutputTypes, Heartbeat
<1>2. ooHub.cursor \in Nat /\ ooStore.next \in Nat /\ ooHub.cursor < ooStore.next
  BY <1>1 DEF Hubs, Stores, StreamSound, CursorsBehind
<1>3. PICK E : E = <<Event("heartbeat", ooHub.cursor, 0, NoRecord)>>
  OBVIOUS
<1>4. EventsSound(ooHistory, ooHub.cursor, ooReader.subject, E, ooHub.cursor)
  BY <1>1, <1>3, CursorEvent
<1>5. E \in Seq(Events)
  BY <1>4 DEF EventsSound
<1>6. PICK new : new = Enqueue(ooHub, E)
  OBVIOUS
<1>7. Enqueued(ooHub, E, new)
  BY <1>1, <1>5, <1>6, EnqueueFacts
<1>8. PICK k : Queued(ooHub.queue, E, k, new.queue) /\ (new.open => k = Len(E))
  BY <1>7 DEF Enqueued
<1>9. new \in Hubs /\ new.cursor = ooHub.cursor
  BY <1>7 DEF Enqueued
<1>10. StreamSound(ooHistory, ooStore.next, new, ooReader)
  BY <1>1, <1>2, <1>4, <1>8, <1>9, StreamGrows
<1>11. ooHub' = new /\ UNCHANGED <<ooStore, ooHistory, ooHost, ooReader, ooFaults>>
  BY <1>3, <1>6 DEF Heartbeat
<1> QED BY <1>1, <1>9, <1>10, <1>11, StreamKeeps

(* The last event of a stream that the runtime closes carries the hub's cursor. *)
LEMMA CloseStreamsKeeps ==
  ASSUME OutputInv, CloseStreams
  PROVE  OutputInv'
<1>1. /\ ooStore \in Stores /\ ooHistory \in SUBSET OutputRecords
      /\ ooHub \in Hubs /\ ooReader \in Readers /\ ooFaults \in 0..MaxOutputFaults
      /\ StreamSound(ooHistory, ooStore.next, ooHub, ooReader) /\ ooHub.open
  BY DEF OutputInv, OutputTypes, CloseStreams
<1>2. ooHub.cursor \in Nat /\ ooStore.next \in Nat /\ ooHub.cursor < ooStore.next
  BY <1>1 DEF Hubs, Stores, StreamSound, CursorsBehind
<1>3. PICK E : E = <<Event("closed", ooHub.cursor, 0, NoRecord)>>
  OBVIOUS
<1>4. EventsSound(ooHistory, ooHub.cursor, ooReader.subject, E, ooHub.cursor)
  BY <1>1, <1>3, CursorEvent
<1>5. E \in Seq(Events)
  BY <1>4 DEF EventsSound
<1>6. PICK hub : hub = Enqueue(ooHub, E)
  OBVIOUS
<1>7. Enqueued(ooHub, E, hub)
  BY <1>1, <1>5, <1>6, EnqueueFacts
<1>8. PICK k : Queued(ooHub.queue, E, k, hub.queue)
  BY <1>7 DEF Enqueued
<1>9. hub \in Hubs /\ hub.cursor = ooHub.cursor
  BY <1>7 DEF Enqueued
<1>10. PICK new : new = ooHub'
  OBVIOUS
<1>11. new = [hub EXCEPT !.open = FALSE]
  BY <1>3, <1>6, <1>10 DEF CloseStreams
<1>12. new \in Hubs /\ ~new.open /\ new.queue = hub.queue /\ new.cursor = ooHub.cursor
  BY <1>9, <1>11 DEF Hubs
<1>13. StreamSound(ooHistory, ooStore.next, new, ooReader)
  BY <1>1, <1>2, <1>4, <1>8, <1>12, StreamGrows
<1>14. ooFaults' \in 0..MaxOutputFaults /\ UNCHANGED <<ooStore, ooHistory, ooHost, ooReader>>
  <2>1. ooFaults' = ooFaults + 1 /\ ooFaults < MaxOutputFaults
    BY DEF CloseStreams
  <2>2. MaxOutputFaults \in Nat
    BY OutputLimits
  <2>3. ooFaults \in 0..MaxOutputFaults
    BY <1>1
  <2>4. ooFaults' \in 0..MaxOutputFaults
    BY ONLY <2>1, <2>2, <2>3
  <2> QED BY <2>4 DEF CloseStreams
<1> QED BY <1>1, <1>10, <1>12, <1>13, <1>14, StreamKeeps

-----------------------------------------------------------------------------
(* The reader. *)

(* Sequences shown, then those of T. *)
ShownMore(s, T, new) ==
  /\ new \in Seq(Nat)
  /\ \A i \in DOMAIN s : i \in DOMAIN new /\ new[i] = s[i]
  /\ \A m \in DOMAIN T : \E i \in DOMAIN new : new[i] = T[m]
  /\ \A i \in DOMAIN new :
       \/ i \in DOMAIN s
       \/ \E m \in DOMAIN T : new[i] = T[m]
  /\ \A i, j \in DOMAIN new : i < j =>
       \/ i \in DOMAIN s /\ j \in DOMAIN s
       \/ i \in DOMAIN s /\ \E m \in DOMAIN T : new[j] = T[m]
       \/ \E l, m \in DOMAIN T : l < m /\ new[i] = T[l] /\ new[j] = T[m]

(* Concatenation shows the old sequences, then the new ones. *)
LEMMA ShownMoreFacts ==
  ASSUME NEW s \in Seq(Nat), NEW T \in Seq(Nat)
  PROVE  ShownMore(s, T, s \o T)
<1>1. PICK new : new = s \o T
  OBVIOUS
<1>2. PICK a : a = Len(s)
  OBVIOUS
<1>3. PICK b : b = Len(T)
  OBVIOUS
<1>4. a \in Nat /\ b \in Nat /\ DOMAIN s = 1..a /\ DOMAIN T = 1..b
  BY <1>2, <1>3
<1>5. /\ s \o T \in Seq(Nat) /\ Len(s \o T) = Len(s) + Len(T)
      /\ \A i \in 1..(Len(s) + Len(T)) : (s \o T)[i] = IF i <= Len(s) THEN s[i] ELSE T[i - Len(s)]
  BY ConcatProperties
<1>6. /\ new \in Seq(Nat) /\ Len(new) = a + b
      /\ \A i \in 1..(a + b) : new[i] = IF i <= a THEN s[i] ELSE T[i - a]
  BY <1>1, <1>2, <1>3, <1>5, Zenon
<1>7. DOMAIN new = 1..(a + b)
  BY <1>6
<1>8. \A i \in DOMAIN s : i \in DOMAIN new /\ new[i] = s[i]
  BY <1>4, <1>6, <1>7
<1>9. ASSUME NEW i \in DOMAIN new, ~(i \in DOMAIN s)
      PROVE  i - a \in DOMAIN T /\ new[i] = T[i - a] /\ a < i
  <2>1. i \in 1..(a + b) /\ ~(i <= a) /\ i - a \in 1..b
    BY <1>4, <1>7, <1>9
  <2> QED BY <1>4, <1>6, <2>1
<1>10. ASSUME NEW m \in DOMAIN T PROVE \E i \in DOMAIN new : new[i] = T[m]
  <2>1. a + m \in 1..(a + b) /\ ~(a + m <= a) /\ (a + m) - a = m
    BY <1>4
  <2>2. new[a + m] = T[(a + m) - a]
    BY <1>6, <2>1
  <2> QED BY <1>7, <2>1, <2>2
<1>11. \A i \in DOMAIN new : i \in DOMAIN s \/ \E m \in DOMAIN T : new[i] = T[m]
  BY <1>9
<1>12. ASSUME NEW i \in DOMAIN new, NEW j \in DOMAIN new, i < j
       PROVE  \/ i \in DOMAIN s /\ j \in DOMAIN s
              \/ i \in DOMAIN s /\ \E m \in DOMAIN T : new[j] = T[m]
              \/ \E l, m \in DOMAIN T : l < m /\ new[i] = T[l] /\ new[j] = T[m]
  <2>1. i \in 1..(a + b) /\ j \in 1..(a + b)
    BY <1>7
  <2>2. CASE i \in DOMAIN s
    BY <1>9, <2>2
  <2>3. CASE ~(i \in DOMAIN s)
    <3>1. ~(j \in DOMAIN s)
      BY <1>4, <1>12, <2>1, <2>3
    <3>2. i - a \in DOMAIN T /\ new[i] = T[i - a] /\ j - a \in DOMAIN T /\ new[j] = T[j - a]
      BY <1>9, <2>3, <3>1
    <3>3. i - a < j - a
      BY <1>4, <1>12, <2>1
    <3> QED BY <3>2, <3>3
  <2> QED BY <2>2, <2>3
<1>13. ShownMore(s, T, new)
  BY <1>6, <1>8, <1>10, <1>11, <1>12 DEF ShownMore
<1> QED BY <1>1, <1>13

(* What is shown of a page or of an event is new to the reader, and all it *)
(* passes over was told.                                                   *)
LEMMA ReaderMoves ==
  ASSUME NEW H \in SUBSET OutputRecords, NEW rd \in Readers, ReaderSound(H, rd), NEW T \in Seq(Nat),
         NEW new \in Readers, new.subject = rd.subject, ShownMore(rd.shown, T, new.shown),
         rd.cursor <= new.cursor, \A n \in Nat : ToldOf(rd, n) => ToldOf(new, n),
         \A i, j \in DOMAIN T : i < j => T[i] < T[j],
         \A i \in DOMAIN T :
           /\ \A l \in DOMAIN rd.shown : rd.shown[l] < T[i]
           /\ T[i] <= new.cursor /\ \E z \in H : z.seq = T[i] /\ InScope(z, rd.subject),
         \A x \in H : InScope(x, rd.subject) /\ rd.cursor < x.seq /\ x.seq <= new.cursor =>
           ToldOf(new, x.seq)
  PROVE  ReaderSound(H, new)
<1>1. /\ rd.shown \in Seq(Nat) /\ rd.cursor \in Nat /\ rd.gap \in Nat
      /\ new.shown \in Seq(Nat) /\ new.cursor \in Nat /\ new.gap \in Nat
  BY DEF Readers
<1>2. /\ \A i \in DOMAIN rd.shown : rd.shown[i] \in Nat
      /\ \A i \in DOMAIN T : T[i] \in Nat
      /\ \A x \in H : x.seq \in Nat
  <2>1. \A i \in DOMAIN rd.shown : rd.shown[i] \in Nat
    BY <1>1
  <2>2. \A i \in DOMAIN T : T[i] \in Nat
    OBVIOUS
  <2> QED BY <2>1, <2>2 DEF OutputRecords
<1>3. \A i \in DOMAIN rd.shown : i \in DOMAIN new.shown /\ new.shown[i] = rd.shown[i]
  BY DEF ShownMore
<1>5. ASSUME NEW i \in DOMAIN new.shown, NEW j \in DOMAIN new.shown, i < j
      PROVE  new.shown[i] < new.shown[j]
  <2>1. CASE i \in DOMAIN rd.shown /\ j \in DOMAIN rd.shown
    BY <1>3, <1>5, <2>1 DEF ReaderSound
  <2>2. CASE i \in DOMAIN rd.shown /\ \E m \in DOMAIN T : new.shown[j] = T[m]
    BY <1>3, <2>2
  <2>3. CASE \E l, m \in DOMAIN T : l < m /\ new.shown[i] = T[l] /\ new.shown[j] = T[m]
    BY <2>3
  <2> QED BY <1>5, <2>1, <2>2, <2>3 DEF ShownMore
<1>6. ASSUME NEW i \in DOMAIN new.shown
      PROVE  /\ new.shown[i] <= new.cursor
             /\ \E z \in H : z.seq = new.shown[i] /\ InScope(z, new.subject)
  <2>1. CASE i \in DOMAIN rd.shown
    <3>1. /\ rd.shown[i] <= rd.cursor /\ new.shown[i] = rd.shown[i]
          /\ \E z \in H : z.seq = rd.shown[i] /\ InScope(z, rd.subject)
      BY <1>3, <2>1 DEF ReaderSound
    <3>2. new.shown[i] <= new.cursor
      <4>1. /\ rd.shown[i] \in Nat /\ rd.cursor \in Nat /\ new.cursor \in Nat
            /\ rd.cursor <= new.cursor
        BY <1>1, <1>2, <2>1, Zenon
      <4> QED BY ONLY <3>1, <4>1
    <3> QED BY <3>1, <3>2
  <2>2. CASE \E m \in DOMAIN T : new.shown[i] = T[m]
    BY <2>2
  <2> QED BY <2>1, <2>2 DEF ShownMore
<1>7. ASSUME NEW x \in H, InScope(x, new.subject), x.seq <= new.cursor
      PROVE  ToldOf(new, x.seq)
  <2>1. CASE x.seq <= rd.cursor
    <3>1. ToldOf(rd, x.seq)
      BY <1>7, <2>1 DEF ReaderSound
    <3> QED BY <1>2, <3>1
  <2>2. CASE rd.cursor < x.seq
    BY <1>7, <2>2
  <2> QED BY <1>1, <1>2, <2>1, <2>2
<1> QED BY <1>5, <1>6, <1>7 DEF ReaderSound

(* A reader that is shown more, with no smaller gap. *)
LEMMA TellsMore ==
  ASSUME NEW rd \in Readers, NEW new \in Readers, NEW T, ShownMore(rd.shown, T, new.shown),
         rd.gap <= new.gap, new.passed = rd.passed, NEW n \in Nat
  PROVE  /\ KnownTo(rd, n) => KnownTo(new, n)
         /\ rd.ahead \subseteq new.ahead /\ ToldOf(rd, n) => ToldOf(new, n)
         /\ \A i \in DOMAIN T : T[i] = n => KnownTo(new, n)
<1>1. rd.gap \in Nat /\ new.gap \in Nat
  BY DEF Readers
<1>2. n <= rd.gap => n <= new.gap
  BY <1>1
<1>3. (\E i \in DOMAIN rd.shown : rd.shown[i] = n) => \E i \in DOMAIN new.shown : new.shown[i] = n
  BY DEF ShownMore
<1>4. \A i \in DOMAIN T : T[i] = n => \E j \in DOMAIN new.shown : new.shown[j] = n
  BY DEF ShownMore
<1>5. KnownTo(rd, n) => KnownTo(new, n)
  BY <1>2, <1>3 DEF KnownTo
<1>6. \A i \in DOMAIN T : T[i] = n => KnownTo(new, n)
  BY <1>4 DEF KnownTo
<1> QED BY <1>5, <1>6 DEF ToldOf

(* A page of the replay moves the cursor over what it shows and the gap it reports. *)
LEMMA ReplayPageKeeps ==
  ASSUME OutputInv, ReplayPage
  PROVE  OutputInv'
<1>1. /\ ooStore \in Stores /\ ooHistory \in SUBSET OutputRecords /\ StoreSound(ooStore, ooHistory)
      /\ ooHub \in Hubs /\ ooReader \in Readers /\ ooFaults \in 0..MaxOutputFaults
      /\ StreamSound(ooHistory, ooStore.next, ooHub, ooReader) /\ ooReader.mode = "replay"
  BY DEF OutputInv, OutputTypes, ReplayPage
<1>2. /\ ooReader.subject \in Subjects /\ ooReader.cursor \in Nat /\ ooReader.gap \in Nat
      /\ ooReader.shown \in Seq(Nat) /\ ooReader.ended \in BOOLEAN
      /\ ooStore.next \in Nat /\ ooReader.cursor < ooStore.next /\ ReplayPageSize \in Nat
  BY <1>1, OutputLimits DEF Readers, Stores, StreamSound, CursorsBehind
<1>3. PICK page : page = ReadPage(ooStore, ooReader.subject, ooReader.cursor, ReplayPageSize)
  OBVIOUS
<1>4. PageSound(ooHistory, ooStore.next, ooReader.subject, ooReader.cursor, page)
  BY <1>1, <1>2, <1>3, PageFacts
<1>5. PICK rs : rs = page.records
  OBVIOUS
<1>6. PICK T : T = Sequences(rs)
  OBVIOUS
<1>7. /\ rs \in Seq(ooHistory) /\ page.next \in Nat /\ page.gap \in Nat
      /\ ooReader.cursor <= page.next /\ page.next < ooStore.next
  BY <1>4, <1>5 DEF PageSound
<1>8. /\ Len(rs) \in Nat /\ DOMAIN rs = 1..Len(rs) /\ \A i \in 1..Len(rs) : rs[i] \in ooHistory
      /\ \A x \in ooHistory : x.seq \in Nat
  BY <1>1, <1>7 DEF OutputRecords
<1>9. T \in Seq(Nat) /\ DOMAIN T = DOMAIN rs /\ \A i \in DOMAIN T : T[i] = rs[i].seq
  <2>1. \A i \in 1..Len(rs) : rs[i].seq \in Nat
    BY <1>8
  <2>2. T = [i \in 1..Len(rs) |-> rs[i].seq]
    BY <1>6 DEF Sequences
  <2> QED BY <1>8, <2>1, <2>2
<1>10. PICK shown : shown = ooReader.shown \o T
  OBVIOUS
<1>11. ShownMore(ooReader.shown, T, shown)
  BY <1>2, <1>9, <1>10, ShownMoreFacts
<1>12. shown \in Seq(Nat)
  BY <1>11 DEF ShownMore
<1>13. PICK next : next = Max({ooReader.cursor, page.next})
  OBVIOUS
<1>14. next = page.next
  <2>1. next \in {ooReader.cursor, page.next} /\ next >= page.next
    BY <1>2, <1>7, <1>13, MaxOfTwo
  <2> QED BY <1>2, <1>7, <2>1
<1>15. PICK gap : gap = Max({ooReader.gap, page.gap})
  OBVIOUS
<1>16. gap \in Nat /\ ooReader.gap <= gap /\ page.gap <= gap
  <2>1. gap \in Nat /\ gap >= ooReader.gap /\ gap >= page.gap
    BY <1>2, <1>7, <1>15, MaxOfTwo
  <2> QED BY <1>2, <1>7, <2>1
<1>17. PICK ended : ended = (ooReader.ended \/ \E i \in 1..Len(rs) : EndsReading(rs[i]))
  OBVIOUS
<1>18. ended \in BOOLEAN
  BY <1>17
<1>19. PICK mode : mode = IF page.more /\ next > ooReader.cursor THEN "replay"
                          ELSE IF ended THEN "done" ELSE "connect"
  OBVIOUS
<1>20. mode \in {"replay", "done", "connect"}
  BY ONLY <1>19
<1>21. ooReader' = [ooReader EXCEPT !.cursor = next, !.shown = shown, !.gap = gap,
                                    !.ended = ended, !.mode = mode]
  BY <1>3, <1>5, <1>6, <1>10, <1>13, <1>15, <1>17, <1>19 DEF ReplayPage
<1>22. PICK new : new = ooReader'
  OBVIOUS
<1>23. /\ new \in Readers /\ new.cursor = page.next /\ new.shown = shown /\ new.gap = gap
       /\ new.mode = mode /\ new.subject = ooReader.subject
       /\ new.ahead = ooReader.ahead /\ new.passed = ooReader.passed
  BY <1>1, <1>7, <1>12, <1>14, <1>16, <1>18, <1>20, <1>21, <1>22 DEF Readers
<1>24. /\ ReaderSound(ooHistory, ooReader) /\ CursorsBehind(ooStore.next, ooHub, ooReader)
       /\ ~ooHub.open /\ ooHub.queue = <<>> /\ ooReader.ahead = {}
  BY <1>1 DEF StreamSound, Following, PendingSound
<1>25. \A i, j \in DOMAIN T : i < j => T[i] < T[j]
  BY <1>4, <1>5, <1>9 DEF PageSound
<1>26. ASSUME NEW i \in DOMAIN T
       PROVE  /\ \A l \in DOMAIN ooReader.shown : ooReader.shown[l] < T[i]
              /\ T[i] <= new.cursor
              /\ \E z \in ooHistory : z.seq = T[i] /\ InScope(z, ooReader.subject)
  <2>1. /\ rs[i] \in ooHistory /\ T[i] = rs[i].seq /\ InScope(rs[i], ooReader.subject)
        /\ ooReader.cursor < T[i] /\ T[i] <= page.next /\ T[i] \in Nat
    BY <1>4, <1>5, <1>8, <1>9 DEF PageSound
  <2>2. ASSUME NEW l \in DOMAIN ooReader.shown PROVE ooReader.shown[l] < T[i]
    <3>1. ooReader.shown[l] <= ooReader.cursor /\ ooReader.shown[l] \in Nat
      BY <1>2, <1>24 DEF ReaderSound
    <3>2. ooReader.cursor \in Nat
      BY <1>2
    <3> QED BY ONLY <2>1, <3>1, <3>2
  <2> QED BY <1>23, <2>1, <2>2
<1>27. ASSUME NEW x \in ooHistory, InScope(x, ooReader.subject), ooReader.cursor < x.seq,
              x.seq <= new.cursor
       PROVE  ToldOf(new, x.seq)
  <2>1. x.seq <= page.gap \/ \E j \in DOMAIN rs : rs[j] = x
    BY <1>4, <1>5, <1>23, <1>27 DEF PageSound
  <2>2. CASE x.seq <= page.gap
    <3>1. x.seq <= new.gap
      BY <1>7, <1>8, <1>16, <1>23, <2>2
    <3> QED BY <3>1 DEF ToldOf, KnownTo
  <2>3. CASE \E j \in DOMAIN rs : rs[j] = x
    <3>1. PICK j \in DOMAIN T : T[j] = x.seq
      BY <1>9, <2>3
    <3>2. \E i \in DOMAIN shown : shown[i] = T[j]
      BY <1>11 DEF ShownMore
    <3> QED BY <1>23, <3>1, <3>2 DEF ToldOf, KnownTo
  <2> QED BY <2>1, <2>2, <2>3
<1>28. ReaderSound(ooHistory, new)
  <2>1. ooReader.cursor <= new.cursor /\ ooReader.gap <= new.gap
    BY <1>7, <1>16, <1>23
  <2>2. ShownMore(ooReader.shown, T, new.shown)
    BY <1>11, <1>23
  <2>3. \A n \in Nat : ToldOf(ooReader, n) => ToldOf(new, n)
    <3>1. ooReader.ahead \subseteq new.ahead
      BY <1>23
    <3> QED BY <1>1, <1>23, <2>1, <2>2, <3>1, TellsMore
  <2> QED BY <1>1, <1>9, <1>23, <1>24, <1>25, <1>26, <1>27, <2>1, <2>2, <2>3, ReaderMoves
<1>29. StreamSound(ooHistory, ooStore.next, ooHub, new)
  <2>1. QueueSound(ooHistory, new, ooHub.queue)
    BY <1>24 DEF QueueSound
  <2>2. HubSound(ooHistory, ooHub, new)
    BY <1>24 DEF HubSound
  <2>3. CursorsBehind(ooStore.next, ooHub, new)
    BY <1>7, <1>23, <1>24 DEF CursorsBehind
  <2>4. Following(ooHub, new) /\ PendingSound(ooHistory, ooHub, new)
    BY <1>23, <1>24 DEF Following, PendingSound
  <2> QED BY <1>28, <2>1, <2>2, <2>3, <2>4 DEF StreamSound
<1>30. UNCHANGED <<ooStore, ooHistory, ooHost, ooHub, ooFaults>>
  BY DEF ReplayPage
<1> QED BY <1>1, <1>22, <1>23, <1>29, <1>30, StreamKeeps

(* A reader without a connection: it knows what it was told, and nothing   *)
(* is announced to it.                                                     *)
LeavesStream(rd, to) ==
  /\ to.cursor = rd.cursor /\ to.shown = rd.shown /\ to.subject = rd.subject /\ to.ahead = {}
  /\ \A n : ToldOf(rd, n) => ToldOf(to, n)

(* What was announced and not shown when the connection ended is passed over. *)
LEMMA DisconnectedFacts ==
  ASSUME NEW rd \in Readers, NEW mode \in {"replay", "done"}, NEW to, to = Disconnected(rd, mode)
  PROVE  to \in Readers /\ to.mode = mode /\ LeavesStream(rd, to)
<1>1. PICK passed : passed = rd.passed \cup (rd.ahead \ ShownTo(rd))
  OBVIOUS
<1>2. rd.shown \in Seq(Nat) /\ rd.passed \in SUBSET Nat /\ rd.ahead \in SUBSET Nat
  BY DEF Readers
<1>3. passed \in SUBSET Nat
  BY <1>1, <1>2
<1>4. to = [rd EXCEPT !.mode = mode, !.ahead = {}, !.passed = passed]
  BY <1>1 DEF Disconnected
<1>5. {} \in SUBSET Nat
  OBVIOUS
<1>6. /\ to \in Readers /\ to.mode = mode /\ to.cursor = rd.cursor /\ to.shown = rd.shown
      /\ to.subject = rd.subject /\ to.gap = rd.gap /\ to.ahead = {} /\ to.passed = passed
  BY <1>3, <1>4, <1>5 DEF Readers
<1>7. ASSUME NEW n, ToldOf(rd, n) PROVE ToldOf(to, n)
  <2>1. n \in ShownTo(rd) => \E i \in DOMAIN rd.shown : rd.shown[i] = n
    BY <1>2 DEF ShownTo
  <2>2. n \in rd.ahead => n \in passed \/ \E i \in DOMAIN rd.shown : rd.shown[i] = n
    BY <1>1, <2>1
  <2>3. n \in rd.passed => n \in passed
    BY <1>1
  <2> QED BY <1>6, <1>7, <2>2, <2>3 DEF ToldOf, KnownTo
<1> QED BY <1>6, <1>7 DEF LeavesStream

(* The reader in another mode, with no stream. *)
LEMMA NoStream ==
  ASSUME NEW H, NEW next, NEW hub, NEW rd, StreamSound(H, next, hub, rd),
         NEW new, ~new.open, new.queue = <<>>, new.cursor = hub.cursor,
         NEW to, LeavesStream(rd, to)
  PROVE  StreamSound(H, next, new, to)
<1>1. ReaderSound(H, to)
  BY DEF StreamSound, ReaderSound, LeavesStream
<1>2. QueueSound(H, to, new.queue)
  BY DEF QueueSound
<1>3. HubSound(H, new, to) /\ Following(new, to) /\ PendingSound(H, new, to)
  BY DEF HubSound, Following, PendingSound, LeavesStream
<1>4. CursorsBehind(next, new, to)
  BY DEF StreamSound, CursorsBehind, LeavesStream
<1> QED BY <1>1, <1>2, <1>3, <1>4 DEF StreamSound

(* The stream begins at the reader's cursor. *)
LEMMA ConnectKeeps ==
  ASSUME OutputInv, Connect
  PROVE  OutputInv'
<1>1. /\ ooHub \in Hubs /\ ooReader \in Readers /\ ooFaults \in 0..MaxOutputFaults
      /\ StreamSound(ooHistory, ooStore.next, ooHub, ooReader) /\ ooHub.queue = <<>>
      /\ ooReader.mode = "connect"
  BY DEF OutputInv, OutputTypes, Connect
<1>2. PICK rd : rd = ooReader'
  OBVIOUS
<1>3. PICK hub : hub = ooHub'
  OBVIOUS
<1>4. rd = [ooReader EXCEPT !.mode = "follow"]
  BY <1>2 DEF Connect
<1>5. /\ rd \in Readers /\ rd.cursor = ooReader.cursor /\ rd.shown = ooReader.shown
      /\ rd.gap = ooReader.gap /\ rd.subject = ooReader.subject /\ rd.mode = "follow"
      /\ rd.ahead = ooReader.ahead /\ rd.passed = ooReader.passed
  BY <1>1, <1>4 DEF Readers
<1>6. ooReader.cursor \in Nat
  BY <1>1 DEF Readers
<1>7. hub = [ooHub EXCEPT !.open = TRUE, !.cursor = ooReader.cursor, !.flushing = TRUE, !.pages = 0]
  BY <1>3 DEF Connect
<1>8. hub \in Hubs /\ hub.cursor = ooReader.cursor /\ hub.queue = <<>>
  BY <1>1, <1>6, <1>7 DEF Hubs
<1>9. /\ ReaderSound(ooHistory, ooReader) /\ CursorsBehind(ooStore.next, ooHub, ooReader)
      /\ ooReader.ahead = {}
  BY <1>1 DEF StreamSound, PendingSound
<1>10. ReaderSound(ooHistory, rd)
  BY <1>5, <1>9 DEF ReaderSound, ToldOf, KnownTo
<1>11. QueueSound(ooHistory, rd, hub.queue)
  BY <1>8 DEF QueueSound
<1>12. HubSound(ooHistory, hub, rd)
  BY <1>5, <1>6, <1>8, <1>10 DEF HubSound, ReaderSound, Foretold
<1>13. CursorsBehind(ooStore.next, hub, rd)
  BY <1>5, <1>8, <1>9 DEF CursorsBehind
<1>14. Following(hub, rd) /\ PendingSound(ooHistory, hub, rd)
  BY <1>5, <1>8, <1>9 DEF Following, PendingSound, Owed
<1>15. StreamSound(ooHistory, ooStore.next, hub, rd)
  BY <1>10, <1>11, <1>12, <1>13, <1>14 DEF StreamSound
<1>16. UNCHANGED <<ooStore, ooHistory, ooHost, ooFaults>>
  BY DEF Connect
<1> QED BY <1>1, <1>2, <1>3, <1>5, <1>8, <1>15, <1>16, StreamKeeps

(* A reader whose stream was closed has read all that was queued. *)
LEMMA StreamEndedKeeps ==
  ASSUME OutputInv, StreamEnded
  PROVE  OutputInv'
<1>1. /\ ooHub \in Hubs /\ ooReader \in Readers /\ ooFaults \in 0..MaxOutputFaults
      /\ StreamSound(ooHistory, ooStore.next, ooHub, ooReader) /\ ~ooHub.open /\ ooHub.queue = <<>>
  BY DEF OutputInv, OutputTypes, StreamEnded
<1>2. PICK rd : rd = ooReader'
  OBVIOUS
<1>3. rd = Disconnected(ooReader, "replay")
  BY <1>2 DEF StreamEnded
<1>4. rd \in Readers /\ LeavesStream(ooReader, rd)
  BY <1>1, <1>3, DisconnectedFacts
<1>5. StreamSound(ooHistory, ooStore.next, ooHub, rd)
  BY <1>1, <1>4, NoStream
<1>6. UNCHANGED <<ooStore, ooHistory, ooHost, ooHub, ooFaults>>
  BY DEF StreamEnded
<1> QED BY <1>1, <1>2, <1>4, <1>5, <1>6, StreamKeeps

(* The hub without its follower. *)
LEMMA NoFollowerFacts ==
  ASSUME NEW hub \in Hubs, NEW new, new = NoFollower(hub)
  PROVE  new \in Hubs /\ ~new.open /\ new.queue = <<>> /\ new.cursor = hub.cursor
<1>1. <<>> \in Seq(Events)
  OBVIOUS
<1> QED BY <1>1 DEF NoFollower, Hubs

(* What is lost on the way lies ahead of the reader's cursor, or was       *)
(* announced by a gap event.                                               *)
LEMMA CutConnectionKeeps ==
  ASSUME OutputInv, CutConnection
  PROVE  OutputInv'
<1>1. /\ ooHub \in Hubs /\ ooReader \in Readers /\ ooFaults \in 0..MaxOutputFaults
      /\ StreamSound(ooHistory, ooStore.next, ooHub, ooReader)
  BY DEF OutputInv, OutputTypes
<1>2. PICK rd : rd = ooReader'
  OBVIOUS
<1>3. rd = Disconnected(ooReader, "replay")
  BY <1>2 DEF CutConnection
<1>4. rd \in Readers /\ LeavesStream(ooReader, rd)
  BY <1>1, <1>3, DisconnectedFacts
<1>5. PICK hub : hub = ooHub'
  OBVIOUS
<1>6. hub \in Hubs /\ ~hub.open /\ hub.queue = <<>> /\ hub.cursor = ooHub.cursor
  BY <1>1, <1>5, NoFollowerFacts DEF CutConnection
<1>7. StreamSound(ooHistory, ooStore.next, hub, rd)
  BY <1>1, <1>4, <1>6, NoStream
<1>8. ooFaults' \in 0..MaxOutputFaults /\ UNCHANGED <<ooStore, ooHistory, ooHost>>
  <2>1. ooFaults' = ooFaults + 1 /\ ooFaults < MaxOutputFaults
    BY DEF CutConnection
  <2>2. MaxOutputFaults \in Nat
    BY OutputLimits
  <2>3. ooFaults \in 0..MaxOutputFaults
    BY <1>1
  <2>4. ooFaults' \in 0..MaxOutputFaults
    BY ONLY <2>1, <2>2, <2>3
  <2> QED BY <2>4 DEF CutConnection
<1> QED BY <1>1, <1>2, <1>4, <1>5, <1>6, <1>7, <1>8, StreamKeeps

(* A restart loses the hub and its follower, and ends the script. *)
LEMMA CrashRuntimeKeeps ==
  ASSUME OutputInv, CrashRuntime
  PROVE  OutputInv'
<1>1. /\ ooHub \in Hubs /\ ooReader \in Readers /\ ooFaults \in 0..MaxOutputFaults /\ ooHost \in Hosts
      /\ StreamSound(ooHistory, ooStore.next, ooHub, ooReader) /\ StoreSound(ooStore, ooHistory)
      /\ ProgressSound(ooStore, ooHistory, ooHost) /\ ooStore \in Stores
      /\ ooHistory \in SUBSET OutputRecords
  BY DEF OutputInv, OutputTypes
<1>2. PICK rd : rd = ooReader'
  OBVIOUS
<1>3. rd = IF ooReader.mode = "follow" THEN Disconnected(ooReader, "replay") ELSE ooReader
  BY <1>2 DEF CrashRuntime
<1>6. rd \in Readers /\ LeavesStream(ooReader, rd)
  <2>1. CASE ooReader.mode = "follow"
    <3>1. rd = Disconnected(ooReader, "replay")
      BY <1>3, <2>1
    <3> QED BY <1>1, <3>1, DisconnectedFacts
  <2>2. CASE ooReader.mode # "follow"
    <3>1. rd = ooReader /\ ooReader.ahead = {}
      BY <1>1, <1>3, <2>2 DEF StreamSound, PendingSound
    <3> QED BY <1>1, <3>1 DEF LeavesStream
  <2> QED BY <2>1, <2>2
<1>7. PICK mid : mid = NoFollower(ooHub)
  OBVIOUS
<1>8. mid \in Hubs /\ ~mid.open /\ mid.queue = <<>> /\ mid.cursor = ooHub.cursor
  BY <1>1, <1>7, NoFollowerFacts
<1>9. PICK hub : hub = ooHub'
  OBVIOUS
<1>10. hub = [mid EXCEPT !.waking = FALSE, !.fresh = TRUE]
  BY <1>7, <1>9 DEF CrashRuntime
<1>11. hub \in Hubs /\ ~hub.open /\ hub.queue = <<>> /\ hub.cursor = ooHub.cursor
  BY <1>8, <1>10 DEF Hubs
<1>12. StreamSound(ooHistory, ooStore.next, hub, rd)
  BY <1>1, <1>6, <1>11, NoStream
<1>13. PICK phase : phase = IF ooHost.phase = "done" THEN "done" ELSE "dead"
  OBVIOUS
<1>14. PICK stream : stream = IF ooHost.stream = "open" THEN "failed" ELSE ooHost.stream
  OBVIOUS
<1>15. phase \in {"done", "dead"} /\ stream \in {"none", "open", "closed", "failed"}
  BY <1>1, <1>13, <1>14 DEF Hosts
<1>16. ooHost' = [ooHost EXCEPT !.phase = phase, !.stream = stream]
  BY <1>13, <1>14 DEF CrashRuntime
<1>17. ooHost' \in Hosts /\ ooHost'.phase \in {"done", "dead"}
  BY <1>1, <1>15, <1>16 DEF Hosts
<1>18. ProgressSound(ooStore, ooHistory, ooHost')
  BY <1>1, <1>17 DEF ProgressSound
<1>19. ooFaults' \in 0..MaxOutputFaults /\ UNCHANGED <<ooStore, ooHistory>>
  <2>1. ooFaults' = ooFaults + 1 /\ ooFaults < MaxOutputFaults
    BY DEF CrashRuntime
  <2>2. MaxOutputFaults \in Nat
    BY OutputLimits
  <2>3. ooFaults \in 0..MaxOutputFaults
    BY <1>1
  <2>4. ooFaults' \in 0..MaxOutputFaults
    BY ONLY <2>1, <2>2, <2>3
  <2> QED BY <2>4 DEF CrashRuntime
<1>20. OutputTypes'
  BY <1>1, <1>2, <1>6, <1>9, <1>11, <1>17, <1>19 DEF OutputTypes
<1> QED BY <1>1, <1>2, <1>9, <1>12, <1>18, <1>19, <1>20 DEF OutputInv

(* The reader after an event: what the event announces is ahead of it. *)
Receives(rd, e, T, new) ==
  /\ T = IF e.kind = "record" THEN <<e.cursor>> ELSE <<>>
  /\ ShownMore(rd.shown, T, new.shown) /\ new.subject = rd.subject
  /\ rd.gap <= new.gap /\ (e.kind = "gap" => e.gap <= new.gap)
  /\ new.passed = rd.passed /\ new.ahead = rd.ahead \cup Announced(e)

(* What an event tells the reader. *)
LEMMA EventTells ==
  ASSUME NEW rd \in Readers, NEW e \in Events, NEW new \in Readers, NEW T, Receives(rd, e, T, new),
         NEW n \in Nat
  PROVE  /\ ToldOf(rd, n) \/ Tells(e, n) => ToldOf(new, n)
         /\ KnownTo(rd, n) \/ (e.kind = "record" /\ e.cursor = n) => KnownTo(new, n)
<1>1. rd.gap \in Nat /\ new.gap \in Nat /\ e.gap \in Nat /\ e.cursor \in Nat
  BY DEF Readers, Events
<1>2. /\ KnownTo(rd, n) => KnownTo(new, n)
      /\ ToldOf(rd, n) => ToldOf(new, n)
      /\ \A i \in DOMAIN T : T[i] = n => KnownTo(new, n)
  <2>1. /\ ShownMore(rd.shown, T, new.shown) /\ rd.gap <= new.gap /\ new.passed = rd.passed
        /\ rd.ahead \subseteq new.ahead
    BY DEF Receives
  <2> QED BY <2>1, TellsMore
<1>4. ASSUME e.kind = "record", e.cursor = n PROVE KnownTo(new, n)
  <2>1. T = <<n>>
    BY <1>4 DEF Receives
  <2>2. 1 \in DOMAIN T /\ T[1] = n
    <3>1. PICK u : u = <<n>>
      OBVIOUS
    <3>2. 1 \in DOMAIN u /\ u[1] = n
      BY ONLY <3>1
    <3> QED BY <2>1, <3>1, <3>2, Zenon
  <2> QED BY <1>2, <2>2
<1>5. ASSUME e.kind = "gap", n <= e.gap \/ n <= e.cursor PROVE ToldOf(new, n)
  <2>1. CASE n <= e.gap
    <3>1. e.gap <= new.gap
      BY <1>5 DEF Receives
    <3>2. n <= new.gap
      BY ONLY <1>1, <2>1, <3>1, n \in Nat
    <3> QED BY <3>2 DEF ToldOf, KnownTo
  <2>2. CASE ~(n <= e.gap)
    <3>1. n \in (e.gap + 1)..e.cursor
      BY <1>1, <1>5, <2>2
    <3>2. n \in new.ahead
      BY <1>5, <3>1 DEF Receives, Announced
    <3> QED BY <3>2 DEF ToldOf
  <2> QED BY <2>1, <2>2
<1> QED BY <1>2, <1>4, <1>5 DEF ToldOf, Tells

(* The queue without its head, and the reader that has received it. *)
LEMMA StreamMoves ==
  ASSUME NEW H \in SUBSET OutputRecords, NEW next \in Nat, NEW hub \in Hubs, NEW rd \in Readers,
         StreamSound(H, next, hub, rd), hub.queue # <<>>, rd.mode = "follow",
         NEW e, e = Head(hub.queue), NEW T, NEW to \in Readers, Receives(rd, e, T, to),
         to.cursor = Max({rd.cursor, e.cursor}), to.mode = "follow",
         NEW new \in Hubs, new.cursor = hub.cursor, new.queue = Tail(hub.queue), new.open = hub.open
  PROVE  StreamSound(H, next, new, to)
<1>0. /\ T = IF e.kind = "record" THEN <<e.cursor>> ELSE <<>>
      /\ ShownMore(rd.shown, T, to.shown) /\ to.subject = rd.subject
  BY DEF Receives
<1>1. PICK q : q = hub.queue
  OBVIOUS
<1>2. /\ ReaderSound(H, rd) /\ QueueSound(H, rd, q) /\ HubSound(H, hub, rd)
      /\ CursorsBehind(next, hub, rd) /\ PendingSound(H, hub, rd)
  BY <1>1 DEF StreamSound
<1>3. q \in Seq(Events) /\ q # <<>> /\ e = q[1] /\ 1 \in DOMAIN q /\ e \in Events
  <2>1. q \in Seq(Events) /\ q # <<>>
    BY <1>1 DEF Hubs
  <2>2. Len(q) \in Nat /\ Len(q) # 0 /\ DOMAIN q = 1..Len(q)
    BY <2>1
  <2>3. e = q[1] /\ 1 \in DOMAIN q
    BY <1>1, <2>1, <2>2
  <2> QED BY <2>1, <2>3
<1>4. PICK t : t = Tail(q)
  OBVIOUS
<1>5. /\ t \in Seq(Events) /\ Len(t) = Len(q) - 1 /\ \A i \in 1..Len(t) : t[i] = q[i + 1]
  BY <1>3, <1>4, HeadTailProperties
<1>6. PICK a : a = Len(q)
  OBVIOUS
<1>7. /\ a \in Nat /\ Len(t) = a - 1 /\ Len(t) \in Nat /\ DOMAIN q = 1..a /\ DOMAIN t = 1..Len(t)
  BY <1>3, <1>5, <1>6
<1>8. \A i \in DOMAIN t : i \in Nat /\ i + 1 \in DOMAIN q /\ t[i] = q[i + 1]
  BY <1>5, <1>7
<1>9. /\ rd.cursor \in Nat /\ e.cursor \in Nat /\ e.gap \in Nat /\ hub.cursor \in Nat
      /\ to.cursor \in Nat
      /\ \A i \in DOMAIN q : q[i].cursor \in Nat
      /\ \A x \in H : x.seq \in Nat
  <2>1. \A i \in DOMAIN q : q[i] \in Events
    BY <1>3
  <2> QED BY <1>3, <2>1 DEF Readers, Hubs, Events, OutputRecords
<1>10. to.cursor \in {rd.cursor, e.cursor} /\ to.cursor >= rd.cursor /\ to.cursor >= e.cursor
  <2>1. PICK m : m = Max({rd.cursor, e.cursor})
    OBVIOUS
  <2>2. rd.cursor \in Nat /\ e.cursor \in Nat
    BY <1>9
  <2>3. m \in {rd.cursor, e.cursor} /\ m >= rd.cursor /\ m >= e.cursor
    BY ONLY <2>1, <2>2, MaxOfTwo
  <2>4. to.cursor = m
    BY <2>1
  <2> QED BY ONLY <2>3, <2>4
<1>11. \A n \in Nat : ToldOf(rd, n) \/ Tells(e, n) => ToldOf(to, n)
  BY <1>3, EventTells
<1>12. ASSUME NEW i \in DOMAIN T
       PROVE  e.kind = "record" /\ i = 1 /\ T[i] = e.cursor
  <2>1. e.kind = "record"
    BY <1>0, <1>12
  <2> QED BY <1>0, <1>12, <2>1
<1>13. T \in Seq(Nat)
  BY <1>0, <1>9
<1>14. \A i, j \in DOMAIN T : i < j => T[i] < T[j]
  BY <1>12
<1>15. e.kind = "record" =>
         /\ e.record \in H /\ e.record.seq = e.cursor /\ InScope(e.record, rd.subject)
         /\ \A l \in DOMAIN rd.shown : rd.shown[l] < e.cursor
  BY <1>2, <1>3 DEF QueueSound
<1>16. ASSUME NEW i \in DOMAIN T
       PROVE  /\ \A l \in DOMAIN rd.shown : rd.shown[l] < T[i]
              /\ T[i] <= to.cursor /\ \E z \in H : z.seq = T[i] /\ InScope(z, rd.subject)
  BY <1>9, <1>10, <1>12, <1>15
<1>17. \A x \in H : InScope(x, rd.subject) /\ x.seq <= e.cursor => ToldOf(to, x.seq)
  <2> SUFFICES ASSUME NEW x \in H, InScope(x, rd.subject), x.seq <= e.cursor PROVE ToldOf(to, x.seq)
    OBVIOUS
  <2>1. Foretold(rd, q, 1, x.seq)
    BY <1>2, <1>3 DEF QueueSound
  <2>2. ToldOf(rd, x.seq) \/ \E j \in DOMAIN q : j <= 1 /\ Tells(q[j], x.seq)
    BY <2>1 DEF Foretold
  <2>3. \A j \in DOMAIN q : j <= 1 => j = 1
    BY <1>7
  <2>4. ToldOf(rd, x.seq) \/ Tells(e, x.seq)
    BY <1>3, <2>2, <2>3
  <2> QED BY <1>9, <1>11, <2>4
<1>18. \A x \in H : InScope(x, rd.subject) /\ rd.cursor < x.seq /\ x.seq <= to.cursor => ToldOf(to, x.seq)
  <2> SUFFICES ASSUME NEW x \in H, InScope(x, rd.subject), rd.cursor < x.seq, x.seq <= to.cursor
               PROVE  x.seq <= e.cursor
    BY <1>17
  <2> QED BY <1>9, <1>10
<1>19. ReaderSound(H, to)
  <2>1. rd.cursor <= to.cursor
    BY <1>9, <1>10
  <2>2. \A n \in Nat : ToldOf(rd, n) => ToldOf(to, n)
    BY <1>11
  <2> QED BY <1>0, <1>2, <1>13, <1>14, <1>16, <1>18, <2>1, <2>2, ReaderMoves
<1>20. to.cursor < next /\ hub.cursor < next
  BY <1>2, <1>3, <1>1, <1>9, <1>10 DEF CursorsBehind
<1>21. \A n \in Nat : KnownTo(rd, n) \/ (e.kind = "record" /\ e.cursor = n) => KnownTo(to, n)
  BY <1>3, EventTells
<1>22. StreamSound(H, next, new, to)
  <2>1. new.queue = t
    BY <1>1, <1>4
  <2>2. ASSUME NEW i \in Nat, NEW n \in Nat, Foretold(rd, q, i + 1, n)
        PROVE  Foretold(to, t, i, n)
    <3>1. CASE ToldOf(rd, n)
      BY <1>11, <3>1 DEF Foretold
    <3>2. CASE \E j \in DOMAIN q : j <= i + 1 /\ Tells(q[j], n)
      <4>1. PICK j \in DOMAIN q : j <= i + 1 /\ Tells(q[j], n)
        BY <3>2
      <4>2. CASE j = 1
        BY <1>3, <1>11, <4>1, <4>2 DEF Foretold
      <4>3. CASE j # 1
        <5>1. j - 1 \in DOMAIN t /\ j - 1 <= i /\ (j - 1) + 1 = j
          BY <1>7, <4>1, <4>3
        <5>2. t[j - 1] = q[j]
          BY <1>8, <5>1
        <5> QED BY <4>1, <5>1, <5>2 DEF Foretold
      <4> QED BY <4>2, <4>3
    <3> QED BY <2>2, <3>1, <3>2 DEF Foretold
  <2>3. ASSUME NEW i \in DOMAIN t, t[i].kind = "record"
        PROVE  /\ t[i].record \in H /\ t[i].record.seq = t[i].cursor
               /\ InScope(t[i].record, to.subject)
               /\ \A l \in DOMAIN to.shown : to.shown[l] < t[i].cursor
    <3>1. i + 1 \in DOMAIN q /\ t[i] = q[i + 1] /\ 1 < i + 1
      BY <1>7, <1>8
    <3>2. /\ t[i].record \in H /\ t[i].record.seq = t[i].cursor
          /\ InScope(t[i].record, rd.subject)
          /\ \A l \in DOMAIN rd.shown : rd.shown[l] < t[i].cursor
      BY <1>2, <2>3, <3>1 DEF QueueSound
    <3>3. e.kind = "record" => e.cursor < t[i].cursor
      BY <1>2, <1>3, <2>3, <3>1 DEF QueueSound
    <3>4. ASSUME NEW l \in DOMAIN to.shown PROVE to.shown[l] < t[i].cursor
      <4>1. CASE l \in DOMAIN rd.shown
        <5>1. to.shown[l] = rd.shown[l]
          BY <1>0, <4>1 DEF ShownMore
        <5> QED BY <3>2, <4>1, <5>1
      <4>2. CASE \E m \in DOMAIN T : to.shown[l] = T[m]
        <5>1. to.shown[l] = e.cursor /\ e.kind = "record"
          BY <1>12, <4>2
        <5> QED BY <3>3, <5>1
      <4> QED BY <1>0, <4>1, <4>2 DEF ShownMore
    <3> QED BY <1>0, <3>2, <3>4
  <2>4. ASSUME NEW i \in DOMAIN t, NEW j \in DOMAIN t, t[i].kind = "record", t[j].kind = "record", i < j
        PROVE  t[i].cursor < t[j].cursor
    <3>1. /\ i + 1 \in DOMAIN q /\ j + 1 \in DOMAIN q /\ t[i] = q[i + 1] /\ t[j] = q[j + 1]
          /\ i + 1 < j + 1
      BY <1>7, <1>8, <2>4
    <3> QED BY <1>2, <2>4, <3>1 DEF QueueSound
  <2>5. ASSUME NEW i \in DOMAIN t, NEW x \in H, InScope(x, to.subject), x.seq <= t[i].cursor
        PROVE  Foretold(to, t, i, x.seq)
    <3>1. i \in Nat /\ i + 1 \in DOMAIN q /\ t[i] = q[i + 1]
      BY <1>8
    <3>2. Foretold(rd, q, i + 1, x.seq)
      BY <1>0, <1>2, <2>5, <3>1 DEF QueueSound
    <3> QED BY <1>9, <2>2, <3>1, <3>2
  <2>6. QueueSound(H, to, t)
    BY <2>3, <2>4, <2>5 DEF QueueSound
  <2>7. HubSound(H, new, to)
    <3> SUFFICES ASSUME new.open PROVE HubSound(H, new, to)
      BY DEF HubSound
    <3>1. /\ rd.cursor <= hub.cursor /\ \A i \in DOMAIN q : q[i].cursor <= hub.cursor
          /\ \A x \in H : InScope(x, rd.subject) /\ x.seq <= hub.cursor => Foretold(rd, q, a, x.seq)
      BY <1>1, <1>2, <1>6 DEF HubSound
    <3>2. to.cursor <= hub.cursor
      BY <1>3, <1>9, <1>10, <3>1
    <3>3. \A i \in DOMAIN t : t[i].cursor <= hub.cursor
      BY <1>8, <3>1
    <3>4. ASSUME NEW x \in H, InScope(x, to.subject), x.seq <= hub.cursor
          PROVE  Foretold(to, t, Len(t), x.seq)
      <4>1. Foretold(rd, q, Len(t) + 1, x.seq)
        <5>1. Len(t) + 1 = a
          BY <1>7
        <5> QED BY <1>0, <3>1, <3>4, <5>1
      <4> QED BY <1>7, <1>9, <2>2, <4>1
    <3> QED BY <2>1, <3>2, <3>3, <3>4 DEF HubSound
  <2>8. CursorsBehind(next, new, to)
    <3>1. \A i \in DOMAIN t : t[i].cursor < next
      BY <1>1, <1>2, <1>8 DEF CursorsBehind
    <3> QED BY <1>20, <2>1, <3>1 DEF CursorsBehind
  <2>9. Following(new, to)
    BY DEF Following
  <2>10. ASSUME NEW x \in H, InScope(x, to.subject), Owed(to, t, x.seq), new.open
         PROVE  Coming(to, t, x.seq)
    <3>1. Owed(rd, q, x.seq)
      <4>1. CASE x.seq \in rd.ahead
        BY <4>1 DEF Owed
      <4>2. CASE x.seq \in Announced(e)
        <5>1. e.kind = "gap" /\ x.seq \in (e.gap + 1)..e.cursor
          BY <4>2 DEF Announced
        <5>2. e.gap < x.seq /\ x.seq <= e.cursor
          BY <1>9, <5>1
        <5> QED BY <1>3, <5>1, <5>2 DEF Owed
      <4>3. CASE \E i \in DOMAIN t : t[i].kind = "gap" /\ t[i].gap < x.seq /\ x.seq <= t[i].cursor
        BY <1>8, <4>3 DEF Owed
      <4> QED BY <2>10, <4>1, <4>2, <4>3 DEF Owed, Receives
    <3>2. Coming(rd, q, x.seq)
      BY <1>0, <1>1, <1>2, <2>10, <3>1 DEF PendingSound
    <3>3. CASE KnownTo(rd, x.seq)
      BY <1>9, <1>21, <3>3 DEF Coming
    <3>4. CASE \E j \in DOMAIN q : q[j].kind = "record" /\ q[j].cursor = x.seq
      <4>1. PICK j \in DOMAIN q : q[j].kind = "record" /\ q[j].cursor = x.seq
        BY <3>4
      <4>2. CASE j = 1
        BY <1>3, <1>9, <1>21, <4>1, <4>2 DEF Coming
      <4>3. CASE j # 1
        <5>1. j - 1 \in DOMAIN t /\ (j - 1) + 1 = j
          BY <1>7, <4>1, <4>3
        <5>2. t[j - 1] = q[j]
          BY <1>8, <5>1
        <5> QED BY <4>1, <5>1, <5>2 DEF Coming
      <4> QED BY <4>2, <4>3
    <3> QED BY <3>2, <3>3, <3>4 DEF Coming
  <2>11. ASSUME NEW n \in to.ahead PROVE n <= to.cursor
    <3>1. CASE n \in rd.ahead
      <4>1. n <= rd.cursor /\ n \in Nat
        BY <1>2, <3>1 DEF PendingSound, Readers
      <4> QED BY <1>9, <1>10, <4>1
    <3>2. CASE n \in Announced(e)
      <4>1. e.kind = "gap" /\ n \in (e.gap + 1)..e.cursor
        BY <3>2 DEF Announced
      <4> QED BY <1>9, <1>10, <4>1
    <3> QED BY <2>11, <3>1, <3>2 DEF Receives
  <2>12. PendingSound(H, new, to)
    BY <2>1, <2>10, <2>11 DEF PendingSound
  <2> QED BY <1>19, <2>1, <2>6, <2>7, <2>8, <2>9, <2>12 DEF StreamSound
<1> QED BY <1>22

(* The reader takes the first event of the queue. *)
LEMMA ReceiveEventKeeps ==
  ASSUME OutputInv, ReceiveEvent
  PROVE  OutputInv'
<1>1. /\ ooStore.next \in Nat /\ ooHistory \in SUBSET OutputRecords
      /\ ooHub \in Hubs /\ ooReader \in Readers /\ ooFaults \in 0..MaxOutputFaults
      /\ StreamSound(ooHistory, ooStore.next, ooHub, ooReader)
      /\ ooReader.mode = "follow" /\ ooHub.queue # <<>>
  BY DEF OutputInv, OutputTypes, ReceiveEvent, Stores
<1>2. ooHub.queue \in Seq(Events) /\ ooReader.shown \in Seq(Nat) /\ ooReader.gap \in Nat
      /\ ooReader.cursor \in Nat /\ ooHub.open \in BOOLEAN /\ ooHub.flushing \in BOOLEAN
  BY <1>1 DEF Hubs, Readers
<1>3. PICK e : e = Head(ooHub.queue)
  OBVIOUS
<1>4. PICK t : t = Tail(ooHub.queue)
  OBVIOUS
<1>5. e \in Events /\ t \in Seq(Events)
  BY <1>1, <1>2, <1>3, <1>4, HeadTailProperties
<1>6. e.cursor \in Nat /\ e.gap \in Nat
  BY <1>5 DEF Events
<1>7. e.kind = "record" => e.record.seq = e.cursor
  <2>1. QueueSound(ooHistory, ooReader, ooHub.queue)
    BY <1>1 DEF StreamSound
  <2>2. Len(ooHub.queue) \in Nat \ {0} /\ DOMAIN ooHub.queue = 1..Len(ooHub.queue)
    BY <1>1, <1>2, EmptySeq
  <2>3. 1 \in DOMAIN ooHub.queue /\ e = ooHub.queue[1]
    BY <1>2, <1>3, <2>2
  <2> QED BY <2>1, <2>3 DEF QueueSound
<1>8. PICK T : T = IF e.kind = "record" THEN <<e.cursor>> ELSE <<>>
  OBVIOUS
<1>9. PICK shown : shown = IF e.kind = "record" THEN Append(ooReader.shown, e.record.seq)
                           ELSE ooReader.shown
  OBVIOUS
<1>10. ShownMore(ooReader.shown, T, shown)
  <2>1. CASE e.kind = "record"
    <3>1. T = <<e.cursor>> /\ shown = Append(ooReader.shown, e.cursor)
      BY <1>7, <1>8, <1>9, <2>1
    <3>2. Append(ooReader.shown, e.cursor) = ooReader.shown \o <<e.cursor>>
      BY <1>2, <1>6, AppendIsConcat
    <3>3. <<e.cursor>> \in Seq(Nat)
      BY <1>6
    <3>4. ShownMore(ooReader.shown, <<e.cursor>>, ooReader.shown \o <<e.cursor>>)
      BY <1>2, <3>3, ShownMoreFacts
    <3> QED BY <3>1, <3>2, <3>4, Zenon
  <2>2. CASE e.kind # "record"
    <3>1. T = <<>> /\ shown = ooReader.shown
      BY <1>8, <1>9, <2>2
    <3>2. ooReader.shown \o <<>> = ooReader.shown
      BY <1>2, ConcatEmptySeq
    <3>3. <<>> \in Seq(Nat)
      OBVIOUS
    <3>4. ShownMore(ooReader.shown, <<>>, ooReader.shown \o <<>>)
      BY <1>2, <3>3, ShownMoreFacts
    <3> QED BY <3>1, <3>2, <3>4, Zenon
  <2> QED BY <2>1, <2>2
<1>11. shown \in Seq(Nat)
  BY <1>10 DEF ShownMore
<1>12. PICK cursor : cursor = Max({ooReader.cursor, e.cursor})
  OBVIOUS
<1>13. cursor \in Nat
  BY <1>2, <1>6, <1>12, MaxOfTwo
<1>14. PICK gap : gap = IF e.kind = "gap" THEN Max({ooReader.gap, e.gap}) ELSE ooReader.gap
  OBVIOUS
<1>15. gap \in Nat /\ ooReader.gap <= gap /\ (e.kind = "gap" => e.gap <= gap)
  <2>1. PICK m : m = Max({ooReader.gap, e.gap})
    OBVIOUS
  <2>2. m \in Nat /\ m >= ooReader.gap /\ m >= e.gap
    BY <1>2, <1>6, <2>1, MaxOfTwo
  <2>3. ooReader.gap <= m /\ e.gap <= m
    BY <1>2, <1>6, <2>2
  <2> QED BY <1>2, <1>14, <2>1, <2>2, <2>3
<1>16. PICK ended : ended = (e.kind = "record" /\ EndsReading(e.record))
  OBVIOUS
<1>17. ended \in BOOLEAN
  BY <1>16
<1>18. PICK ahead : ahead = ooReader.ahead \cup Announced(e)
  OBVIOUS
<1>19. ahead \in SUBSET Nat
  BY <1>1, <1>6, <1>18 DEF Readers, Announced
<1>20. PICK rd : rd = [ooReader EXCEPT !.cursor = cursor, !.shown = shown, !.gap = gap,
                                       !.ahead = ahead, !.ended = ended]
  OBVIOUS
<1>21. ooReader' = IF ended THEN Disconnected(rd, "done") ELSE rd
  BY <1>3, <1>9, <1>12, <1>14, <1>16, <1>18, <1>20 DEF ReceiveEvent
<1>22. /\ rd \in Readers /\ rd.cursor = cursor /\ rd.shown = shown /\ rd.gap = gap
       /\ rd.mode = "follow" /\ rd.subject = ooReader.subject /\ rd.ahead = ahead
       /\ rd.passed = ooReader.passed
  BY <1>1, <1>11, <1>13, <1>15, <1>17, <1>19, <1>20 DEF Readers
<1>23. Receives(ooReader, e, T, rd)
  BY <1>8, <1>10, <1>15, <1>18, <1>22 DEF Receives
<1>24. PICK hub : hub = [ooHub EXCEPT !.queue = t]
  OBVIOUS
<1>25. hub \in Hubs /\ hub.cursor = ooHub.cursor /\ hub.queue = t /\ hub.open = ooHub.open
  BY <1>1, <1>5, <1>24 DEF Hubs
<1>26. StreamSound(ooHistory, ooStore.next, hub, rd)
  BY <1>1, <1>3, <1>4, <1>12, <1>22, <1>23, <1>25, StreamMoves
<1>27. UNCHANGED <<ooStore, ooHistory, ooHost, ooFaults>>
  BY DEF ReceiveEvent
<1>28. CASE ended
  <2>1. PICK to : to = ooReader'
    OBVIOUS
  <2>2. to = Disconnected(rd, "done")
    BY <1>21, <1>28, <2>1
  <2>3. to \in Readers /\ LeavesStream(rd, to)
    BY <1>22, <2>2, DisconnectedFacts
  <2>4. PICK new : new = ooHub'
    OBVIOUS
  <2>5. new = [ooHub EXCEPT !.queue = <<>>, !.open = FALSE, !.flushing = FALSE]
    BY <1>3, <1>16, <1>28, <2>4 DEF ReceiveEvent
  <2>6. <<>> \in Seq(Events)
    OBVIOUS
  <2>7. new \in Hubs /\ new.queue = <<>> /\ ~new.open /\ new.cursor = hub.cursor
    BY <1>1, <1>25, <2>5, <2>6 DEF Hubs
  <2>8. StreamSound(ooHistory, ooStore.next, new, to)
    BY <1>26, <2>3, <2>7, NoStream
  <2> QED BY <1>1, <1>27, <2>1, <2>3, <2>4, <2>7, <2>8, StreamKeeps
<1>29. CASE ~ended
  <2>1. ooReader' = rd
    BY <1>21, <1>29
  <2>2. ooHub' = [ooHub EXCEPT !.queue = t, !.open = ooHub.open, !.flushing = ooHub.flushing]
    BY <1>3, <1>4, <1>16, <1>29 DEF ReceiveEvent
  <2>3. ooHub' = hub
    BY <1>1, <1>24, <2>2 DEF Hubs
  <2> QED BY <1>1, <1>22, <1>25, <1>26, <1>27, <2>1, <2>3, StreamKeeps
<1> QED BY <1>17, <1>28, <1>29

-----------------------------------------------------------------------------
(* The theorems. *)

(* The invariant holds of an empty store. *)
LEMMA OutputInitInv ==
  ASSUME OutputInit
  PROVE  OutputInv
<1>1. ooStore = [records |-> {}, next |-> 1, runs |-> [r \in OutputRuns |-> NoRunRow],
                 pruned |-> 0, prunedRuns |-> [r \in OutputRuns |-> 0],
                 remote |-> <<>>, progress |-> [value |-> 0, seq |-> 0, status |-> "none"]]
  BY DEF OutputInit
<1>2. NoRunRow \in RunRows /\ NoRunRow.last = 0 /\ NoRunRow.state = "none"
  BY DEF NoRunRow, RunRow, RunRows
<1>3. ooStore \in Stores
  <2>1. [value |-> 0, seq |-> 0, status |-> "none"] \in ProgressRows
    BY DEF ProgressRows
  <2>2. [r \in OutputRuns |-> NoRunRow] \in [OutputRuns -> RunRows]
    BY <1>2
  <2>3. <<>> \in Seq(Nat)
    OBVIOUS
  <2> QED BY <1>1, <2>1, <2>2, <2>3 DEF Stores
<1>4. /\ ooStore.records = {} /\ ooStore.next = 1 /\ ooStore.pruned = 0
      /\ \A r \in OutputRuns : ooStore.runs[r] = NoRunRow /\ ooStore.prunedRuns[r] = 0
  BY <1>1
<1>5. ooHistory = {} /\ ooFaults = 0
  BY DEF OutputInit
<1>6. StoreSound(ooStore, ooHistory)
  BY <1>2, <1>4, <1>5, FS_EmptySet DEF StoreSound
<1>7. ooHost \in Hosts /\ ooHost.phase \in {"running", "done"} /\ ooHost.latest = 0
  <2>1. PICK p \in WriterPlans :
          ooHost = [phase |-> IF p.acts = <<>> THEN "done" ELSE "running",
                    plan |-> p.acts, records |-> p.records, most |-> p.most,
                    settled |-> IF p.acts = <<>> THEN {"local"} ELSE {},
                    emitted |-> FALSE, latest |-> 0,
                    stream |-> "none", streamBytes |-> 0, streamTruncated |-> FALSE]
    BY DEF OutputInit
  <2>2. p.acts \in Seq(Acts) /\ p.records \in Nat /\ p.most \in Nat
    BY OutputLimits DEF Acts
  <2>3. PICK s : s = IF p.acts = <<>> THEN {"local"} ELSE {}
    OBVIOUS
  <2>4. s \in SUBSET OutputRuns
    BY <2>3 DEF OutputRuns
  <2>5. PICK ph : ph = IF p.acts = <<>> THEN "done" ELSE "running"
    OBVIOUS
  <2>6. ph \in {"running", "done"}
    BY <2>5
  <2>7. ooHost = [phase |-> ph, plan |-> p.acts, records |-> p.records, most |-> p.most,
                  settled |-> s, emitted |-> FALSE, latest |-> 0,
                  stream |-> "none", streamBytes |-> 0, streamTruncated |-> FALSE]
    BY <2>1, <2>3, <2>5
  <2> QED BY <2>2, <2>4, <2>6, <2>7 DEF Hosts
<1>8. ooHub \in Hubs /\ ~ooHub.open /\ ooHub.queue = <<>> /\ ooHub.cursor = 0
  <2>1. <<>> \in Seq(Events)
    OBVIOUS
  <2> QED BY <2>1 DEF OutputInit, Hubs
<1>9. ooReader \in Readers /\ ooReader.shown = <<>> /\ ooReader.cursor = 0 /\ ooReader.ahead = {}
  <2>1. <<>> \in Seq(Nat)
    OBVIOUS
  <2>2. PICK s \in OutputRuns \cup {"workflow"} :
          ooReader = [subject |-> s, mode |-> "replay", cursor |-> 0, shown |-> <<>>,
                      gap |-> 0, ended |-> FALSE, ahead |-> {}, passed |-> {}]
    BY DEF OutputInit
  <2>3. {} \in SUBSET Nat
    OBVIOUS
  <2> QED BY <2>1, <2>2, <2>3 DEF Readers, Subjects
<1>10. ProgressSound(ooStore, ooHistory, ooHost)
  <2>1. ooStore.runs["local"].state = "none"
    BY <1>2, <1>4 DEF OutputRuns
  <2> QED BY <1>5, <1>7, <2>1 DEF ProgressSound
<1>11. StreamSound(ooHistory, ooStore.next, ooHub, ooReader)
  <2>1. ReaderSound(ooHistory, ooReader)
    BY <1>5, <1>9 DEF ReaderSound
  <2>2. QueueSound(ooHistory, ooReader, ooHub.queue)
    BY <1>8 DEF QueueSound
  <2>3. /\ HubSound(ooHistory, ooHub, ooReader) /\ Following(ooHub, ooReader)
        /\ PendingSound(ooHistory, ooHub, ooReader)
    BY <1>8, <1>9 DEF HubSound, Following, PendingSound
  <2>4. CursorsBehind(ooStore.next, ooHub, ooReader)
    BY <1>4, <1>8, <1>9 DEF CursorsBehind
  <2> QED BY <2>1, <2>2, <2>3, <2>4 DEF StreamSound
<1>12. OutputTypes
  BY <1>3, <1>5, <1>7, <1>8, <1>9, OutputLimits DEF OutputTypes
<1> QED BY <1>6, <1>10, <1>11, <1>12 DEF OutputInv

(* Every step keeps the invariant. *)
LEMMA OutputNextInv ==
  ASSUME OutputInv, [OutputNext]_ooVars
  PROVE  OutputInv'
<1>1. CASE WriteScriptOutput
  BY <1>1, WriteScriptOutputKeeps
<1>2. CASE AppendProcessOutput
  BY <1>2, AppendProcessOutputKeeps
<1>3. CASE ReportProgress
  BY <1>3, ReportProgressKeeps
<1>4. CASE StartStream
  BY <1>4, StartStreamKeeps
<1>5. CASE CloseProcessStream
  BY <1>5, CloseProcessStreamKeeps
<1>6. CASE CompleteScript
  BY <1>6, CompleteScriptKeeps
<1>7. CASE CloseAttempt
  BY <1>7, CloseAttemptKeeps
<1>8. CASE \E n \in 1..(Len(ooStore.remote) + 2) : IngestRemoteOutput(n)
  BY <1>8, IngestRemoteOutputKeeps
<1>9. ASSUME NEW run \in OutputRuns,
             SettleOperationalRun(run) \/ PruneRun(run) \/ RecoverInterruptedStream(run)
      PROVE  OutputInv'
  BY <1>9, SettleOperationalRunKeeps, PruneRunKeeps, RecoverInterruptedStreamKeeps
<1>10. CASE NotifyHub
  BY <1>10, NotifyHubKeeps
<1>11. CASE FlushPage
  BY <1>11, FlushPageKeeps
<1>12. CASE Heartbeat
  BY <1>12, HeartbeatKeeps
<1>13. CASE ReplayPage
  BY <1>13, ReplayPageKeeps
<1>14. CASE Connect
  BY <1>14, ConnectKeeps
<1>15. CASE ReceiveEvent
  BY <1>15, ReceiveEventKeeps
<1>16. CASE StreamEnded
  BY <1>16, StreamEndedKeeps
<1>17. CASE CloseStreams
  BY <1>17, CloseStreamsKeeps
<1>18. CASE CutConnection
  BY <1>18, CutConnectionKeeps
<1>19. CASE CrashRuntime
  BY <1>19, CrashRuntimeKeeps
<1>20. CASE UNCHANGED ooVars
  <2>1. UNCHANGED <<ooStore, ooHistory, ooHost, ooHub, ooReader, ooFaults>>
    BY <1>20 DEF ooVars
  <2>2. OutputTypes'
    BY <2>1 DEF OutputInv, OutputTypes
  <2> QED BY <2>1, <2>2 DEF OutputInv
<1> QED BY <1>1, <1>2, <1>3, <1>4, <1>5, <1>6, <1>7, <1>8, <1>9, <1>10, <1>11, <1>12, <1>13, <1>14,
           <1>15, <1>16, <1>17, <1>18, <1>19, <1>20 DEF OutputNext

(***************************************************************************)
(* The output store, its hub and a reader keep OutputInv: a record ever    *)
(* appended is retained or behind what pruning reports, no cursor of hub,  *)
(* queue or reader passes the store's next sequence, and what a reader was *)
(* shown and what is on its way to it accounts for every record up to the  *)
(* cursor of each (operational_output.rs append, read_page, prune; the hub *)
(* of the runtime and the client that follows it).                         *)
(***************************************************************************)
THEOREM OutputInvariant == OutputSpec => []OutputInv
<1>1. OutputInit => OutputInv
  BY OutputInitInv
<1>2. OutputInv /\ [OutputNext]_ooVars => OutputInv'
  BY OutputNextInv
<1> QED BY <1>1, <1>2, PTL DEF OutputSpec

(* What the reader knows of follows from the invariant. *)
LEMMA OutputInvTells ==
  ASSUME OutputInv
  PROVE  ReadersMissNothing
<1>1. /\ ooHistory \in SUBSET OutputRecords /\ ooReader \in Readers /\ ooHub \in Hubs
      /\ StoreSound(ooStore, ooHistory) /\ ProgressSound(ooStore, ooHistory, ooHost)
      /\ ReaderSound(ooHistory, ooReader) /\ PendingSound(ooHistory, ooHub, ooReader)
  BY DEF OutputInv, OutputTypes, StreamSound
<1>2. PICK s : s = ooReader.shown
  OBVIOUS
<1>3. s \in Seq(Nat) /\ ooReader.cursor \in Nat /\ ooHub.queue \in Seq(Events)
  BY <1>1, <1>2 DEF Readers, Hubs
<1>4. /\ DOMAIN s = 1..Len(s) /\ \A i \in 1..Len(s) : s[i] \in Nat
      /\ DOMAIN ooHub.queue = 1..Len(ooHub.queue)
  BY <1>3
<1>5. \A x \in ooHistory : x.seq \in Nat
  BY <1>1 DEF OutputRecords
<1> DEFINE OnItsWay(n) ==
             /\ ooReader.mode = "follow" /\ n \in ooReader.ahead
             /\ ooHub.open => \E i \in 1..Len(ooHub.queue) :
                                ooHub.queue[i].kind = "record" /\ ooHub.queue[i].cursor = n
           Known(n) == \/ n \in ShownTo(ooReader) \/ n <= ooReader.gap
                       \/ n \in ooReader.passed \/ OnItsWay(n)
<1>6. \A n : KnownTo(ooReader, n) => Known(n)
  BY <1>2, <1>4 DEF KnownTo, ShownTo
<1>8. \A i, j \in 1..Len(s) : i < j => s[i] < s[j]
  BY <1>1, <1>2, <1>4 DEF ReaderSound
<1>9. ASSUME NEW x \in ooHistory, InScope(x, ooReader.subject), x.seq <= ooReader.cursor
      PROVE  Known(x.seq)
  <2>1. ToldOf(ooReader, x.seq)
    BY <1>1, <1>9 DEF ReaderSound
  <2>2. CASE KnownTo(ooReader, x.seq)
    BY <1>6, <2>2
  <2>3. CASE x.seq \in ooReader.ahead
    <3>1. ooReader.mode = "follow" /\ Owed(ooReader, ooHub.queue, x.seq)
      BY <1>1, <2>3 DEF PendingSound, Owed
    <3>2. ooHub.open => Coming(ooReader, ooHub.queue, x.seq)
      BY <1>1, <1>9, <3>1 DEF PendingSound
    <3>3. CASE KnownTo(ooReader, x.seq)
      BY <1>6, <3>3
    <3>4. CASE ~KnownTo(ooReader, x.seq)
      <4>1. OnItsWay(x.seq)
        BY <1>4, <2>3, <3>1, <3>2, <3>4 DEF Coming
      <4> QED BY <4>1
    <3> QED BY <3>3, <3>4
  <2> QED BY <2>1, <2>2, <2>3 DEF ToldOf
<1>10. ASSUME NEW x \in ooHistory, x.kind = "closed", x.value > 0, x.seq \in ShownTo(ooReader)
       PROVE  \E y \in ooHistory : y.kind = "progress" /\ y.value = x.value /\ Known(y.seq)
  <2>1. PICK i \in 1..Len(s) : s[i] = x.seq
    BY <1>2, <1>10 DEF ShownTo
  <2>2. x.seq <= ooReader.cursor /\ \E z \in ooHistory : z.seq = x.seq /\ InScope(z, ooReader.subject)
    BY <1>1, <1>2, <1>4, <2>1 DEF ReaderSound
  <2>3. InScope(x, ooReader.subject)
    BY <1>1, <2>2 DEF StoreSound
  <2>4. PICK y \in ooHistory : y.kind = "progress" /\ y.run = x.run /\ y.value = x.value /\ y.seq < x.seq
    BY <1>1, <1>10 DEF ProgressSound, ReportedBefore
  <2>5. InScope(y, ooReader.subject)
    BY <2>3, <2>4 DEF InScope
  <2>6. y.seq <= ooReader.cursor
    BY <1>3, <1>5, <2>2, <2>4
  <2>7. Known(y.seq)
    BY <1>9, <2>5, <2>6
  <2> QED BY <2>4, <2>7
<1> HIDE DEF OnItsWay, Known
<1> QED BY <1>2, <1>8, <1>9, <1>10 DEF ReadersMissNothing, OnItsWay, Known

(***************************************************************************)
(* For every budget, page size, queue length and script, and any number of *)
(* cut connections, restarts and prunings: a reader is shown records in    *)
(* order and once; every record of its scope up to its cursor was shown,   *)
(* lies in a gap it was told of, or was announced by a gap event and is on *)
(* its way, or was passed over when that event's stream ended; and one     *)
(* that saw a script close its attempt knows as much of the newest         *)
(* progress the script reported (read_page's cursor and gap, the hub's     *)
(* flush, and the client's replay and cursor in log-follower.ts).          *)
(***************************************************************************)
THEOREM ReadersAreTold == OutputSpec => []ReadersMissNothing
<1>1. OutputInv => ReadersMissNothing
  BY OutputInvTells
<1> QED BY <1>1, OutputInvariant, PTL

==============================================================================
