-------------------------- MODULE LockLeasesProofs --------------------------
(***************************************************************************)
(* The invariants of LockLeases for any number of runs, acquisitions, keys *)
(* and for any lease, limit and clock bound.                               *)
(*                                                                         *)
(* A transaction is a function from a database value to a database value,  *)
(* so the inductive invariant DbInv is a predicate on that value, and one  *)
(* lemma per helper (Expire, HandTo, Grant, Enqueue...) says that the     *)
(* helper preserves it.  A step of the specification then follows from the *)
(* lemmas of the helpers its transaction calls.                            *)
(***************************************************************************)
EXTENDS LockLeases, WellFoundedInduction, TLAPS

-----------------------------------------------------------------------------
(* Extremal elements of sets of naturals, for the queue order. *)

(* A nonempty set of naturals has a least element. *)
LEMMA LeastNatural ==
  ASSUME NEW S \in SUBSET Nat, S # {}
  PROVE  \E n \in S : \A m \in S : n <= m
<1>1. \E n \in S : \A m \in S : ~(<<m, n>> \in OpToRel(<, Nat))
  BY WFMin, NatLessThanWellFounded, Zenon
<1>2. PICK n \in S : \A m \in S : ~(<<m, n>> \in OpToRel(<, Nat))
  BY <1>1
<1>3. ASSUME NEW m \in S PROVE n <= m
  <2>1. ~(<<m, n>> \in {ss \in Nat \X Nat : ss[1] < ss[2]})
    BY <1>2 DEF OpToRel
  <2>2. m \in Nat /\ n \in Nat
    OBVIOUS
  <2> QED BY <2>1, <2>2
<1> QED BY <1>3

(* A bounded set of naturals that contains 0 has a greatest element. *)
LEMMA GreatestNatural ==
  ASSUME NEW S \in SUBSET Nat, 0 \in S, NEW b \in Nat, \A m \in S : m <= b
  PROVE  \E n \in S : \A m \in S : m <= n
<1> DEFINE U == {u \in Nat : \A m \in S : m <= u}
<1>1. PICK u \in U : \A v \in U : u <= v
  <2>1. U \in SUBSET Nat /\ U # {}
    OBVIOUS
  <2> HIDE DEF U
  <2> QED BY <2>1, LeastNatural
<1>2. u \in S
  <2> SUFFICES ASSUME u \notin S PROVE FALSE
    OBVIOUS
  <2>1. u \in Nat /\ \A m \in S : m <= u
    BY <1>1
  <2>2. u # 0
    OBVIOUS
  <2>3. \A m \in S : m <= u - 1
    BY <2>1
  <2>4. u - 1 \in U
    BY <2>1, <2>2, <2>3
  <2>5. u <= u - 1
    BY <2>4, <1>1
  <2> QED BY <2>5, <2>1
<1> QED BY <1>1, <1>2

-----------------------------------------------------------------------------
(* The inductive invariant. *)

(* OwnerMatchesQueue on a database value. *)
OwnersConsistent(d) ==
  /\ \A k \in Keys : d.resources[k].owner # NoOwner =>
       /\ d.waiters[d.resources[k].owner].status = "held"
       /\ d.waiters[d.resources[k].owner].key = k
       /\ d.waiters[d.resources[k].owner].token = d.resources[k].token
       /\ d.resources[k].token = d.resources[k].high
       /\ d.resources[k].owner \in MarkupLocks =>
            d.locks[d.resources[k].owner] = "Held"
  /\ \A e \in Acquisitions :
       d.waiters[e].status = "held" =>
         d.resources[d.waiters[e].key].owner = e
  /\ \A e \in MarkupLocks :
       /\ d.locks[e] = "Held" => d.waiters[e].status \in {"held", "lost"}
       /\ d.locks[e] = "Waiting" <=> d.waiters[e].status = "waiting"

(* UniqueTokens on a database value, and that an acquisition has no token  *)
(* before it is granted.                                                   *)
TokensConsistent(d) ==
  /\ \A e \in Acquisitions :
       /\ d.waiters[e].token <= d.resources[d.waiters[e].key].high
       /\ d.waiters[e].status \in {"none", "waiting"} =>
            d.waiters[e].token = 0
  /\ \A e, f \in Acquisitions :
       /\ e # f
       /\ d.waiters[e].key = d.waiters[f].key
       /\ d.waiters[e].token > 0
       => d.waiters[e].token # d.waiters[f].token

(* The sequences are bounded, so the next one exists. *)
SequencesBounded(d) ==
  \E b \in Nat : \A e \in Acquisitions : d.waiters[e].seq <= b

DbInv(d) ==
  /\ d \in Databases
  /\ OwnersConsistent(d)
  /\ TokensConsistent(d)
  /\ SequencesBounded(d)

IInv ==
  /\ DbInv(Db)
  /\ admitted \in [Keys -> Nat]
  /\ \A k \in Keys : admitted[k] <= resources[k].high
  /\ now \in 0..MaxTime

(* The last backup is a store that satisfied the invariant. *)
HistoryInv ==
  /\ DbInv(backup)
  /\ restores \in 0..MaxRestores
  /\ told \subseteq GrantRecords
  /\ forgotten \in [Keys -> SUBSET Nat]

-----------------------------------------------------------------------------
(* The helpers preserve DbInv. *)

(* The fold operators map projections to projections. *)
LEMMA FoldType ==
  ASSUME NEW p \in RunProjections
  PROVE  /\ LockWaitRegistered(p) \in RunProjections
         /\ LockAcquired(p) \in RunProjections
         /\ LockReleased(p) \in RunProjections
         /\ LockAcquireTimedOut(p) \in RunProjections
         /\ LockAcquisitionCancelled(p) \in RunProjections
         /\ LockLeaseLost(p) \in RunProjections
         /\ RunCancellationRequested(p) \in RunProjections
         /\ RunTimeoutReached(p) \in RunProjections
         /\ \A o \in BusinessOutcomes : RunOutcomeDecided(p, o) \in RunProjections
         /\ CanRunFinalized(p) => RunFinalized(p) \in RunProjections
BY DEF RunProjections, RunStatuses, BusinessOutcomes, NoOutcome,
       LockWaitRegistered, LockAcquired, LockReleased, LockAcquireTimedOut,
       LockAcquisitionCancelled, LockLeaseLost, RunCancellationRequested,
       RunTimeoutReached, RunOutcomeDecided, CanRunFinalized, RunFinalized

(* The acquisition Grant chooses is an eligible waiter of the key. *)
LEMMA OldestEligible ==
  ASSUME NEW d \in Databases, NEW k \in Keys, NEW t \in Nat,
         Eligible(d, k, t) # {}
  PROVE  Oldest(d, k, t) \in Eligible(d, k, t)
<1> DEFINE S == {d.waiters[e].seq : e \in Eligible(d, k, t)}
<1>1. \A e \in Eligible(d, k, t) : e \in Acquisitions
  BY DEF Eligible, Queue
<1>2. S \in SUBSET Nat /\ S # {}
  BY <1>1 DEF Databases, WaiterRows
<1>3. PICK n \in S : \A m \in S : n <= m
  <2> HIDE DEF S
  <2> QED BY <1>2, LeastNatural
<1>4. PICK e \in Eligible(d, k, t) : n = d.waiters[e].seq
  BY <1>3
<1>5. \A f \in Eligible(d, k, t) : d.waiters[e].seq <= d.waiters[f].seq
  BY <1>3, <1>4
<1> HIDE DEF S
<1> QED BY <1>5 DEF Oldest

(* The two table updates of the helpers. *)
WithStatus(w, e, st) == [w EXCEPT ![e].status = st]

Freed(r, k) == [r EXCEPT ![k] = FreeRow(r[k])]

(* A waiter row whose status changes keeps its other fields. *)
LEMMA StatusUpdate ==
  ASSUME NEW w \in [Acquisitions -> WaiterRows], NEW e \in Acquisitions,
         NEW st \in WaiterStatuses,
         NEW v, v = WithStatus(w, e, st)
  PROVE  /\ v \in [Acquisitions -> WaiterRows]
         /\ \A f \in Acquisitions :
              /\ v[f].status = IF f = e THEN st ELSE w[f].status
              /\ v[f].key = w[f].key
              /\ v[f].seq = w[f].seq
              /\ v[f].deadline = w[f].deadline
              /\ v[f].token = w[f].token
<1>1. w[e] \in WaiterRows
  OBVIOUS
<1>2. v = [w EXCEPT ![e] = [w[e] EXCEPT !.status = st]]
  BY DEF WithStatus
<1>3. [w[e] EXCEPT !.status = st] =
      [status |-> st, key |-> w[e].key, seq |-> w[e].seq,
       deadline |-> w[e].deadline, token |-> w[e].token]
  BY <1>1 DEF WaiterRows
<1>4. v = [w EXCEPT ![e] =
            [status |-> st, key |-> w[e].key, seq |-> w[e].seq,
             deadline |-> w[e].deadline, token |-> w[e].token]]
  BY <1>2, <1>3
<1> QED BY <1>4 DEF WaiterRows

(* A granted waiter row keeps its key, sequence and deadline. *)
LEMMA GrantedRow ==
  ASSUME NEW r \in WaiterRows, NEW n \in Nat
  PROVE  [r EXCEPT !.status = "held", !.token = n] =
         [status |-> "held", key |-> r.key, seq |-> r.seq,
          deadline |-> r.deadline, token |-> n]
<1>1. [r EXCEPT !.status = "held", !.token = n] =
      [[r EXCEPT !.status = "held"] EXCEPT !.token = n]
  OBVIOUS
<1>2. [r EXCEPT !.status = "held"] =
      [status |-> "held", key |-> r.key, seq |-> r.seq,
       deadline |-> r.deadline, token |-> r.token]
  BY DEF WaiterRows
<1>3. [[status |-> "held", key |-> r.key, seq |-> r.seq,
        deadline |-> r.deadline, token |-> r.token] EXCEPT !.token = n] =
      [status |-> "held", key |-> r.key, seq |-> r.seq,
       deadline |-> r.deadline, token |-> n]
  OBVIOUS
<1> QED BY <1>1, <1>2, <1>3, Zenon

(* The fields of a database value have their types. *)
LEMMA DbFields ==
  ASSUME NEW d, DbInv(d)
  PROVE  /\ d.resources \in [Keys -> ResourceRows]
         /\ d.waiters \in [Acquisitions -> WaiterRows]
         /\ d.locks \in [MarkupLocks -> LockStatuses]
         /\ d.runs \in [Runs -> RunProjections]
         /\ d = [resources |-> d.resources, waiters |-> d.waiters,
                 locks |-> d.locks, runs |-> d.runs]
BY DEF DbInv, Databases

(* A database value is a record of four fields. *)
LEMMA DbRecord ==
  ASSUME NEW d \in Databases
  PROVE  d = [resources |-> d.resources, waiters |-> d.waiters,
              locks |-> d.locks, runs |-> d.runs]
BY DEF Databases

(* A lock event updates one projected lock and one run projection. *)
LEMMA RecordFields ==
  ASSUME NEW d \in Databases, NEW e \in MarkupLocks,
         NEW ls \in LockStatuses, NEW p \in RunProjections
  PROVE  /\ RecordLockEvent(d, e, ls, p).resources = d.resources
         /\ RecordLockEvent(d, e, ls, p).waiters = d.waiters
         /\ RecordLockEvent(d, e, ls, p).locks = [d.locks EXCEPT ![e] = ls]
         /\ RecordLockEvent(d, e, ls, p) \in Databases
<1> DEFINE y == RecordLockEvent(d, e, ls, p)
<1>1. y = [resources |-> d.resources, waiters |-> d.waiters,
           locks |-> [d.locks EXCEPT ![e] = ls],
           runs |-> [d.runs EXCEPT ![RunOf[e]] = p]]
  <2>1. y = [[resources |-> d.resources, waiters |-> d.waiters,
              locks |-> d.locks, runs |-> d.runs]
             EXCEPT !.locks[e] = ls, !.runs[RunOf[e]] = p]
    BY DbRecord, Zenon DEF RecordLockEvent
  <2> QED BY <2>1
<1>2. /\ y.resources = d.resources
      /\ y.waiters = d.waiters
      /\ y.locks = [d.locks EXCEPT ![e] = ls]
      /\ y.runs = [d.runs EXCEPT ![RunOf[e]] = p]
      /\ y = [resources |-> y.resources, waiters |-> y.waiters,
              locks |-> y.locks, runs |-> y.runs]
  <2> HIDE DEF y
  <2> QED BY <1>1
<1>3. RunOf[e] \in Runs
  BY LockAssumption DEF Acquisitions
<1> HIDE DEF y
<1>4. /\ y.resources \in [Keys -> ResourceRows]
      /\ y.waiters \in [Acquisitions -> WaiterRows]
      /\ y.locks \in [MarkupLocks -> LockStatuses]
      /\ y.runs \in [Runs -> RunProjections]
  BY <1>2, <1>3 DEF Databases
<1> QED BY <1>2, <1>4 DEF Databases, y

(* Vacating a key frees its row and settles the owner's waiter row. *)
LEMMA VacateFields ==
  ASSUME NEW d \in Databases, NEW k \in Keys, NEW e \in Acquisitions,
         NEW st \in WaiterStatuses
  PROVE  /\ Vacate(d, k, e, st).resources = Freed(d.resources, k)
         /\ Vacate(d, k, e, st).waiters = WithStatus(d.waiters, e, st)
         /\ Vacate(d, k, e, st).locks = d.locks
         /\ Vacate(d, k, e, st).runs = d.runs
         /\ Vacate(d, k, e, st) \in Databases
<1> DEFINE y == Vacate(d, k, e, st)
<1>1. /\ y.resources = Freed(d.resources, k)
      /\ y.waiters = [d.waiters EXCEPT ![e] = [d.waiters[e] EXCEPT !.status = st]]
      /\ y.locks = d.locks
      /\ y.runs = d.runs
  BY DEF Databases, Vacate, Freed
<1>2. y = [resources |-> y.resources, waiters |-> y.waiters,
           locks |-> y.locks, runs |-> y.runs]
  <2>1. y = [[resources |-> d.resources, waiters |-> d.waiters,
              locks |-> d.locks, runs |-> d.runs]
             EXCEPT !.resources[k] = FreeRow(@), !.waiters[e].status = st]
    BY DbRecord, Zenon DEF Vacate
  <2>2. y = [resources |-> Freed(d.resources, k),
             waiters |-> [d.waiters EXCEPT ![e] =
                            [d.waiters[e] EXCEPT !.status = st]],
             locks |-> d.locks, runs |-> d.runs]
    BY <2>1 DEF Freed
  <2> QED BY <2>2, Zenon
<1> HIDE DEF y
<1>3. y.waiters = WithStatus(d.waiters, e, st)
  BY <1>1 DEF WithStatus
<1>4. y.waiters \in [Acquisitions -> WaiterRows]
  BY <1>3, StatusUpdate DEF Databases
<1>5. y.resources \in [Keys -> ResourceRows]
  BY <1>1 DEF Databases, ResourceRows, Freed, FreeRow
<1>6. y \in Databases
  BY <1>1, <1>2, <1>4, <1>5 DEF Databases
<1> QED BY <1>1, <1>3, <1>6 DEF y

(* Settling changes one waiter row. *)
LEMMA SettleFields ==
  ASSUME NEW d \in Databases, NEW e \in Acquisitions, NEW st \in WaiterStatuses
  PROVE  /\ Settle(d, e, st).resources = d.resources
         /\ Settle(d, e, st).waiters = WithStatus(d.waiters, e, st)
         /\ Settle(d, e, st).locks = d.locks
         /\ Settle(d, e, st).runs = d.runs
         /\ Settle(d, e, st) \in Databases
<1> DEFINE y == Settle(d, e, st)
<1>1. /\ y.resources = d.resources
      /\ y.waiters = [d.waiters EXCEPT ![e] = [d.waiters[e] EXCEPT !.status = st]]
      /\ y.locks = d.locks
      /\ y.runs = d.runs
  BY DEF Databases, Settle
<1>2. y = [resources |-> y.resources, waiters |-> y.waiters,
           locks |-> y.locks, runs |-> y.runs]
  BY DEF Databases, Settle
<1> HIDE DEF y
<1>3. y.waiters = WithStatus(d.waiters, e, st)
  BY <1>1 DEF WithStatus
<1>4. y.waiters \in [Acquisitions -> WaiterRows]
  BY <1>3, StatusUpdate DEF Databases
<1>5. y \in Databases
  BY <1>1, <1>2, <1>4 DEF Databases
<1> QED BY <1>1, <1>3, <1>5 DEF y

(* x settles in d an acquisition that waits or holds its key: the key it   *)
(* owned, if any, becomes free, and so does its projected lock.            *)
Settles(d, x, e, st) ==
  /\ d.waiters[e].status \in {"waiting", "held"}
  /\ x.waiters = WithStatus(d.waiters, e, st)
  /\ \A j \in Keys :
       /\ x.resources[j].high = d.resources[j].high
       /\ x.resources[j].owner = IF d.resources[j].owner = e THEN NoOwner
                                 ELSE d.resources[j].owner
       /\ d.resources[j].owner # e =>
            x.resources[j].token = d.resources[j].token
  /\ \A f \in MarkupLocks : f # e => x.locks[f] = d.locks[f]
  /\ e \in MarkupLocks => x.locks[e] \notin {"Held", "Waiting"}

(* Settling an acquisition keeps the database consistent. *)
LEMMA SettleInv ==
  ASSUME NEW d, DbInv(d), NEW x \in Databases, NEW e \in Acquisitions,
         NEW st \in SettledStatuses, Settles(d, x, e, st)
  PROVE  DbInv(x)
<1> USE DEF Settles, SettledStatuses
<1>1. /\ d.resources \in [Keys -> ResourceRows]
      /\ d.waiters \in [Acquisitions -> WaiterRows]
  BY DbFields
<1>2. /\ x.waiters \in [Acquisitions -> WaiterRows]
      /\ \A f \in Acquisitions :
           /\ x.waiters[f].status = IF f = e THEN st ELSE d.waiters[f].status
           /\ x.waiters[f].key = d.waiters[f].key
           /\ x.waiters[f].seq = d.waiters[f].seq
           /\ x.waiters[f].token = d.waiters[f].token
  <2>1. st \in WaiterStatuses
    BY DEF WaiterStatuses
  <2> QED BY <1>1, <2>1, StatusUpdate
<1>3. OwnersConsistent(x)
  <2>1. ASSUME NEW j \in Keys, x.resources[j].owner # NoOwner
        PROVE  /\ x.resources[j].owner = d.resources[j].owner
               /\ d.resources[j].owner \in Acquisitions
               /\ d.resources[j].owner # e
    BY <2>1, <1>1 DEF ResourceRows
  <2>2. \A j \in Keys : x.resources[j].owner # NoOwner =>
          /\ x.waiters[x.resources[j].owner].status = "held"
          /\ x.waiters[x.resources[j].owner].key = j
          /\ x.waiters[x.resources[j].owner].token = x.resources[j].token
          /\ x.resources[j].token = x.resources[j].high
          /\ x.resources[j].owner \in MarkupLocks =>
               x.locks[x.resources[j].owner] = "Held"
    BY <2>1, <1>2 DEF DbInv, OwnersConsistent
  <2>3. ASSUME NEW f \in Acquisitions, x.waiters[f].status = "held"
        PROVE  x.resources[x.waiters[f].key].owner = f
    <3>1. f # e /\ d.waiters[f].status = "held"
      BY <2>3, <1>2
    <3>2. d.resources[d.waiters[f].key].owner = f
      BY <3>1 DEF DbInv, OwnersConsistent
    <3>3. d.waiters[f].key \in Keys
      BY <1>1 DEF WaiterRows
    <3> QED BY <3>1, <3>2, <3>3, <1>2
  <2>4. \A f \in MarkupLocks :
          /\ x.locks[f] = "Held" => x.waiters[f].status \in {"held", "lost"}
          /\ x.locks[f] = "Waiting" <=> x.waiters[f].status = "waiting"
    BY <1>2 DEF DbInv, OwnersConsistent, Acquisitions
  <2> QED BY <2>2, <2>3, <2>4 DEF OwnersConsistent
<1>4. TokensConsistent(x)
  <2>1. \A f \in Acquisitions :
          x.waiters[f].key \in Keys /\ x.waiters[f].token \in Nat
    BY <1>2 DEF WaiterRows
  <2>2. \A f \in Acquisitions :
          /\ x.waiters[f].token <= x.resources[x.waiters[f].key].high
          /\ x.waiters[f].status \in {"none", "waiting"} =>
               x.waiters[f].token = 0
    BY <2>1, <1>2 DEF DbInv, TokensConsistent
  <2>3. \A f, g \in Acquisitions :
          /\ f # g
          /\ x.waiters[f].key = x.waiters[g].key
          /\ x.waiters[f].token > 0
          => x.waiters[f].token # x.waiters[g].token
    BY <1>2 DEF DbInv, TokensConsistent
  <2> QED BY <2>2, <2>3 DEF TokensConsistent
<1>5. SequencesBounded(x)
  BY <1>2 DEF DbInv, SequencesBounded
<1> QED BY <1>3, <1>4, <1>5 DEF DbInv

(* Expiring an owner frees the key, marks the owner's row lost and, for a  *)
(* markup lock, records the loss in its history.                           *)
LEMMA ExpireFields ==
  ASSUME NEW d, DbInv(d), NEW k \in Keys, NEW t \in Nat,
         OwnerExpired(d, k, t), NEW e, e = d.resources[k].owner,
         NEW x, x = Expire(d, k, t)
  PROVE  /\ e \in Acquisitions
         /\ x \in Databases
         /\ x.resources = Freed(d.resources, k)
         /\ x.waiters = WithStatus(d.waiters, e, "lost")
         /\ x.locks = IF e \in Sessions THEN d.locks
                      ELSE [d.locks EXCEPT ![e] = "LeaseLost"]
<1>0. /\ d.resources \in [Keys -> ResourceRows]
      /\ d.runs \in [Runs -> RunProjections]
  BY DbFields
<1>1. e \in Acquisitions
  BY <1>0 DEF OwnerExpired, ResourceRows
<1>2. d \in Databases /\ "lost" \in WaiterStatuses /\ "LeaseLost" \in LockStatuses
  BY DEF DbInv, WaiterStatuses, LockStatuses
<1> DEFINE v == Vacate(d, k, e, "lost")
<1>3. /\ v.resources = Freed(d.resources, k)
      /\ v.waiters = WithStatus(d.waiters, e, "lost")
      /\ v.locks = d.locks
      /\ v \in Databases
  BY <1>1, <1>2, VacateFields
<1>4. CASE e \in Sessions
  <2>1. x = v
    BY <1>4 DEF Expire
  <2> HIDE DEF v
  <2> QED BY <1>1, <1>3, <1>4, <2>1
<1>5. CASE e \notin Sessions
  <2>1. e \in MarkupLocks /\ RunOf[e] \in Runs
    BY <1>1, <1>5, LockAssumption DEF Acquisitions
  <2> DEFINE p == LockLeaseLost(d.runs[RunOf[e]])
  <2>2. p \in RunProjections
    BY <1>0, <2>1, FoldType
  <2>3. x = RecordLockEvent(v, e, "LeaseLost", p)
    BY <1>5 DEF Expire
  <2> HIDE DEF v, p
  <2>4. /\ x \in Databases
        /\ x.resources = v.resources
        /\ x.waiters = v.waiters
        /\ x.locks = [v.locks EXCEPT ![e] = "LeaseLost"]
    BY <1>2, <1>3, <2>1, <2>2, <2>3, RecordFields
  <2> QED BY <1>1, <1>3, <1>5, <2>4
<1> QED BY <1>4, <1>5

(* expire_lock_owner keeps the tables and the histories consistent. *)
LEMMA ExpireInv ==
  ASSUME NEW d, DbInv(d), NEW k \in Keys, NEW t \in Nat
  PROVE  DbInv(Expire(d, k, t))
<1> DEFINE x == Expire(d, k, t)
           e == d.resources[k].owner
<1>1. CASE ~OwnerExpired(d, k, t)
  BY <1>1 DEF Expire
<1>2. CASE OwnerExpired(d, k, t)
  <2>0. /\ d.resources \in [Keys -> ResourceRows]
        /\ d.locks \in [MarkupLocks -> LockStatuses]
    BY DbFields
  <2>1. /\ e \in Acquisitions
        /\ d.waiters[e].status = "held"
        /\ \A j \in Keys : d.resources[j].owner = e <=> j = k
    BY <1>2, <2>0 DEF OwnerExpired, ResourceRows, DbInv, OwnersConsistent
  <2>2. /\ x \in Databases
        /\ x.resources = Freed(d.resources, k)
        /\ x.waiters = WithStatus(d.waiters, e, "lost")
        /\ x.locks = IF e \in Sessions THEN d.locks
                     ELSE [d.locks EXCEPT ![e] = "LeaseLost"]
    BY <1>2, ExpireFields
  <2> HIDE DEF x, e
  <2>3. \A j \in Keys :
          /\ x.resources[j].owner = IF j = k THEN NoOwner
                                    ELSE d.resources[j].owner
          /\ x.resources[j].high = d.resources[j].high
          /\ j # k => x.resources[j].token = d.resources[j].token
    BY <2>0, <2>2 DEF Freed, FreeRow, ResourceRows
  <2>4. \A j \in Keys :
          /\ x.resources[j].high = d.resources[j].high
          /\ x.resources[j].owner =
               IF d.resources[j].owner = e THEN NoOwner
               ELSE d.resources[j].owner
          /\ d.resources[j].owner # e =>
               x.resources[j].token = d.resources[j].token
    BY <2>1, <2>3
  <2>5. /\ \A f \in MarkupLocks : f # e => x.locks[f] = d.locks[f]
        /\ e \in MarkupLocks => x.locks[e] \notin {"Held", "Waiting"}
    BY <2>0, <2>2, LockAssumption
  <2>6. Settles(d, x, e, "lost")
    BY <2>1, <2>2, <2>4, <2>5 DEF Settles
  <2>7. "lost" \in SettledStatuses
    BY DEF SettledStatuses
  <2>8. DbInv(x)
    BY <2>1, <2>2, <2>6, <2>7, SettleInv
  <2> QED BY <2>8 DEF x
<1> QED BY <1>1, <1>2

(* Handing a key over writes its row, the waiter's row and, for a markup   *)
(* lock, its history.                                                      *)
LEMMA HandToFields ==
  ASSUME NEW d \in Databases, NEW k \in Keys, NEW t \in Nat,
         NEW e \in Acquisitions, NEW x, x = HandTo(d, k, e, t)
  PROVE  /\ x \in Databases
         /\ x.resources = [d.resources EXCEPT ![k] =
              [high |-> d.resources[k].high + 1, owner |-> e,
               token |-> d.resources[k].high + 1, expires |-> t + Lease]]
         /\ x.waiters = [d.waiters EXCEPT ![e] =
              [status |-> "held", key |-> d.waiters[e].key,
               seq |-> d.waiters[e].seq, deadline |-> d.waiters[e].deadline,
               token |-> d.resources[k].high + 1]]
         /\ \A f \in MarkupLocks :
              x.locks[f] = IF f = e THEN "Held" ELSE d.locks[f]
<1> DEFINE row == [high |-> d.resources[k].high + 1, owner |-> e,
                   token |-> d.resources[k].high + 1, expires |-> t + Lease]
           w == [d.waiters[e] EXCEPT !.status = "held",
                                     !.token = d.resources[k].high + 1]
           y == [d EXCEPT
                   !.resources[k] = row,
                   !.waiters[e] = w]
<1>0. /\ d.resources \in [Keys -> ResourceRows]
      /\ d.waiters \in [Acquisitions -> WaiterRows]
      /\ d.locks \in [MarkupLocks -> LockStatuses]
      /\ d.runs \in [Runs -> RunProjections]
  BY DEF Databases
<1>1. d.resources[k].high + 1 \in Nat /\ row \in ResourceRows
  BY <1>0, BoundAssumption DEF ResourceRows
<1>2. x = IF e \in Sessions THEN y
          ELSE RecordLockEvent(y, e, "Held", LockAcquired(d.runs[RunOf[e]]))
  BY DEF HandTo
<1> HIDE DEF row, w
<1>3. /\ y.resources = [d.resources EXCEPT ![k] = row]
      /\ y.waiters = [d.waiters EXCEPT ![e] = w]
      /\ y.locks = d.locks
      /\ y.runs = d.runs
  BY DEF Databases
<1>4. y = [resources |-> y.resources, waiters |-> y.waiters,
           locks |-> y.locks, runs |-> y.runs]
  <2>1. y = [[resources |-> d.resources, waiters |-> d.waiters,
              locks |-> d.locks, runs |-> d.runs]
             EXCEPT !.resources[k] = row, !.waiters[e] = w]
    BY DbRecord, Zenon
  <2>2. y = [resources |-> [d.resources EXCEPT ![k] = row],
             waiters |-> [d.waiters EXCEPT ![e] = w],
             locks |-> d.locks, runs |-> d.runs]
    <3> HIDE DEF y
    <3> QED BY <2>1
  <2> QED BY <2>2, Zenon
<1> HIDE DEF y
<1>5. y.waiters = [d.waiters EXCEPT ![e] =
        [status |-> "held", key |-> d.waiters[e].key,
         seq |-> d.waiters[e].seq, deadline |-> d.waiters[e].deadline,
         token |-> d.resources[k].high + 1]]
  <2>1. d.waiters[e] \in WaiterRows
    BY <1>0
  <2>2. w =
        [status |-> "held", key |-> d.waiters[e].key,
         seq |-> d.waiters[e].seq, deadline |-> d.waiters[e].deadline,
         token |-> d.resources[k].high + 1]
    BY <2>1, <1>1, GrantedRow DEF w
  <2> QED BY <1>3, <2>2
<1>6. y \in Databases
  <2>1. y.waiters \in [Acquisitions -> WaiterRows]
    BY <1>0, <1>1, <1>5 DEF WaiterRows, WaiterStatuses
  <2>2. y.resources \in [Keys -> ResourceRows]
    BY <1>0, <1>1, <1>3
  <2> QED BY <1>0, <1>3, <1>4, <2>1, <2>2 DEF Databases
<1>7. CASE e \in Sessions
  BY <1>2, <1>3, <1>5, <1>6, <1>7, LockAssumption DEF row
<1>8. CASE e \notin Sessions
  <2>1. e \in MarkupLocks /\ RunOf[e] \in Runs /\ "Held" \in LockStatuses
    BY <1>8, LockAssumption DEF Acquisitions, LockStatuses
  <2>2. LockAcquired(d.runs[RunOf[e]]) \in RunProjections
    BY <1>0, <2>1, FoldType
  <2>3. /\ x \in Databases
        /\ x.resources = y.resources
        /\ x.waiters = y.waiters
        /\ x.locks = [y.locks EXCEPT ![e] = "Held"]
    BY <1>2, <1>6, <1>8, <2>1, <2>2, RecordFields
  <2> QED BY <1>0, <1>3, <1>5, <2>1, <2>3 DEF row
<1> QED BY <1>7, <1>8

(* Handing a free key to a waiter of its queue keeps the database          *)
(* consistent: the fresh token is above every token of the key.            *)
LEMMA HandToInv ==
  ASSUME NEW d, DbInv(d), NEW k \in Keys, NEW t \in Nat,
         NEW e \in Queue(d, k), d.resources[k].owner = NoOwner
  PROVE  DbInv(HandTo(d, k, e, t))
<1> DEFINE x == HandTo(d, k, e, t)
           token == d.resources[k].high + 1
<1>0. /\ d.resources \in [Keys -> ResourceRows]
      /\ d.waiters \in [Acquisitions -> WaiterRows]
      /\ d.locks \in [MarkupLocks -> LockStatuses]
      /\ d.runs \in [Runs -> RunProjections]
  BY DbFields
<1>1. /\ e \in Acquisitions
      /\ d.waiters[e].status = "waiting"
      /\ d.waiters[e].key = k
      /\ token \in Nat
      /\ t + Lease \in Nat
  BY <1>0, BoundAssumption DEF Queue, ResourceRows
<1>2. d \in Databases
  BY DEF DbInv
<1>3. /\ x \in Databases
      /\ x.resources = [d.resources EXCEPT ![k] =
           [high |-> token, owner |-> e, token |-> token,
            expires |-> t + Lease]]
      /\ x.waiters = [d.waiters EXCEPT ![e] =
           [status |-> "held", key |-> d.waiters[e].key,
            seq |-> d.waiters[e].seq, deadline |-> d.waiters[e].deadline,
            token |-> token]]
      /\ \A f \in MarkupLocks :
           x.locks[f] = IF f = e THEN "Held" ELSE d.locks[f]
  BY <1>1, <1>2, HandToFields
<1> HIDE DEF x
<1>4. \A f \in Acquisitions :
        /\ x.waiters[f].status = IF f = e THEN "held"
                                 ELSE d.waiters[f].status
        /\ x.waiters[f].key = d.waiters[f].key
        /\ x.waiters[f].seq = d.waiters[f].seq
        /\ x.waiters[f].token = IF f = e THEN token
                                ELSE d.waiters[f].token
  BY <1>0, <1>1, <1>3
<1>5. /\ x.resources \in [Keys -> ResourceRows]
      /\ \A j \in Keys :
           j # k => x.resources[j] = d.resources[j]
      /\ x.resources[k].owner = e
      /\ x.resources[k].high = token
      /\ x.resources[k].token = token
  BY <1>0, <1>1, <1>3 DEF Databases
<1>6. \A f \in MarkupLocks :
        x.locks[f] = IF f = e THEN "Held" ELSE d.locks[f]
  BY <1>3
<1>9. OwnersConsistent(x)
  <2>1. ASSUME NEW j \in Keys, j # k, x.resources[j].owner # NoOwner
        PROVE  /\ x.resources[j].owner \in Acquisitions
               /\ x.resources[j].owner # e
    <3>1. x.resources[j].owner \in Acquisitions
      BY <2>1, <1>5 DEF ResourceRows
    <3>2. d.waiters[d.resources[j].owner].status = "held"
      BY <2>1, <1>5 DEF DbInv, OwnersConsistent
    <3> QED BY <2>1, <3>1, <3>2, <1>1, <1>5
  <2>2. \A j \in Keys : x.resources[j].owner # NoOwner =>
          /\ x.waiters[x.resources[j].owner].status = "held"
          /\ x.waiters[x.resources[j].owner].key = j
          /\ x.waiters[x.resources[j].owner].token = x.resources[j].token
          /\ x.resources[j].token = x.resources[j].high
          /\ x.resources[j].owner \in MarkupLocks =>
               x.locks[x.resources[j].owner] = "Held"
    BY <2>1, <1>1, <1>4, <1>5, <1>6 DEF DbInv, OwnersConsistent
  <2>3. ASSUME NEW f \in Acquisitions, x.waiters[f].status = "held"
        PROVE  x.resources[x.waiters[f].key].owner = f
    <3>1. CASE f = e
      BY <3>1, <1>1, <1>4, <1>5
    <3>2. CASE f # e
      <4>1. d.waiters[f].status = "held"
        BY <2>3, <3>2, <1>4
      <4>2. d.resources[d.waiters[f].key].owner = f
        BY <4>1 DEF DbInv, OwnersConsistent
      <4>3. d.waiters[f].key \in Keys /\ d.waiters[f].key # k
        BY <4>2, <1>0, LockAssumption DEF WaiterRows
      <4> QED BY <4>2, <4>3, <1>4, <1>5
    <3> QED BY <3>1, <3>2
  <2>4. \A f \in MarkupLocks :
          /\ x.locks[f] = "Held" => x.waiters[f].status \in {"held", "lost"}
          /\ x.locks[f] = "Waiting" <=> x.waiters[f].status = "waiting"
    BY <1>4, <1>6 DEF DbInv, OwnersConsistent, Acquisitions
  <2> QED BY <2>2, <2>3, <2>4 DEF OwnersConsistent
<1>10. TokensConsistent(x)
  <2>1. \A f \in Acquisitions :
          /\ d.waiters[f].key \in Keys
          /\ d.waiters[f].token \in Nat
          /\ d.waiters[f].token <= d.resources[d.waiters[f].key].high
          /\ d.waiters[f].key = k => d.waiters[f].token < token
    BY <1>0 DEF WaiterRows, ResourceRows, DbInv, TokensConsistent
  <2>2. \A f \in Acquisitions :
          /\ x.waiters[f].token <= x.resources[x.waiters[f].key].high
          /\ x.waiters[f].status \in {"none", "waiting"} =>
               x.waiters[f].token = 0
    BY <2>1, <1>0, <1>1, <1>4, <1>5 DEF DbInv, TokensConsistent, ResourceRows
  <2>3. \A f, g \in Acquisitions :
          /\ f # g
          /\ x.waiters[f].key = x.waiters[g].key
          /\ x.waiters[f].token > 0
          => x.waiters[f].token # x.waiters[g].token
    BY <2>1, <1>1, <1>4 DEF DbInv, TokensConsistent
  <2> QED BY <2>2, <2>3 DEF TokensConsistent
<1>11. SequencesBounded(x)
  BY <1>4 DEF DbInv, SequencesBounded
<1>12. DbInv(x)
  BY <1>3, <1>9, <1>10, <1>11 DEF DbInv
<1> QED BY <1>12 DEF x

(* grant_oldest_lock_waiter keeps the database consistent. *)
LEMMA GrantInv ==
  ASSUME NEW d, DbInv(d), NEW k \in Keys, NEW t \in Nat
  PROVE  DbInv(Grant(d, k, t))
<1> DEFINE x == Expire(d, k, t)
<1>1. DbInv(x)
  BY ExpireInv
<1>2. CASE Grantable(x, k, t)
  <2>1. x \in Databases /\ x.resources[k].owner = NoOwner
    BY <1>1, <1>2 DEF DbInv, Grantable
  <2>2. Oldest(x, k, t) \in Queue(x, k)
    <3>1. Oldest(x, k, t) \in Eligible(x, k, t)
      BY <1>2, <2>1, OldestEligible DEF Grantable
    <3> QED BY <3>1 DEF Eligible
  <2> HIDE DEF x
  <2>3. DbInv(HandTo(x, k, Oldest(x, k, t), t))
    BY <1>1, <2>1, <2>2, HandToInv
  <2> QED BY <2>3, <1>2 DEF Grant, x
<1>3. CASE ~Grantable(x, k, t)
  BY <1>1, <1>3 DEF Grant
<1> QED BY <1>2, <1>3

(* The next sequence of a key is a natural number. *)
LEMMA MaxSequenceType ==
  ASSUME NEW d, DbInv(d), NEW k \in Keys
  PROVE  MaxSequence(d, k) \in Nat
<1>1. d.waiters \in [Acquisitions -> WaiterRows]
  BY DbFields
<1>2. PICK b \in Nat : \A e \in Acquisitions : d.waiters[e].seq <= b
  BY DEF DbInv, SequencesBounded
<1>3. /\ Sequences(d, k) \in SUBSET Nat
      /\ 0 \in Sequences(d, k)
      /\ \A m \in Sequences(d, k) : m <= b
  BY <1>1, <1>2 DEF Sequences, Registered, WaiterRows
<1>4. \E n \in Sequences(d, k) : \A m \in Sequences(d, k) : m <= n
  BY <1>3, GreatestNatural
<1>5. MaxSequence(d, k) \in Sequences(d, k)
  BY <1>4 DEF MaxSequence
<1> QED BY <1>3, <1>5

(* Enqueueing writes one waiter row. *)
LEMMA EnqueueFields ==
  ASSUME NEW d, DbInv(d), NEW e \in Acquisitions, NEW k \in Keys,
         NEW deadline \in Nat
  PROVE  /\ Enqueue(d, e, k, deadline) \in Databases
         /\ Enqueue(d, e, k, deadline).resources = d.resources
         /\ Enqueue(d, e, k, deadline).locks = d.locks
<1> DEFINE q == Enqueue(d, e, k, deadline)
<1>1. /\ q.resources = d.resources
      /\ q.waiters = [d.waiters EXCEPT ![e] =
           [status |-> "waiting", key |-> k, seq |-> MaxSequence(d, k) + 1,
            deadline |-> deadline, token |-> 0]]
      /\ q.locks = d.locks
      /\ q.runs = d.runs
      /\ q = [resources |-> q.resources, waiters |-> q.waiters,
              locks |-> q.locks, runs |-> q.runs]
  BY DEF Enqueue, DbInv, Databases
<1>2. MaxSequence(d, k) + 1 \in Nat
  BY MaxSequenceType
<1> SUFFICES q \in Databases
  BY <1>1
<1> HIDE DEF q
<1>3. q.waiters \in [Acquisitions -> WaiterRows]
  BY <1>1, <1>2, DbFields DEF WaiterRows, WaiterStatuses
<1> QED BY <1>1, <1>3, DbFields DEF Databases

(* x registers acquisition e in d.  For a markup lock the row and the      *)
(* lock_wait_registered event commit together.                             *)
Registers(d, x, e, k, deadline) ==
  /\ d.waiters[e].status = "none"
  /\ x.resources = d.resources
  /\ x.waiters = Enqueue(d, e, k, deadline).waiters
  /\ \A f \in MarkupLocks :
       x.locks[f] = IF f = e THEN "Waiting" ELSE d.locks[f]

(* Registering an acquisition keeps the database consistent. *)
LEMMA EnqueueInv ==
  ASSUME NEW d, DbInv(d), NEW x \in Databases, NEW e \in Acquisitions,
         NEW k \in Keys, NEW deadline \in Nat,
         Registers(d, x, e, k, deadline)
  PROVE  DbInv(x)
<1> USE DEF Registers
<1> DEFINE n == MaxSequence(d, k) + 1
<1>1. /\ d.resources \in [Keys -> ResourceRows]
      /\ d.waiters \in [Acquisitions -> WaiterRows]
      /\ n \in Nat
  BY DbFields, MaxSequenceType
<1>2. x.waiters = [d.waiters EXCEPT ![e] =
        [status |-> "waiting", key |-> k, seq |-> n,
         deadline |-> deadline, token |-> 0]]
  BY DEF Enqueue, DbInv, Databases
<1> HIDE DEF n
<1>3. /\ x.waiters[e].status = "waiting"
      /\ x.waiters[e].key = k
      /\ x.waiters[e].seq = n
      /\ x.waiters[e].token = 0
      /\ \A f \in Acquisitions \ {e} : x.waiters[f] = d.waiters[f]
  BY <1>1, <1>2
<1>4. OwnersConsistent(x)
  <2>1. \A j \in Keys : d.resources[j].owner # NoOwner =>
          d.resources[j].owner \in Acquisitions \ {e}
    BY <1>1 DEF DbInv, OwnersConsistent, ResourceRows
  <2>2. \A j \in Keys : x.resources[j].owner # NoOwner =>
          /\ x.waiters[x.resources[j].owner].status = "held"
          /\ x.waiters[x.resources[j].owner].key = j
          /\ x.waiters[x.resources[j].owner].token = x.resources[j].token
          /\ x.resources[j].token = x.resources[j].high
          /\ x.resources[j].owner \in MarkupLocks =>
               x.locks[x.resources[j].owner] = "Held"
    BY <2>1, <1>3 DEF DbInv, OwnersConsistent
  <2>3. \A f \in Acquisitions : x.waiters[f].status = "held" =>
          x.resources[x.waiters[f].key].owner = f
    BY <1>3 DEF DbInv, OwnersConsistent
  <2>4. \A f \in MarkupLocks :
          /\ x.locks[f] = "Held" => x.waiters[f].status \in {"held", "lost"}
          /\ x.locks[f] = "Waiting" <=> x.waiters[f].status = "waiting"
    BY <1>3 DEF DbInv, OwnersConsistent, Acquisitions
  <2> QED BY <2>2, <2>3, <2>4 DEF OwnersConsistent
<1>5. TokensConsistent(x)
  <2>1. \A f \in Acquisitions :
          /\ x.waiters[f].token <= x.resources[x.waiters[f].key].high
          /\ x.waiters[f].status \in {"none", "waiting"} =>
               x.waiters[f].token = 0
    BY <1>1, <1>3 DEF DbInv, TokensConsistent, ResourceRows
  <2>2. \A f, g \in Acquisitions :
          /\ f # g
          /\ x.waiters[f].key = x.waiters[g].key
          /\ x.waiters[f].token > 0
          => x.waiters[f].token # x.waiters[g].token
    BY <1>3 DEF DbInv, TokensConsistent
  <2> QED BY <2>1, <2>2 DEF TokensConsistent
<1>6. SequencesBounded(x)
  <2>1. PICK b \in Nat : \A f \in Acquisitions : d.waiters[f].seq <= b
    BY DEF DbInv, SequencesBounded
  <2>2. b + n \in Nat
    BY <1>1
  <2>3. \A f \in Acquisitions : d.waiters[f].seq \in Nat
    BY <1>1 DEF WaiterRows
  <2>4. \A f \in Acquisitions : x.waiters[f].seq <= b + n
    BY <2>1, <2>3, <1>1, <1>3
  <2> QED BY <2>2, <2>4 DEF SequencesBounded
<1> QED BY <1>4, <1>5, <1>6 DEF DbInv

(* A change of the run projections alone keeps the database consistent. *)
LEMMA RunsInv ==
  ASSUME NEW d, DbInv(d), NEW x \in Databases,
         x.resources = d.resources, x.waiters = d.waiters,
         x.locks = d.locks
  PROVE  DbInv(x)
BY DEF DbInv, OwnersConsistent, TokensConsistent, SequencesBounded

-----------------------------------------------------------------------------
(* What a grant does to tokens. *)

HighWaterGrows(d, x) ==
  \A k \in Keys : d.resources[k].high <= x.resources[k].high

(* A grant never lowers a high water, and changes neither the key nor the  *)
(* token of an acquisition that does not wait.                             *)
LEMMA GrantFrame ==
  ASSUME NEW d, DbInv(d), NEW k \in Keys, NEW t \in Nat
  PROVE  /\ HighWaterGrows(d, Grant(d, k, t))
         /\ \A f \in Acquisitions : d.waiters[f].status # "waiting" =>
              /\ Grant(d, k, t).waiters[f].token = d.waiters[f].token
              /\ Grant(d, k, t).waiters[f].status # "waiting"
         /\ \A f \in Acquisitions :
              Grant(d, k, t).waiters[f].key = d.waiters[f].key
<1> DEFINE x == Expire(d, k, t)
           e == d.resources[k].owner
<1>0. /\ d.resources \in [Keys -> ResourceRows]
      /\ d.waiters \in [Acquisitions -> WaiterRows]
      /\ \A j \in Keys : d.resources[j].high \in Nat
  BY DbFields DEF ResourceRows
<1>1. /\ \A j \in Keys : x.resources[j].high = d.resources[j].high
      /\ \A f \in Acquisitions :
           /\ x.waiters[f].token = d.waiters[f].token
           /\ x.waiters[f].key = d.waiters[f].key
           /\ d.waiters[f].status # "waiting" =>
                x.waiters[f].status # "waiting"
  <2>1. CASE ~OwnerExpired(d, k, t)
    BY <2>1 DEF Expire
  <2>2. CASE OwnerExpired(d, k, t)
    <3>1. e \in Acquisitions
      BY <2>2, <1>0 DEF OwnerExpired, ResourceRows
    <3>2. /\ e \in Acquisitions
          /\ x \in Databases
          /\ x.resources = Freed(d.resources, k)
          /\ x.waiters = WithStatus(d.waiters, e, "lost")
          /\ x.locks = IF e \in Sessions THEN d.locks
                       ELSE [d.locks EXCEPT ![e] = "LeaseLost"]
      BY <2>2, ExpireFields
    <3> HIDE DEF x, e
    <3>3. "lost" \in WaiterStatuses
      BY DEF WaiterStatuses
    <3>4. \A f \in Acquisitions :
            /\ x.waiters[f].token = d.waiters[f].token
            /\ x.waiters[f].key = d.waiters[f].key
            /\ x.waiters[f].status = IF f = e THEN "lost"
                                     ELSE d.waiters[f].status
      BY <1>0, <3>1, <3>2, <3>3, StatusUpdate
    <3>5. \A j \in Keys : x.resources[j].high = d.resources[j].high
      BY <1>0, <3>2 DEF Freed, FreeRow
    <3> QED BY <3>4, <3>5
  <2> QED BY <2>1, <2>2
<1>2. CASE ~Grantable(x, k, t)
  BY <1>0, <1>1, <1>2 DEF Grant, HighWaterGrows
<1>3. CASE Grantable(x, k, t)
  <2> DEFINE h == Oldest(x, k, t)
             y == Grant(d, k, t)
  <2>1. DbInv(x)
    BY ExpireInv
  <2>2. x.resources \in [Keys -> ResourceRows]
    BY <2>1, DbFields
  <2>3. x.waiters \in [Acquisitions -> WaiterRows]
    BY <2>1, DbFields
  <2>4. h \in Acquisitions /\ x.waiters[h].status = "waiting"
    <3>1. h \in Eligible(x, k, t)
      BY <1>3, <2>1, OldestEligible DEF Grantable, DbInv
    <3> QED BY <3>1 DEF Eligible, Queue
  <2>5. y = HandTo(x, k, h, t)
    BY <1>3 DEF Grant
  <2> HIDE DEF x, h, y
  <2>6. /\ y.resources = [x.resources EXCEPT ![k] =
              [high |-> x.resources[k].high + 1, owner |-> h,
               token |-> x.resources[k].high + 1, expires |-> t + Lease]]
        /\ y.waiters = [x.waiters EXCEPT ![h] =
              [status |-> "held", key |-> x.waiters[h].key,
               seq |-> x.waiters[h].seq, deadline |-> x.waiters[h].deadline,
               token |-> x.resources[k].high + 1]]
    BY <2>1, <2>4, <2>5, HandToFields DEF DbInv
  <2>7. \A j \in Keys : d.resources[j].high <= y.resources[j].high
    BY <1>0, <1>1, <2>2, <2>6
  <2>8. /\ y.waiters[h].key = x.waiters[h].key
        /\ y.waiters[h].status = "held"
        /\ \A f \in Acquisitions \ {h} : y.waiters[f] = x.waiters[f]
    BY <2>3, <2>4, <2>6
  <2>9. ASSUME NEW f \in Acquisitions, d.waiters[f].status # "waiting"
        PROVE  /\ y.waiters[f].token = d.waiters[f].token
               /\ y.waiters[f].status # "waiting"
    <3>1. f # h
      BY <2>9, <1>1, <2>4
    <3> QED BY <3>1, <2>8, <2>9, <1>1
  <2>10. \A f \in Acquisitions : y.waiters[f].key = d.waiters[f].key
    BY <1>1, <2>8
  <2> QED BY <2>7, <2>9, <2>10 DEF y, HighWaterGrows
<1> QED BY <1>2, <1>3

-----------------------------------------------------------------------------
(* Transactions. *)

(* Committing a consistent database whose high waters did not fall keeps   *)
(* the invariant.                                                          *)
LEMMA CommitInv ==
  ASSUME IInv, NEW d, DbInv(d), HighWaterGrows(Db, d), Commit(d),
         UNCHANGED <<admitted, now>>
  PROVE  IInv'
<1>1. Db' = [resources |-> d.resources, waiters |-> d.waiters,
             locks |-> d.locks, runs |-> d.runs]
  BY DEF Db, Commit
<1>2. DbInv(Db')
  BY <1>1, DbFields
<1>3. (DbInv(Db))'
  BY <1>2
<1>4. \A k \in Keys : resources[k].high \in Nat /\ d.resources[k].high \in Nat
  <2>1. d.resources \in [Keys -> ResourceRows]
    BY DbFields
  <2>2. DbInv(Db)
    BY DEF IInv
  <2>3. Db.resources \in [Keys -> ResourceRows]
    BY <2>2, DbFields
  <2>4. resources \in [Keys -> ResourceRows]
    BY <2>3 DEF Db
  <2> QED BY <2>1, <2>4 DEF ResourceRows
<1>5. \A k \in Keys : admitted'[k] <= resources'[k].high
  BY <1>4 DEF IInv, HighWaterGrows, Db, Commit
<1> QED BY <1>3, <1>5 DEF IInv

(* The same for a transaction that ends by granting the key. *)
LEMMA CommitGrantInv ==
  ASSUME IInv, NEW d, DbInv(d), HighWaterGrows(Db, d), NEW k \in Keys,
         CommitGrant(d, k), UNCHANGED <<admitted, now>>
  PROVE  IInv'
<1>1. now \in Nat
  BY BoundAssumption DEF IInv
<1>2. DbInv(Grant(d, k, now))
  BY <1>1, GrantInv
<1>3. HighWaterGrows(d, Grant(d, k, now))
  BY <1>1, GrantFrame
<1>4. HighWaterGrows(Db, Grant(d, k, now))
  <2>1. /\ Db.resources \in [Keys -> ResourceRows]
        /\ d.resources \in [Keys -> ResourceRows]
        /\ Grant(d, k, now).resources \in [Keys -> ResourceRows]
    BY <1>2, DbFields DEF IInv
  <2> QED BY <2>1, <1>3 DEF HighWaterGrows, ResourceRows
<1>5. Commit(Grant(d, k, now))
  BY DEF CommitGrant
<1> QED BY <1>2, <1>4, <1>5, CommitInv

(* What every action starts from. *)
LEMMA StateFacts ==
  ASSUME IInv
  PROVE  /\ DbInv(Db)
         /\ HighWaterGrows(Db, Db)
         /\ now \in Nat
         /\ resources \in [Keys -> ResourceRows]
         /\ waiters \in [Acquisitions -> WaiterRows]
         /\ locks \in [MarkupLocks -> LockStatuses]
         /\ runs \in [Runs -> RunProjections]
         /\ \A e \in Acquisitions : waiters[e].key \in Keys
         /\ \A e \in MarkupLocks : RunOf[e] \in Runs
<1>1. DbInv(Db)
  BY DEF IInv
<1>2. /\ Db.resources \in [Keys -> ResourceRows]
      /\ Db.waiters \in [Acquisitions -> WaiterRows]
      /\ Db.locks \in [MarkupLocks -> LockStatuses]
      /\ Db.runs \in [Runs -> RunProjections]
  BY <1>1, DbFields
<1>3. now \in Nat
  BY BoundAssumption DEF IInv
<1>4. /\ resources \in [Keys -> ResourceRows]
      /\ waiters \in [Acquisitions -> WaiterRows]
      /\ locks \in [MarkupLocks -> LockStatuses]
      /\ runs \in [Runs -> RunProjections]
  BY <1>2 DEF Db
<1>5. \A e \in Acquisitions : waiters[e].key \in Keys
  BY <1>4 DEF WaiterRows
<1>6. \A e \in MarkupLocks : RunOf[e] \in Runs
  BY LockAssumption DEF Acquisitions
<1>7. HighWaterGrows(Db, Db)
  BY <1>4 DEF HighWaterGrows, Db, ResourceRows
<1> QED BY <1>1, <1>3, <1>4, <1>5, <1>6, <1>7

-----------------------------------------------------------------------------
(* Settling transactions. *)

(* High waters that only grow compose. *)
LEMMA HighWaterTransitive ==
  ASSUME NEW c, DbInv(c), NEW d, DbInv(d), NEW x, DbInv(x),
         HighWaterGrows(c, d), HighWaterGrows(d, x)
  PROVE  HighWaterGrows(c, x)
<1>1. /\ c.resources \in [Keys -> ResourceRows]
      /\ d.resources \in [Keys -> ResourceRows]
      /\ x.resources \in [Keys -> ResourceRows]
  BY DbFields
<1> QED BY <1>1 DEF HighWaterGrows, ResourceRows

(* A settlement never lowers a high water. *)
LEMMA SettlesFrame ==
  ASSUME NEW d, DbInv(d), NEW x, NEW e, NEW st, Settles(d, x, e, st)
  PROVE  HighWaterGrows(d, x)
<1>1. d.resources \in [Keys -> ResourceRows]
  BY DbFields
<1> QED BY <1>1 DEF Settles, HighWaterGrows, ResourceRows

(* Settling a waiting session. *)
LEMMA SettleSessionInv ==
  ASSUME NEW d, DbInv(d), NEW s \in Sessions, NEW st \in SettledStatuses,
         d.waiters[s].status = "waiting"
  PROVE  DbInv(Settle(d, s, st)) /\ HighWaterGrows(d, Settle(d, s, st))
<1> DEFINE x == Settle(d, s, st)
<1>1. /\ d \in Databases
      /\ s \in Acquisitions /\ s \notin MarkupLocks
      /\ st \in WaiterStatuses
  BY LockAssumption DEF DbInv, Acquisitions, SettledStatuses, WaiterStatuses
<1>2. /\ x.resources = d.resources
      /\ x.waiters = WithStatus(d.waiters, s, st)
      /\ x.locks = d.locks
      /\ x \in Databases
  BY <1>1, SettleFields
<1> HIDE DEF x
<1>3. \A j \in Keys : d.resources[j].owner # s
  BY <1>1, LockAssumption DEF DbInv, OwnersConsistent
<1>4. Settles(d, x, s, st)
  BY <1>1, <1>2, <1>3 DEF Settles
<1>5. DbInv(x)
  BY <1>1, <1>2, <1>4, SettleInv
<1>6. HighWaterGrows(d, x)
  BY <1>4, SettlesFrame
<1> QED BY <1>5, <1>6 DEF x

(* Settling a waiting markup lock together with its history. *)
LEMMA SettleMarkupInv ==
  ASSUME NEW d, DbInv(d), NEW e \in MarkupLocks, NEW st \in SettledStatuses,
         d.waiters[e].status = "waiting",
         NEW ls \in LockStatuses \ {"Held", "Waiting"},
         NEW p \in RunProjections,
         NEW x, x = RecordLockEvent(Settle(d, e, st), e, ls, p)
  PROVE  DbInv(x) /\ HighWaterGrows(d, x)
<1> DEFINE v == Settle(d, e, st)
<1>1. /\ d \in Databases
      /\ e \in Acquisitions
      /\ st \in WaiterStatuses
      /\ d.locks \in [MarkupLocks -> LockStatuses]
  BY DbFields DEF DbInv, Acquisitions, SettledStatuses, WaiterStatuses
<1>2. /\ v.resources = d.resources
      /\ v.waiters = WithStatus(d.waiters, e, st)
      /\ v.locks = d.locks
      /\ v \in Databases
  BY <1>1, SettleFields
<1> HIDE DEF v
<1>3. x = RecordLockEvent(v, e, ls, p)
  BY DEF v
<1>4. /\ x.resources = d.resources
      /\ x.waiters = WithStatus(d.waiters, e, st)
      /\ x.locks = [d.locks EXCEPT ![e] = ls]
      /\ x \in Databases
  BY <1>2, <1>3, RecordFields
<1>5. \A j \in Keys : d.resources[j].owner # e
  BY <1>1, LockAssumption DEF DbInv, OwnersConsistent
<1>6. Settles(d, x, e, st)
  BY <1>1, <1>4, <1>5 DEF Settles
<1>7. DbInv(x)
  BY <1>1, <1>4, <1>6, SettleInv
<1> QED BY <1>6, <1>7, SettlesFrame

(* Releasing the lease of a key's owner frees that key and no other. *)
LEMMA OwnerVacates ==
  ASSUME NEW d, DbInv(d), NEW e \in Acquisitions, NEW k \in Keys,
         d.resources[k].owner = e
  PROVE  /\ Vacate(d, k, e, "released") \in Databases
         /\ Vacate(d, k, e, "released").locks = d.locks
         /\ Vacate(d, k, e, "released").waiters =
              WithStatus(d.waiters, e, "released")
         /\ d.waiters[e].status = "held"
         /\ \A j \in Keys :
              /\ Vacate(d, k, e, "released").resources[j].high =
                   d.resources[j].high
              /\ Vacate(d, k, e, "released").resources[j].owner =
                   IF d.resources[j].owner = e THEN NoOwner
                   ELSE d.resources[j].owner
              /\ d.resources[j].owner # e =>
                   Vacate(d, k, e, "released").resources[j].token =
                     d.resources[j].token
<1> DEFINE v == Vacate(d, k, e, "released")
<1>1. /\ d \in Databases
      /\ "released" \in WaiterStatuses
      /\ d.resources \in [Keys -> ResourceRows]
      /\ e # NoOwner
  BY LockAssumption, DbFields DEF DbInv, WaiterStatuses
<1>2. /\ d.waiters[e].status = "held"
      /\ \A j \in Keys : d.resources[j].owner = e <=> j = k
  BY <1>1 DEF DbInv, OwnersConsistent
<1>3. /\ v.resources = Freed(d.resources, k)
      /\ v.waiters = WithStatus(d.waiters, e, "released")
      /\ v.locks = d.locks
      /\ v \in Databases
  BY <1>1, VacateFields
<1> HIDE DEF v
<1>4. \A j \in Keys :
        /\ v.resources[j].owner = IF j = k THEN NoOwner
                                  ELSE d.resources[j].owner
        /\ v.resources[j].high = d.resources[j].high
        /\ j # k => v.resources[j].token = d.resources[j].token
  BY <1>1, <1>3 DEF Freed, FreeRow, ResourceRows
<1>5. \A j \in Keys :
        /\ v.resources[j].high = d.resources[j].high
        /\ v.resources[j].owner = IF d.resources[j].owner = e THEN NoOwner
                                  ELSE d.resources[j].owner
        /\ d.resources[j].owner # e =>
             v.resources[j].token = d.resources[j].token
  BY <1>2, <1>4
<1> QED BY <1>2, <1>3, <1>5 DEF v

(* Releasing a session's lease. *)
LEMMA VacateSessionInv ==
  ASSUME NEW d, DbInv(d), NEW s \in Sessions, NEW k \in Keys,
         d.resources[k].owner = s
  PROVE  /\ DbInv(Vacate(d, k, s, "released"))
         /\ HighWaterGrows(d, Vacate(d, k, s, "released"))
<1> DEFINE x == Vacate(d, k, s, "released")
<1>1. s \in Acquisitions /\ s \notin MarkupLocks /\ "released" \in SettledStatuses
  BY LockAssumption DEF Acquisitions, SettledStatuses
<1>2. x \in Databases /\ Settles(d, x, s, "released")
  BY <1>1, OwnerVacates DEF Settles
<1> HIDE DEF x
<1>3. DbInv(x)
  BY <1>1, <1>2, SettleInv
<1>4. HighWaterGrows(d, x)
  BY <1>2, SettlesFrame
<1> QED BY <1>3, <1>4 DEF x

(* Releasing a markup lock together with its history. *)
LEMMA VacateMarkupInv ==
  ASSUME NEW d, DbInv(d), NEW e \in MarkupLocks, NEW k \in Keys,
         d.resources[k].owner = e, NEW p \in RunProjections
  PROVE  LET x == RecordLockEvent(Vacate(d, k, e, "released"), e, "Released", p)
         IN  DbInv(x) /\ HighWaterGrows(d, x)
<1> DEFINE v == Vacate(d, k, e, "released")
<1>1. /\ e \in Acquisitions
      /\ "released" \in SettledStatuses
      /\ "Released" \in LockStatuses
      /\ d.locks \in [MarkupLocks -> LockStatuses]
  BY DbFields DEF Acquisitions, SettledStatuses, LockStatuses
<1>2. /\ v \in Databases
      /\ v.locks = d.locks
      /\ v.waiters = WithStatus(d.waiters, e, "released")
      /\ d.waiters[e].status = "held"
      /\ \A j \in Keys :
           /\ v.resources[j].high = d.resources[j].high
           /\ v.resources[j].owner = IF d.resources[j].owner = e THEN NoOwner
                                     ELSE d.resources[j].owner
           /\ d.resources[j].owner # e =>
                v.resources[j].token = d.resources[j].token
  BY <1>1, OwnerVacates
<1> HIDE DEF v
<1> DEFINE x == RecordLockEvent(v, e, "Released", p)
<1>3. /\ x.resources = v.resources
      /\ x.waiters = v.waiters
      /\ x.locks = [v.locks EXCEPT ![e] = "Released"]
      /\ x \in Databases
  BY <1>1, <1>2, RecordFields
<1> HIDE DEF x
<1>4. Settles(d, x, e, "released")
  BY <1>1, <1>2, <1>3 DEF Settles
<1>5. DbInv(x)
  BY <1>1, <1>3, <1>4, SettleInv
<1>6. HighWaterGrows(d, x)
  BY <1>4, SettlesFrame
<1> QED BY <1>5, <1>6 DEF x, v

(* programmatic_lock_state keeps the database consistent. *)
LEMMA PolledInv ==
  ASSUME NEW d, DbInv(d), NEW s \in Sessions, NEW t \in Nat
  PROVE  DbInv(Polled(d, s, t)) /\ HighWaterGrows(d, Polled(d, s, t))
<1> DEFINE k == d.waiters[s].key
           x == Grant(d, k, t)
           y == Settle(x, s, "timed_out")
<1>1. k \in Keys
  BY DbFields DEF WaiterRows, Acquisitions
<1>2. Polled(d, s, t) = IF Overdue(x, s, t) THEN Grant(y, k, t) ELSE x
  BY DEF Polled
<1> HIDE DEF k
<1>3. DbInv(x) /\ HighWaterGrows(d, x)
  BY <1>1, GrantInv, GrantFrame
<1>4. CASE ~Overdue(x, s, t)
  BY <1>2, <1>3, <1>4
<1>5. CASE Overdue(x, s, t)
  <2>1. x.waiters[s].status = "waiting" /\ "timed_out" \in SettledStatuses
    BY <1>5 DEF Overdue, SettledStatuses
  <2> HIDE DEF x
  <2>2. DbInv(y) /\ HighWaterGrows(x, y)
    BY <1>3, <2>1, SettleSessionInv
  <2> HIDE DEF y
  <2>3. DbInv(Grant(y, k, t)) /\ HighWaterGrows(y, Grant(y, k, t))
    BY <1>1, <2>2, GrantInv, GrantFrame
  <2>4. HighWaterGrows(d, y)
    BY <1>3, <2>2, HighWaterTransitive
  <2>5. HighWaterGrows(d, Grant(y, k, t))
    BY <2>2, <2>3, <2>4, HighWaterTransitive
  <2> QED BY <1>2, <1>5, <2>3, <2>5
<1> QED BY <1>4, <1>5

-----------------------------------------------------------------------------
(* The actions keep the invariant. *)

(* A transaction that only drives the queue of a key. *)
LEMMA DriveInv ==
  ASSUME IInv, NEW k \in Keys, CommitGrant(Db, k), UNCHANGED <<admitted, now>>
  PROVE  IInv'
BY StateFacts, CommitGrantInv

(* A renewal changes an expiry and nothing else. *)
LEMMA ExtendInv ==
  ASSUME IInv, NEW k \in Keys, Commit(Extend(Db, k)), UNCHANGED <<admitted, now>>
  PROVE  IInv'
<1> DEFINE x == Extend(Db, k)
           n == Larger(now + Lease, resources[k].expires)
<1>1. n \in Nat
  BY StateFacts, BoundAssumption DEF ResourceRows, Larger
<1>2. /\ x.resources = [resources EXCEPT ![k].expires = n]
      /\ x.waiters = waiters
      /\ x.locks = locks
      /\ x.runs = runs
      /\ x = [resources |-> x.resources, waiters |-> x.waiters,
              locks |-> x.locks, runs |-> x.runs]
  BY DEF Extend, Db
<1> HIDE DEF n
<1>3. /\ x.resources \in [Keys -> ResourceRows]
      /\ \A j \in Keys :
           /\ x.resources[j].high = resources[j].high
           /\ x.resources[j].owner = resources[j].owner
           /\ x.resources[j].token = resources[j].token
  <2> HIDE DEF x
  <2>1. [resources[k] EXCEPT !.expires = n] =
        [high |-> resources[k].high, owner |-> resources[k].owner,
         token |-> resources[k].token, expires |-> n]
    BY StateFacts DEF ResourceRows
  <2>2. x.resources = [resources EXCEPT ![k] =
          [high |-> resources[k].high, owner |-> resources[k].owner,
           token |-> resources[k].token, expires |-> n]]
    BY <1>2, <2>1
  <2> QED BY <1>1, <2>2, StateFacts DEF ResourceRows
<1> HIDE DEF x
<1>4. x \in Databases
  BY <1>2, <1>3, StateFacts DEF Databases
<1>5. DbInv(x)
  <2>1. DbInv(Db)
    BY StateFacts
  <2>2. OwnersConsistent(x)
    BY <1>2, <1>3, <2>1, StateFacts DEF DbInv, OwnersConsistent, Db
  <2>3. TokensConsistent(x)
    BY <1>2, <1>3, <2>1, StateFacts DEF DbInv, TokensConsistent, Db
  <2>4. SequencesBounded(x)
    BY <1>2, <2>1 DEF DbInv, SequencesBounded, Db
  <2> QED BY <1>4, <2>2, <2>3, <2>4 DEF DbInv
<1>6. HighWaterGrows(Db, x)
  BY <1>3, StateFacts DEF HighWaterGrows, Db, ResourceRows
<1>7. Commit(x)
  BY DEF x
<1> QED BY <1>5, <1>6, <1>7, CommitInv

(* Renewals of either kind. *)
LEMMA RenewInv ==
  ASSUME IInv, NEW e \in Acquisitions,
         RenewLockLease(e) \/ RenewProgrammaticLock(e)
  PROVE  IInv'
<1>1. waiters[e].key \in Keys
  BY StateFacts
<1>2. /\ UNCHANGED <<admitted, now>>
      /\ CommitGrant(Db, waiters[e].key) \/ Commit(Extend(Db, waiters[e].key))
  BY DEF RenewLockLease, RenewProgrammaticLock
<1> QED BY <1>1, <1>2, DriveInv, ExtendInv

(* Releasing a markup lock. *)
LEMMA ReleaseLockInv ==
  ASSUME IInv, NEW e \in Acquisitions, ReleaseLock(e)
  PROVE  IInv'
<1> DEFINE k == waiters[e].key
           x == Grant(Db, k, now)
           p == LockReleased(x.runs[RunOf[e]])
           y == RecordLockEvent(Vacate(x, k, e, "released"), e, "Released", p)
<1>1. /\ e \in MarkupLocks
      /\ Commit(x) \/ (OwnsRow(x, e) /\ CommitGrant(y, k))
      /\ UNCHANGED <<admitted, now>>
  BY DEF ReleaseLock
<1>2. k \in Keys /\ DbInv(Db) /\ now \in Nat
  BY StateFacts
<1>3. x.waiters[e].key = k
  BY <1>2, GrantFrame DEF Db
<1> HIDE DEF k
<1>4. DbInv(x) /\ HighWaterGrows(Db, x)
  BY <1>2, GrantInv, GrantFrame
<1>5. CASE Commit(x)
  BY <1>1, <1>4, <1>5, CommitInv
<1>6. CASE OwnsRow(x, e) /\ CommitGrant(y, k)
  <2>1. x.resources[k].owner = e
    BY <1>3, <1>6 DEF OwnsRow
  <2>2. x.runs \in [Runs -> RunProjections]
    BY <1>4, DbFields
  <2> HIDE DEF x
  <2>3. p \in RunProjections
    BY <1>1, <2>2, FoldType, StateFacts
  <2> HIDE DEF p
  <2>4. DbInv(y) /\ HighWaterGrows(x, y)
    BY <1>1, <1>2, <1>4, <2>1, <2>3, VacateMarkupInv
  <2> HIDE DEF y
  <2>5. HighWaterGrows(Db, y)
    BY <1>2, <1>4, <2>4, HighWaterTransitive
  <2> QED BY <1>1, <1>2, <1>6, <2>4, <2>5, CommitGrantInv
<1> QED BY <1>1, <1>5, <1>6

(* Releasing a session's lease. *)
LEMMA ReleaseProgrammaticInv ==
  ASSUME IInv, NEW s \in Acquisitions, ReleaseProgrammaticLock(s)
  PROVE  IInv'
<1> DEFINE k == waiters[s].key
           x == Grant(Db, k, now)
           y == Vacate(x, k, s, "released")
<1>1. /\ s \in Sessions
      /\ Commit(x) \/ (x.resources[k].owner = s /\ CommitGrant(y, k))
      /\ UNCHANGED <<admitted, now>>
  BY DEF ReleaseProgrammaticLock
<1>2. k \in Keys /\ DbInv(Db) /\ now \in Nat
  BY StateFacts
<1> HIDE DEF k
<1>3. DbInv(x) /\ HighWaterGrows(Db, x)
  BY <1>2, GrantInv, GrantFrame
<1> HIDE DEF x
<1>4. CASE Commit(x)
  BY <1>1, <1>3, <1>4, CommitInv
<1>5. CASE x.resources[k].owner = s /\ CommitGrant(y, k)
  <2>1. DbInv(y) /\ HighWaterGrows(x, y)
    BY <1>1, <1>2, <1>3, <1>5, VacateSessionInv
  <2> HIDE DEF y
  <2>2. HighWaterGrows(Db, y)
    BY <1>2, <1>3, <2>1, HighWaterTransitive
  <2> QED BY <1>1, <1>2, <1>5, <2>1, <2>2, CommitGrantInv
<1> QED BY <1>1, <1>4, <1>5

(* Deadlines and cancellations of waiting acquisitions. *)
LEMMA SettlementInv ==
  ASSUME IInv, NEW e \in Acquisitions,
         \/ TimeoutLockWaiter(e)
         \/ CancelLockWaiter(e)
         \/ CancelProgrammaticWaiter(e)
  PROVE  IInv'
<1> DEFINE k == waiters[e].key
           p == LockAcquireTimedOut(runs[RunOf[e]])
           q == LockAcquisitionCancelled(runs[RunOf[e]])
           x == RecordLockEvent(Settle(Db, e, "timed_out"), e,
                                "AcquireTimedOut", p)
           y == RecordLockEvent(Settle(Db, e, "cancelled"), e,
                                "AcquisitionCancelled", q)
           z == Settle(Db, e, "cancelled")
<1>1. /\ UNCHANGED <<admitted, now>>
      /\ waiters[e].status = "waiting"
      /\ \/ e \in MarkupLocks /\ CommitGrant(x, k)
         \/ e \in MarkupLocks /\ CommitGrant(y, k)
         \/ e \in Sessions /\ CommitGrant(z, k)
  BY DEF TimeoutLockWaiter, CancelLockWaiter, CancelProgrammaticWaiter
<1>2. /\ k \in Keys
      /\ DbInv(Db)
      /\ Db.waiters[e].status = "waiting"
  BY <1>1, StateFacts DEF Db
<1>3. /\ "timed_out" \in SettledStatuses
      /\ "cancelled" \in SettledStatuses
      /\ "AcquireTimedOut" \in LockStatuses \ {"Held", "Waiting"}
      /\ "AcquisitionCancelled" \in LockStatuses \ {"Held", "Waiting"}
  BY DEF SettledStatuses, LockStatuses
<1>4. e \in MarkupLocks => p \in RunProjections /\ q \in RunProjections
  BY StateFacts, FoldType
<1> HIDE DEF k, p, q
<1>5. CASE e \in MarkupLocks /\ CommitGrant(x, k)
  <2>1. DbInv(x) /\ HighWaterGrows(Db, x)
    BY <1>2, <1>3, <1>4, <1>5, SettleMarkupInv
  <2> HIDE DEF x
  <2> QED BY <1>1, <1>2, <1>5, <2>1, CommitGrantInv
<1>6. CASE e \in MarkupLocks /\ CommitGrant(y, k)
  <2>1. DbInv(y) /\ HighWaterGrows(Db, y)
    BY <1>2, <1>3, <1>4, <1>6, SettleMarkupInv
  <2> HIDE DEF y
  <2> QED BY <1>1, <1>2, <1>6, <2>1, CommitGrantInv
<1>7. CASE e \in Sessions /\ CommitGrant(z, k)
  <2>1. DbInv(z) /\ HighWaterGrows(Db, z)
    BY <1>2, <1>3, <1>7, SettleSessionInv
  <2> HIDE DEF z
  <2> QED BY <1>1, <1>2, <1>7, <2>1, CommitGrantInv
<1> QED BY <1>1, <1>5, <1>6, <1>7

(* The poll of a waiting session. *)
LEMMA PollInv ==
  ASSUME IInv, NEW s \in Acquisitions, PollProgrammaticLock(s)
  PROVE  IInv'
<1>1. DbInv(Polled(Db, s, now)) /\ HighWaterGrows(Db, Polled(Db, s, now))
  BY StateFacts, PolledInv DEF PollProgrammaticLock
<1> QED BY <1>1, CommitInv DEF PollProgrammaticLock

(* Admitting an effect under the exact live lease: its token is the high   *)
(* water of the key.                                                       *)
LEMMA AdmitInv ==
  ASSUME IInv, NEW x, DbInv(x), HighWaterGrows(Db, x), Commit(x),
         NEW e \in Acquisitions, x.waiters[e].status = "held",
         NEW k \in Keys, k = x.waiters[e].key,
         admitted' = [admitted EXCEPT ![k] = x.waiters[e].token],
         UNCHANGED now
  PROVE  /\ IInv'
         /\ \A j \in Keys : admitted'[j] >= admitted[j]
<1>1. Db' = [resources |-> x.resources, waiters |-> x.waiters,
             locks |-> x.locks, runs |-> x.runs]
  BY DEF Db, Commit
<1>2. DbInv(Db')
  BY <1>1, DbFields
<1>3. (DbInv(Db))'
  BY <1>2
<1>4. /\ x.resources \in [Keys -> ResourceRows]
      /\ resources \in [Keys -> ResourceRows]
  BY DbFields, StateFacts
<1>5. x.waiters[e].token = x.resources[k].high
  <2>1. x.resources[k].owner = e
    BY DEF DbInv, OwnersConsistent
  <2>2. e # NoOwner
    BY LockAssumption
  <2> QED BY <2>1, <2>2 DEF DbInv, OwnersConsistent
<1>6. \A j \in Keys :
        /\ resources[j].high \in Nat
        /\ x.resources[j].high \in Nat
        /\ resources[j].high <= x.resources[j].high
        /\ admitted[j] \in Nat
        /\ admitted[j] <= resources[j].high
  BY <1>4 DEF IInv, HighWaterGrows, Db, ResourceRows
<1>7. /\ admitted' \in [Keys -> Nat]
      /\ \A j \in Keys : admitted'[j] <= x.resources[j].high
      /\ \A j \in Keys : admitted'[j] >= admitted[j]
  BY <1>5, <1>6 DEF IInv
<1>8. resources' = x.resources /\ now' \in 0..MaxTime
  BY DEF Commit, IInv
<1> QED BY <1>3, <1>7, <1>8 DEF IInv

(* Effects of markup locks. *)
LEMMA AdmitManagedEffectInv ==
  ASSUME IInv, NEW e \in Acquisitions, AdmitManagedEffect(e)
  PROVE  /\ IInv'
         /\ \A j \in Keys : admitted'[j] >= admitted[j]
<1> DEFINE k == waiters[e].key
<1>1. /\ k \in Keys
      /\ DbInv(Db)
      /\ HighWaterGrows(Db, Db)
      /\ \A j \in Keys : admitted[j] \in Nat
      /\ UNCHANGED now
  BY StateFacts DEF AdmitManagedEffect, IInv
<1>2. CASE CommitGrant(Db, k) /\ UNCHANGED admitted
  <2>1. IInv'
    BY <1>1, <1>2, DriveInv
  <2> QED BY <1>1, <1>2, <2>1
<1>3. CASE /\ OwnsRow(Db, e)
           /\ admitted' = [admitted EXCEPT ![k] = waiters[e].token]
           /\ UNCHANGED <<resources, waiters, locks, runs>>
  <2>1. Commit(Db)
    BY <1>3 DEF Commit, Db
  <2>2. Db.resources[k].owner = e
    BY <1>3 DEF OwnsRow, Db
  <2>3. Db.waiters[e].status = "held"
    BY <1>1, <2>2, LockAssumption DEF DbInv, OwnersConsistent
  <2>4. /\ k = Db.waiters[e].key
        /\ admitted' = [admitted EXCEPT ![k] = Db.waiters[e].token]
    BY <1>3 DEF Db
  <2> HIDE DEF k
  <2> QED BY <1>1, <2>1, <2>3, <2>4, AdmitInv
<1> QED BY <1>2, <1>3 DEF AdmitManagedEffect

(* Effects of sessions: a session that was granted does not wait, so the   *)
(* poll neither times it out nor grants it anew.                           *)
LEMMA AdmitSessionEffectInv ==
  ASSUME IInv, NEW s \in Acquisitions, AdmitSessionEffect(s)
  PROVE  /\ IInv'
         /\ \A j \in Keys : admitted'[j] >= admitted[j]
<1> DEFINE k == waiters[s].key
           x == Polled(Db, s, now)
<1>1. /\ k \in Keys
      /\ DbInv(Db)
      /\ now \in Nat
      /\ \A j \in Keys : admitted[j] \in Nat
      /\ UNCHANGED now
      /\ Commit(x)
      /\ waiters[s].token > 0
      /\ s \in Sessions
  BY StateFacts DEF AdmitSessionEffect, IInv
<1>2. DbInv(x) /\ HighWaterGrows(Db, x)
  BY <1>1, PolledInv
<1>3. x.waiters[s].key = k /\ x.waiters[s].token = waiters[s].token
  <2>1. Db.waiters[s].status # "waiting"
    BY <1>1 DEF DbInv, TokensConsistent, Db
  <2>2. /\ Grant(Db, k, now).waiters[s].token = waiters[s].token
        /\ Grant(Db, k, now).waiters[s].status # "waiting"
        /\ Grant(Db, k, now).waiters[s].key = k
    <3>1. /\ Grant(Db, k, now).waiters[s].token = Db.waiters[s].token
          /\ Grant(Db, k, now).waiters[s].status # "waiting"
          /\ Grant(Db, k, now).waiters[s].key = Db.waiters[s].key
      BY <1>1, <2>1, GrantFrame
    <3> QED BY <3>1 DEF Db
  <2>3. k = Db.waiters[s].key
    BY DEF Db
  <2>4. x = Grant(Db, k, now)
    BY <2>2, <2>3 DEF Polled, Overdue
  <2> QED BY <2>2, <2>4
<1> HIDE DEF k, x
<1>4. CASE x.waiters[s].status # "held"
  <2>1. UNCHANGED admitted
    BY <1>4 DEF AdmitSessionEffect, x
  <2>2. IInv'
    BY <1>1, <1>2, <2>1, CommitInv
  <2> QED BY <1>1, <2>1, <2>2
<1>5. CASE x.waiters[s].status = "held"
  <2>1. /\ k = x.waiters[s].key
        /\ admitted' = [admitted EXCEPT ![k] = x.waiters[s].token]
    BY <1>3, <1>5 DEF AdmitSessionEffect, x, k
  <2> QED BY <1>1, <1>2, <1>5, <2>1, AdmitInv
<1> QED BY <1>4, <1>5

(* The invariant reads the run projections only for their types. *)
LEMMA SetRunInv ==
  ASSUME IInv, NEW r \in Runs, NEW p \in RunProjections, SetRun(r, p)
  PROVE  IInv'
<1> DEFINE x == [resources |-> resources, waiters |-> waiters,
                 locks |-> locks, runs |-> [runs EXCEPT ![r] = p]]
<1>1. x \in Databases
  BY StateFacts DEF Databases
<1>2. DbInv(x)
  BY <1>1, RunsInv, StateFacts DEF Db
<1>3. HighWaterGrows(Db, x)
  BY StateFacts DEF HighWaterGrows, Db
<1>4. Commit(x) /\ UNCHANGED <<admitted, now>>
  BY DEF Commit, SetRun
<1> QED BY <1>2, <1>3, <1>4, CommitInv

(* Run control. *)
LEMMA RunStepInv ==
  ASSUME IInv, NEW r \in Runs, RunStep(r)
  PROVE  IInv'
<1>1. /\ runs[r] \in RunProjections
      /\ {"Succeeded", "Failed", "Cancelled"} = BusinessOutcomes
  BY StateFacts DEF BusinessOutcomes
<1>2. RunTimeoutReached(runs[r]) \in RunProjections
  BY <1>1, FoldType
<1>3. \E p \in RunProjections : SetRun(r, p)
  <2>1. CASE RequestRunCancellation(r)
    BY <2>1, <1>1, FoldType DEF RequestRunCancellation
  <2>2. CASE SettleRunTimeout(r)
    <3>1. RunOutcomeDecided(RunTimeoutReached(runs[r]), "Failed")
            \in RunProjections
      BY <1>1, <1>2, FoldType
    <3> QED BY <2>2, <3>1 DEF SettleRunTimeout
  <2>3. CASE DecideRunSucceeded(r)
    BY <2>3, <1>1, FoldType DEF DecideRunSucceeded
  <2>4. CASE DecideRunFailed(r)
    BY <2>4, <1>1, FoldType DEF DecideRunFailed
  <2>5. CASE DecideRunCancelled(r)
    BY <2>5, <1>1, FoldType DEF DecideRunCancelled
  <2>6. CASE FinalizeRun(r)
    BY <2>6, <1>1, FoldType DEF FinalizeRun
  <2> QED BY <2>1, <2>2, <2>3, <2>4, <2>5, <2>6 DEF RunStep
<1> QED BY <1>3, SetRunInv

(* A restored copy has no owner and no held row; nothing else changes. *)
LEMMA RestoredFields ==
  ASSUME NEW d, DbInv(d), NEW x, x = Restored(d)
  PROVE  /\ x \in Databases
         /\ x.locks = d.locks
         /\ \A k \in Keys :
              x.resources[k].high = d.resources[k].high
              /\ x.resources[k].owner = NoOwner
         /\ \A e \in Acquisitions :
              /\ x.waiters[e].status = IF d.waiters[e].status = "held"
                                       THEN "lost" ELSE d.waiters[e].status
              /\ x.waiters[e].key = d.waiters[e].key
              /\ x.waiters[e].seq = d.waiters[e].seq
              /\ x.waiters[e].deadline = d.waiters[e].deadline
              /\ x.waiters[e].token = d.waiters[e].token
<1> DEFINE R == [k \in Keys |->
             IF d.resources[k].owner = NoOwner THEN d.resources[k]
             ELSE FreeRow(d.resources[k])]
           W == [e \in Acquisitions |->
             IF d.waiters[e].status = "held"
             THEN [d.waiters[e] EXCEPT !.status = "lost"] ELSE d.waiters[e]]
<1>0. /\ d.resources \in [Keys -> ResourceRows]
      /\ d.waiters \in [Acquisitions -> WaiterRows]
      /\ d.locks \in [MarkupLocks -> LockStatuses]
      /\ d.runs \in [Runs -> RunProjections]
      /\ d = [resources |-> d.resources, waiters |-> d.waiters,
              locks |-> d.locks, runs |-> d.runs]
  BY DbFields
<1>1. /\ R \in [Keys -> ResourceRows]
      /\ \A k \in Keys :
           R[k].high = d.resources[k].high /\ R[k].owner = NoOwner
  BY <1>0 DEF ResourceRows, FreeRow
<1>2. ASSUME NEW e \in Acquisitions
      PROVE  /\ W[e] \in WaiterRows
             /\ W[e].status = IF d.waiters[e].status = "held" THEN "lost"
                              ELSE d.waiters[e].status
             /\ W[e].key = d.waiters[e].key
             /\ W[e].seq = d.waiters[e].seq
             /\ W[e].deadline = d.waiters[e].deadline
             /\ W[e].token = d.waiters[e].token
  <2>1. d.waiters[e] \in WaiterRows
    BY <1>0
  <2> QED BY <2>1 DEF WaiterRows, WaiterStatuses
<1>3. W \in [Acquisitions -> WaiterRows]
  BY <1>2
<1>4. x = [d EXCEPT !.resources = R, !.waiters = W]
  BY DEF Restored
<1> HIDE DEF R, W
<1>5. x = [resources |-> R, waiters |-> W, locks |-> d.locks, runs |-> d.runs]
  <2>1. x = [[resources |-> d.resources, waiters |-> d.waiters,
              locks |-> d.locks, runs |-> d.runs]
             EXCEPT !.resources = R, !.waiters = W]
    BY <1>0, <1>4, Zenon
  <2> QED BY <2>1
<1>6. x.resources = R /\ x.waiters = W /\ x.locks = d.locks
  BY <1>5
<1>7. x \in Databases
  BY <1>0, <1>1, <1>3, <1>5 DEF Databases
<1> QED BY <1>1, <1>2, <1>6, <1>7

(* Restoring keeps a consistent database consistent. *)
LEMMA RestoredInv ==
  ASSUME NEW d, DbInv(d)
  PROVE  DbInv(Restored(d))
<1>0. PICK x : x = Restored(d)
  OBVIOUS
<1>1. /\ x \in Databases
      /\ x.locks = d.locks
      /\ \A k \in Keys :
           x.resources[k].high = d.resources[k].high
           /\ x.resources[k].owner = NoOwner
      /\ \A e \in Acquisitions :
           /\ x.waiters[e].status = IF d.waiters[e].status = "held"
                                    THEN "lost" ELSE d.waiters[e].status
           /\ x.waiters[e].key = d.waiters[e].key
           /\ x.waiters[e].seq = d.waiters[e].seq
           /\ x.waiters[e].token = d.waiters[e].token
  BY <1>0, RestoredFields
<1>2. \A e \in Acquisitions : d.waiters[e].key \in Keys
  BY DbFields DEF WaiterRows
<1>3. OwnersConsistent(x)
  <2>1. \A e \in Acquisitions : x.waiters[e].status # "held"
    BY <1>1
  <2>2. \A f \in MarkupLocks :
          /\ x.locks[f] = "Held" => x.waiters[f].status \in {"held", "lost"}
          /\ x.locks[f] = "Waiting" <=> x.waiters[f].status = "waiting"
    BY <1>1 DEF DbInv, OwnersConsistent, Acquisitions
  <2> QED BY <1>1, <2>1, <2>2 DEF OwnersConsistent
<1>4. TokensConsistent(x)
  <2>1. \A e \in Acquisitions :
          x.waiters[e].status \in {"none", "waiting"} =>
            d.waiters[e].status \in {"none", "waiting"}
    BY <1>1
  <2> QED BY <1>1, <1>2, <2>1 DEF DbInv, TokensConsistent
<1>5. SequencesBounded(x)
  BY <1>1 DEF DbInv, SequencesBounded
<1> QED BY <1>0, <1>1, <1>3, <1>4, <1>5 DEF DbInv

(* Committing a consistent database makes it the store. *)
LEMMA CommitStore ==
  ASSUME NEW x, DbInv(x), Commit(x)
  PROVE  Db' = x
BY DbFields DEF Commit, Db

(* The restored store satisfies the invariant the backup satisfied. *)
LEMMA RestoreBackupInv ==
  ASSUME IInv, HistoryInv, RestoreBackup
  PROVE  IInv' /\ HistoryInv'
<1>1. /\ DbInv(backup)
      /\ Commit(Restored(backup))
      /\ admitted' = [k \in Keys |-> 0]
      /\ now' = now /\ backup' = backup /\ told' = told
  BY DEF HistoryInv, RestoreBackup
<1>2. DbInv(Db')
  BY <1>1, RestoredInv, CommitStore
<1>3. (DbInv(Db))'
  BY <1>2
<1>4. \A k \in Keys : resources'[k].high \in Nat
  <2>1. Db'.resources = resources'
    BY DEF Db
  <2> QED BY <1>2, <2>1, DbFields DEF ResourceRows
<1>5. IInv'
  BY <1>1, <1>3, <1>4 DEF IInv
<1>6. /\ restores' \in 0..MaxRestores
      /\ forgotten' \in [Keys -> SUBSET Nat]
  <2>1. restores' = restores + 1 /\ restores < MaxRestores
    BY DEF RestoreBackup
  <2>2. ASSUME NEW k \in Keys
        PROVE  (backup.resources[k].high + 1)..resources[k].high \in SUBSET Nat
    BY <1>1, DbFields, StateFacts DEF ResourceRows
  <2>3. forgotten' = [k \in Keys |-> forgotten[k] \cup
          (backup.resources[k].high + 1)..resources[k].high]
    BY DEF RestoreBackup
  <2> QED BY <2>1, <2>2, <2>3, BoundAssumption DEF HistoryInv
<1> QED BY <1>1, <1>5, <1>6 DEF HistoryInv

(* The clock. *)
LEMMA ClockInv ==
  ASSUME IInv, Tick \/ ClockRollback
  PROVE  IInv'
<1>1. /\ UNCHANGED <<resources, waiters, locks, runs, admitted>>
      /\ now' \in 0..MaxTime
  BY BoundAssumption DEF IInv, Tick, ClockRollback
<1>2. Db' = Db
  BY <1>1 DEF Db
<1> QED BY <1>1, <1>2 DEF IInv

(* A registration, of either kind, enqueues the acquisition and grants. *)
LEMMA RegistrationShape ==
  ASSUME IInv, NEW e \in Acquisitions, NEW k \in Keys,
         NEW timeout \in AcquireTimeouts,
         RegisterLockWaiter(e, k, timeout) \/ AcquireProgrammaticLock(e, k, timeout)
  PROVE  \E x \in Databases, deadline \in Nat :
           /\ Registers(Db, x, e, k, deadline)
           /\ CommitGrant(x, k)
           /\ UNCHANGED <<admitted, now>>
<1> DEFINE deadline == now + timeout
           q == Enqueue(Db, e, k, deadline)
<1>1. /\ DbInv(Db)
      /\ deadline \in Nat
      /\ waiters[e].status = "none"
  BY StateFacts, BoundAssumption DEF RegisterLockWaiter, AcquireProgrammaticLock
<1>2. CASE RegisterLockWaiter(e, k, timeout)
  <2>1. /\ e \in MarkupLocks
        /\ CommitGrant(RecordLockEvent(q, e, "Waiting",
                                       LockWaitRegistered(runs[RunOf[e]])), k)
        /\ UNCHANGED <<admitted, now>>
    BY <1>2 DEF RegisterLockWaiter
  <2> DEFINE p == LockWaitRegistered(runs[RunOf[e]])
             y == RecordLockEvent(q, e, "Waiting", p)
  <2>2. "Waiting" \in LockStatuses
    BY DEF LockStatuses
  <2>3. p \in RunProjections
    BY <2>1, StateFacts, FoldType
  <2> HIDE DEF deadline
  <2>q. /\ q \in Databases
        /\ q.resources = resources
        /\ q.locks = locks
    BY <1>1, EnqueueFields DEF Db
  <2> HIDE DEF q, p
  <2>4. /\ y.resources = q.resources
        /\ y.waiters = q.waiters
        /\ y.locks = [q.locks EXCEPT ![e] = "Waiting"]
        /\ y \in Databases
    BY <2>q, <2>1, <2>2, <2>3, RecordFields
  <2>5. CommitGrant(y, k)
    BY <2>1 DEF p
  <2> HIDE DEF y
  <2>6. \A f \in MarkupLocks :
          y.locks[f] = IF f = e THEN "Waiting" ELSE Db.locks[f]
    BY <2>q, <2>1, <2>4, StateFacts DEF Db
  <2>7. /\ y.resources = Db.resources
        /\ y.waiters = Enqueue(Db, e, k, deadline).waiters
        /\ Db.waiters[e].status = "none"
    BY <1>1, <2>q, <2>4 DEF Db, q
  <2>8. Registers(Db, y, e, k, deadline)
    BY <2>6, <2>7 DEF Registers
  <2> QED BY <1>1, <2>1, <2>4, <2>5, <2>8
<1>3. CASE AcquireProgrammaticLock(e, k, timeout)
  <2>1. e \notin MarkupLocks /\ CommitGrant(q, k) /\ UNCHANGED <<admitted, now>>
    BY <1>3, LockAssumption DEF AcquireProgrammaticLock
  <2> HIDE DEF deadline
  <2>2. /\ q \in Databases
        /\ q.resources = resources
        /\ q.locks = locks
    BY <1>1, EnqueueFields DEF Db
  <2> HIDE DEF q
  <2>3. /\ q.resources = Db.resources
        /\ q.waiters = Enqueue(Db, e, k, deadline).waiters
        /\ Db.waiters[e].status = "none"
        /\ \A f \in MarkupLocks :
             q.locks[f] = IF f = e THEN "Waiting" ELSE Db.locks[f]
    BY <1>1, <2>1, <2>2 DEF Db, q
  <2>4. Registers(Db, q, e, k, deadline)
    BY <2>3 DEF Registers
  <2> QED BY <1>1, <2>1, <2>2, <2>4
<1> QED BY <1>2, <1>3

(* A registration keeps the invariant. *)
LEMMA RegistrationInv ==
  ASSUME IInv, NEW e \in Acquisitions, NEW k \in Keys,
         NEW timeout \in AcquireTimeouts,
         RegisterLockWaiter(e, k, timeout) \/ AcquireProgrammaticLock(e, k, timeout)
  PROVE  IInv'
<1>1. PICK x \in Databases, deadline \in Nat :
        /\ Registers(Db, x, e, k, deadline)
        /\ CommitGrant(x, k)
        /\ UNCHANGED <<admitted, now>>
  BY RegistrationShape
<1>2. DbInv(Db)
  BY StateFacts
<1>3. DbInv(x)
  BY <1>1, <1>2, EnqueueInv
<1>4. HighWaterGrows(Db, x)
  BY <1>1, StateFacts DEF HighWaterGrows, Registers
<1> QED BY <1>1, <1>3, <1>4, CommitGrantInv

-----------------------------------------------------------------------------
(* The theorems. *)

(* A step of the store keeps the invariant and never lowers an admitted    *)
(* token.                                                                  *)
LEMMA StoreStepInv ==
  ASSUME IInv, StoreStep
  PROVE  /\ IInv'
         /\ \A k \in Keys : admitted'[k] >= admitted[k]
<1>0. \A k \in Keys : admitted[k] \in Nat
  BY DEF IInv
<1>2. ASSUME NEW e \in Acquisitions, LockStep(e)
      PROVE  /\ IInv'
             /\ \A k \in Keys : admitted'[k] >= admitted[k]
  <2>1. CASE AdmitManagedEffect(e)
    BY <2>1, AdmitManagedEffectInv
  <2>2. CASE AdmitSessionEffect(e)
    BY <2>2, AdmitSessionEffectInv
  <2>3. ASSUME IInv', UNCHANGED admitted
        PROVE  /\ IInv'
               /\ \A k \in Keys : admitted'[k] >= admitted[k]
    BY <1>0, <2>3
  <2>4. ASSUME NEW k \in Keys, NEW w \in AcquireTimeouts,
               RegisterLockWaiter(e, k, w) \/ AcquireProgrammaticLock(e, k, w)
        PROVE  IInv' /\ UNCHANGED admitted
    <3>1. IInv'
      BY <2>4, RegistrationInv
    <3> QED BY <2>4, <3>1 DEF RegisterLockWaiter, AcquireProgrammaticLock
  <2>5. CASE ReattachSession(e)
    <3>1. waiters[e].key \in Keys
      BY StateFacts
    <3>2. IInv' /\ UNCHANGED admitted
      BY <2>5, <3>1, DriveInv DEF ReattachSession
    <3> QED BY <2>3, <3>2
  <2>6. CASE ReleaseLock(e)
    BY <2>3, <2>6, ReleaseLockInv DEF ReleaseLock
  <2>7. CASE ReleaseProgrammaticLock(e)
    BY <2>3, <2>7, ReleaseProgrammaticInv DEF ReleaseProgrammaticLock
  <2>8. CASE RenewLockLease(e) \/ RenewProgrammaticLock(e)
    BY <2>3, <2>8, RenewInv DEF RenewLockLease, RenewProgrammaticLock
  <2>9. CASE \/ TimeoutLockWaiter(e)
             \/ CancelLockWaiter(e)
             \/ CancelProgrammaticWaiter(e)
    BY <2>3, <2>9, SettlementInv
    DEF TimeoutLockWaiter, CancelLockWaiter, CancelProgrammaticWaiter
  <2>10. CASE PollProgrammaticLock(e)
    BY <2>3, <2>10, PollInv DEF PollProgrammaticLock
  <2> QED BY <1>2, <2>1, <2>2, <2>3, <2>4, <2>5, <2>6, <2>7, <2>8, <2>9,
             <2>10 DEF LockStep
<1>3. ASSUME NEW r \in Runs, RunStep(r)
      PROVE  IInv' /\ UNCHANGED admitted
  <2>1. IInv'
    BY <1>3, RunStepInv
  <2>2. UNCHANGED admitted
    BY <1>3 DEF RunStep, RequestRunCancellation, SettleRunTimeout,
                DecideRunSucceeded, DecideRunFailed, DecideRunCancelled,
                FinalizeRun, SetRun
  <2> QED BY <2>1, <2>2
<1>5. CASE Tick \/ ClockRollback
  BY <1>0, <1>5, ClockInv DEF Tick, ClockRollback
<1> QED BY <1>0, <1>2, <1>3, <1>5 DEF StoreStep

(* The grants of a consistent store are grant records. *)
LEMMA GrantsType ==
  ASSUME NEW d, DbInv(d)
  PROVE  Grants(d) \subseteq GrantRecords
<1>1. d.waiters \in [Acquisitions -> WaiterRows]
  BY DbFields
<1> QED BY <1>1 DEF Grants, GrantRecords, WaiterRows

(* One step keeps both invariants, and only a restore lowers an admitted   *)
(* token.                                                                  *)
LEMMA StepInv ==
  ASSUME IInv, HistoryInv, [Next]_vars
  PROVE  /\ IInv' /\ HistoryInv'
         /\ restores' = restores =>
              \A k \in Keys : admitted'[k] >= admitted[k]
<1>0. /\ \A k \in Keys : admitted[k] \in Nat
      /\ restores \in Nat
  BY BoundAssumption DEF IInv, HistoryInv
<1>1. ASSUME UNCHANGED vars \/ TakeBackup
      PROVE  IInv' /\ UNCHANGED <<admitted, Db, restores, told, forgotten>>
  <2>1. UNCHANGED <<Db, admitted, resources, now, restores, told, forgotten>>
    BY <1>1 DEF vars, Db, TakeBackup
  <2> QED BY <2>1 DEF IInv
<1>2. CASE UNCHANGED vars
  <2>1. UNCHANGED <<backup, restores, told, forgotten>>
    BY <1>2 DEF vars
  <2> QED BY <1>0, <1>1, <1>2, <2>1 DEF HistoryInv
<1>3. CASE TakeBackup
  <2>1. backup' = Db
    BY <1>3 DEF TakeBackup
  <2>2. DbInv(backup')
    BY <2>1, StateFacts
  <2> QED BY <1>0, <1>1, <1>3, <2>2 DEF HistoryInv
<1>4. CASE RestoreBackup
  <2>1. restores' # restores
    BY <1>0, <1>4 DEF RestoreBackup
  <2> QED BY <1>4, <2>1, RestoreBackupInv
<1>5. CASE StoreStep /\ Remember
  <2>1. /\ IInv'
        /\ \A k \in Keys : admitted'[k] >= admitted[k]
    BY <1>5, StoreStepInv
  <2>2. DbInv(Db')
    BY <2>1 DEF IInv
  <2>3. Grants(Db') \subseteq GrantRecords
    BY <2>2, GrantsType
  <2>4. /\ told' = told \cup Grants(Db')
        /\ UNCHANGED <<backup, restores, forgotten>>
    BY <1>5 DEF Remember
  <2>5. told' \subseteq GrantRecords
    BY <2>3, <2>4 DEF HistoryInv
  <2> QED BY <2>1, <2>4, <2>5 DEF HistoryInv
<1> QED BY <1>2, <1>3, <1>4, <1>5 DEF Next

(* The empty store satisfies the invariant. *)
LEMMA InitInv ==
  ASSUME Init
  PROVE  IInv /\ HistoryInv
<1>1. /\ resources = [k \in Keys |->
           [high |-> 0, owner |-> NoOwner, token |-> 0, expires |-> 0]]
      /\ \E k \in Keys : waiters = [e \in Acquisitions |->
           [status |-> "none", key |-> k, seq |-> 0, deadline |-> 0,
            token |-> 0]]
      /\ locks = [e \in MarkupLocks |-> "none"]
      /\ admitted = [k \in Keys |-> 0]
      /\ now = 0
  BY DEF Init
<1>2. RunExecutionStarted(RunAdmitted(EmptyProjection)) \in RunProjections
  BY DEF RunExecutionStarted, RunAdmitted, EmptyProjection, RunProjections,
         RunStatuses, BusinessOutcomes, NoOutcome
<1>3. /\ resources \in [Keys -> ResourceRows]
      /\ waiters \in [Acquisitions -> WaiterRows]
      /\ locks \in [MarkupLocks -> LockStatuses]
      /\ runs \in [Runs -> RunProjections]
  <2>1. runs \in [Runs -> RunProjections]
    BY <1>2 DEF Init
  <2>2. waiters \in [Acquisitions -> WaiterRows]
    BY <1>1 DEF WaiterRows, WaiterStatuses
  <2> QED BY <1>1, <2>1, <2>2 DEF ResourceRows, LockStatuses
<1>4. Db \in Databases
  BY <1>3 DEF Db, Databases
<1>5. \A e \in Acquisitions :
        /\ waiters[e].status = "none"
        /\ waiters[e].key \in Keys
        /\ waiters[e].seq = 0
        /\ waiters[e].token = 0
  BY <1>1
<1>6. OwnersConsistent(Db)
  BY <1>1, <1>5 DEF OwnersConsistent, Db, Acquisitions
<1>7. TokensConsistent(Db)
  BY <1>1, <1>5 DEF TokensConsistent, Db
<1>8. SequencesBounded(Db)
  <2>1. 0 \in Nat /\ \A e \in Acquisitions : Db.waiters[e].seq <= 0
    BY <1>5 DEF Db
  <2> QED BY <2>1 DEF SequencesBounded
<1>9. DbInv(Db)
  BY <1>4, <1>6, <1>7, <1>8 DEF DbInv
<1>10. IInv
  BY <1>1, <1>9, BoundAssumption DEF IInv
<1>11. /\ backup = Db /\ restores = 0 /\ told = {}
       /\ forgotten = [k \in Keys |-> {}]
  BY DEF Init
<1>12. HistoryInv
  BY <1>9, <1>11, BoundAssumption DEF HistoryInv
<1> QED BY <1>10, <1>12

(* The inductive invariant holds in every reachable state. *)
THEOREM Invariance == Spec => [](IInv /\ HistoryInv)
<1>1. Init => IInv /\ HistoryInv
  BY InitInv
<1>2. (IInv /\ HistoryInv) /\ [Next]_vars => (IInv /\ HistoryInv)'
  BY StepInv
<1> QED BY <1>1, <1>2, PTL DEF Spec

(* Every row, projection and counter keeps its type. *)
THEOREM TypeCorrectness == Spec => []TypeOK
<1>1. IInv /\ HistoryInv => TypeOK
  BY StateFacts DEF IInv, HistoryInv, DbInv, TypeOK
<1> QED BY <1>1, Invariance, PTL

(* The two lock tables and the run histories agree on who owns and who     *)
(* waits for every key: whatever operations of whatever runs interleave,   *)
(* a key has at most one holder.                                           *)
THEOREM OwnershipSafety == Spec => []OwnerMatchesQueue
<1>1. IInv => OwnerMatchesQueue
  BY DEF IInv, DbInv, OwnersConsistent, OwnerMatchesQueue, Db
<1> QED BY <1>1, Invariance, PTL

(* While one store serves, the tokens of the effects admitted under a key  *)
(* never go back, so an owner that lost its lease admits no effect after   *)
(* its successor did.                                                      *)
THEOREM EffectFencing == Spec => EffectTokensMonotone
<1>1. IInv /\ HistoryInv /\ [Next]_vars =>
        [restores' = restores =>
           \A k \in Keys : admitted'[k] >= admitted[k]]_vars
  BY StepInv
<1> QED BY <1>1, Invariance, PTL DEF Spec, EffectTokensMonotone

-----------------------------------------------------------------------------
(***************************************************************************)
(* What the transactions of LockLeases do to the queue of a key, for any   *)
(* number of runs, acquisitions and keys: records stand, a key is never    *)
(* left idle, leases go out in registration order, and the store           *)
(* implements the abstract lock of FencedLock.                             *)
(*                                                                         *)
(* Every transaction on a key prepares (it registers, settles, releases or *)
(* expires) and then grants.  Prepares and Transacts say on two database   *)
(* values what the theorems need to know of the two halves; the lemmas     *)
(* show it helper by helper, and StepShape for the actions.                *)
(***************************************************************************)

-----------------------------------------------------------------------------
(* What a transaction on key k may do, from database d to database x. *)

(* Only the row of the key and rows of its queue change. *)
Local(d, x, k) ==
  /\ \A j \in Keys : j # k => x.resources[j] = d.resources[j]
  /\ \A e \in Acquisitions :
       x.waiters[e] # d.waiters[e] => x.waiters[e].key = k

(* Settled rows and settled locks stay; an owner keeps its key with no     *)
(* earlier expiry or is settled.                                           *)
Keeps(d, x) ==
  /\ \A e \in Acquisitions :
       d.waiters[e].status \in SettledStatuses => x.waiters[e] = d.waiters[e]
  /\ \A e \in MarkupLocks :
       d.locks[e] \notin {"none", "Waiting", "Held"} => x.locks[e] = d.locks[e]
  /\ \A k \in Keys : d.resources[k].owner # NoOwner =>
       \/ /\ x.resources[k].owner = d.resources[k].owner
          /\ x.resources[k].expires >= d.resources[k].expires
       \/ x.waiters[d.resources[k].owner].status \in SettledStatuses

(* GrantOrder on a database value, and why it lasts: a waiter that was     *)
(* overtaken is past its deadline.                                         *)
Ordered(d, t) ==
  \A e, f \in Acquisitions :
    /\ d.waiters[e].key = d.waiters[f].key
    /\ d.waiters[e].seq < d.waiters[f].seq
    /\ d.waiters[f].token > 0
    => /\ d.waiters[e].token > 0 => d.waiters[e].token < d.waiters[f].token
       /\ d.waiters[e].status = "waiting" => d.waiters[e].deadline < t

(* A lock without a waiter row has no event in its run's history. *)
Untouched(d) ==
  \A e \in MarkupLocks : d.waiters[e].status = "none" => d.locks[e] = "none"

(* No token is handed out; the key stays with its owner or becomes free. *)
Frees(d, x, k) ==
  /\ \A j \in Keys : x.resources[j].high = d.resources[j].high
  /\ x.resources[k].owner \in {d.resources[k].owner, NoOwner}
  /\ \A e \in Acquisitions : x.waiters[e].token = d.waiters[e].token

(* One acquisition that never had a token gets the key and the next one. *)
HandsOver(d, x, k) ==
  \E h \in Acquisitions :
    /\ d.waiters[h].token = 0
    /\ x.waiters[h].token = d.resources[k].high + 1
    /\ x.resources[k].owner = h
    /\ x.resources[k].high = d.resources[k].high + 1
    /\ \A e \in Acquisitions \ {h} : x.waiters[e].token = d.waiters[e].token

(* NoLostWakeup of one key. *)
NoneIdle(d, k, t) ==
  d.resources[k].owner = NoOwner => Eligible(d, k, t) = {}

Prepares(d, x, k, t) ==
  /\ Local(d, x, k)
  /\ Keeps(d, x)
  /\ Ordered(d, t) => Ordered(x, t)
  /\ Untouched(d) => Untouched(x)
  /\ Frees(d, x, k)

Transacts(d, x, k, t) ==
  /\ Local(d, x, k)
  /\ Keeps(d, x)
  /\ Ordered(d, t) => Ordered(x, t)
  /\ Untouched(d) => Untouched(x)
  /\ Frees(d, x, k) \/ HandsOver(d, x, k)
  /\ NoneIdle(x, k, t)

-----------------------------------------------------------------------------
(* The helpers. *)

(* Keeping records composes, since a settled row stays. *)
LEMMA KeepsTransitive ==
  ASSUME NEW c, DbInv(c), NEW d, DbInv(d), NEW x, DbInv(x),
         Keeps(c, d), Keeps(d, x)
  PROVE  Keeps(c, x)
<1>1. /\ c.resources \in [Keys -> ResourceRows]
      /\ d.resources \in [Keys -> ResourceRows]
      /\ x.resources \in [Keys -> ResourceRows]
  BY DbFields
<1>2. \A e \in Acquisitions :
        c.waiters[e].status \in SettledStatuses => x.waiters[e] = c.waiters[e]
  BY DEF Keeps
<1>3. \A e \in MarkupLocks :
        c.locks[e] \notin {"none", "Waiting", "Held"} => x.locks[e] = c.locks[e]
  BY DEF Keeps
<1>4. ASSUME NEW k \in Keys, c.resources[k].owner # NoOwner
      PROVE  \/ /\ x.resources[k].owner = c.resources[k].owner
                /\ x.resources[k].expires >= c.resources[k].expires
             \/ x.waiters[c.resources[k].owner].status \in SettledStatuses
  <2> DEFINE e == c.resources[k].owner
  <2>1. e \in Acquisitions
    BY <1>1, <1>4 DEF ResourceRows
  <2>2. CASE d.waiters[e].status \in SettledStatuses
    <3>1. x.waiters[e] = d.waiters[e]
      BY <2>1, <2>2 DEF Keeps
    <3> QED BY <2>2, <3>1
  <2>3. CASE d.resources[k].owner = e
             /\ d.resources[k].expires >= c.resources[k].expires
    <3>1. /\ c.resources[k].expires \in Nat
          /\ d.resources[k].expires \in Nat
          /\ x.resources[k].expires \in Nat
      BY <1>1 DEF ResourceRows
    <3>2. \/ /\ x.resources[k].owner = e
             /\ x.resources[k].expires >= d.resources[k].expires
          \/ x.waiters[e].status \in SettledStatuses
      BY <1>4, <2>3 DEF Keeps
    <3> QED BY <2>3, <3>1, <3>2
  <2> QED BY <1>4, <2>2, <2>3 DEF Keeps
<1> QED BY <1>2, <1>3, <1>4 DEF Keeps

(* Preparing composes. *)
LEMMA PreparesTransitive ==
  ASSUME NEW c, DbInv(c), NEW d, DbInv(d), NEW x, DbInv(x),
         NEW k \in Keys, NEW t,
         Prepares(c, d, k, t), Prepares(d, x, k, t)
  PROVE  Prepares(c, x, k, t)
<1>1. Keeps(c, x)
  BY KeepsTransitive DEF Prepares
<1>2. Local(c, x, k)
  BY DEF Prepares, Local
<1>3. Frees(c, x, k)
  BY DEF Prepares, Frees
<1> QED BY <1>1, <1>2, <1>3 DEF Prepares

(* A change of status that makes nobody wait keeps the queue in order. *)
LEMMA StatusOrdered ==
  ASSUME NEW d, DbInv(d), NEW x, NEW t \in Nat, NEW e \in Acquisitions,
         NEW st \in SettledStatuses,
         x.waiters = WithStatus(d.waiters, e, st), Ordered(d, t)
  PROVE  Ordered(x, t)
<1>1. st \in WaiterStatuses /\ st # "waiting"
  BY DEF SettledStatuses, WaiterStatuses
<1>2. \A f \in Acquisitions :
        /\ x.waiters[f].status = IF f = e THEN st ELSE d.waiters[f].status
        /\ x.waiters[f].key = d.waiters[f].key
        /\ x.waiters[f].seq = d.waiters[f].seq
        /\ x.waiters[f].deadline = d.waiters[f].deadline
        /\ x.waiters[f].token = d.waiters[f].token
  BY <1>1, StatusUpdate, DbFields
<1> QED BY <1>1, <1>2 DEF Ordered

(* Settling an acquisition of the key prepares a grant. *)
LEMMA SettlesPrepares ==
  ASSUME NEW d, DbInv(d), NEW x \in Databases, NEW k \in Keys, NEW t \in Nat,
         NEW e \in Acquisitions, NEW st \in SettledStatuses,
         Settles(d, x, e, st), d.waiters[e].key = k,
         \A j \in Keys : d.resources[j].owner # e =>
            x.resources[j] = d.resources[j]
  PROVE  Prepares(d, x, k, t)
<1>0. /\ d.resources \in [Keys -> ResourceRows]
      /\ x.resources \in [Keys -> ResourceRows]
      /\ d.waiters \in [Acquisitions -> WaiterRows]
      /\ st \in WaiterStatuses
      /\ e # NoOwner
  BY DbFields, LockAssumption DEF Databases, SettledStatuses, WaiterStatuses
<1>1. /\ x.waiters = WithStatus(d.waiters, e, st)
      /\ d.waiters[e].status \in {"waiting", "held"}
  BY DEF Settles
<1>2. /\ \A f \in Acquisitions \ {e} : x.waiters[f] = d.waiters[f]
      /\ x.waiters[e].status = st
      /\ \A f \in Acquisitions :
           /\ x.waiters[f].token = d.waiters[f].token
           /\ x.waiters[f].key = d.waiters[f].key
  <2>1. \A f \in Acquisitions \ {e} : x.waiters[f] = d.waiters[f]
    BY <1>0, <1>1 DEF WithStatus
  <2>2. \A f \in Acquisitions :
          /\ x.waiters[f].status = IF f = e THEN st ELSE d.waiters[f].status
          /\ x.waiters[f].token = d.waiters[f].token
          /\ x.waiters[f].key = d.waiters[f].key
    BY <1>0, <1>1, StatusUpdate
  <2> QED BY <2>1, <2>2
<1>3. \A j \in Keys : d.resources[j].owner = e => j = k
  BY <1>0 DEF DbInv, OwnersConsistent
<1>4. Local(d, x, k)
  BY <1>2, <1>3 DEF Local
<1>5. Keeps(d, x)
  <2>1. d.waiters[e].status \notin SettledStatuses
    BY <1>1 DEF SettledStatuses
  <2>2. \A f \in Acquisitions :
          d.waiters[f].status \in SettledStatuses => x.waiters[f] = d.waiters[f]
    BY <2>1, <1>2
  <2>3. e \in MarkupLocks => d.locks[e] \in {"Waiting", "Held"}
    BY <1>0, <1>1 DEF DbInv, OwnersConsistent
  <2>4. \A f \in MarkupLocks :
          d.locks[f] \notin {"none", "Waiting", "Held"} =>
            x.locks[f] = d.locks[f]
    BY <2>3 DEF Settles
  <2>5. ASSUME NEW j \in Keys, d.resources[j].owner # NoOwner
        PROVE  \/ /\ x.resources[j].owner = d.resources[j].owner
                  /\ x.resources[j].expires >= d.resources[j].expires
               \/ x.waiters[d.resources[j].owner].status \in SettledStatuses
    <3>1. CASE d.resources[j].owner = e
      BY <3>1, <1>2
    <3>2. CASE d.resources[j].owner # e
      BY <3>2, <1>0 DEF ResourceRows
    <3> QED BY <3>1, <3>2
  <2> QED BY <2>2, <2>4, <2>5 DEF Keeps
<1>6. Frees(d, x, k)
  BY <1>2 DEF Frees, Settles
<1>7. Ordered(d, t) => Ordered(x, t)
  BY <1>1, StatusOrdered
<1>8. Untouched(d) => Untouched(x)
  <2>1. st # "none"
    BY DEF SettledStatuses
  <2> QED BY <2>1, <1>2 DEF Untouched, Settles, Acquisitions
<1> QED BY <1>4, <1>5, <1>6, <1>7, <1>8 DEF Prepares

(* Expiring the owner prepares a grant. *)
LEMMA ExpirePrepares ==
  ASSUME NEW d, DbInv(d), NEW k \in Keys, NEW t \in Nat
  PROVE  Prepares(d, Expire(d, k, t), k, t)
<1> DEFINE x == Expire(d, k, t)
           e == d.resources[k].owner
<1>1. CASE ~OwnerExpired(d, k, t)
  <2>1. x = d
    BY <1>1 DEF Expire
  <2>2. Prepares(d, d, k, t)
    BY DbFields DEF Prepares, Local, Keeps, Frees, ResourceRows
  <2> QED BY <2>1, <2>2
<1>2. CASE OwnerExpired(d, k, t)
  <2>0. /\ d.resources \in [Keys -> ResourceRows]
        /\ d.locks \in [MarkupLocks -> LockStatuses]
    BY DbFields
  <2>1. /\ e \in Acquisitions
        /\ d.waiters[e].status = "held"
        /\ d.waiters[e].key = k
        /\ \A j \in Keys : d.resources[j].owner = e <=> j = k
    BY <1>2, <2>0 DEF OwnerExpired, ResourceRows, DbInv, OwnersConsistent
  <2>2. /\ x \in Databases
        /\ x.resources = Freed(d.resources, k)
        /\ x.waiters = WithStatus(d.waiters, e, "lost")
        /\ x.locks = IF e \in Sessions THEN d.locks
                     ELSE [d.locks EXCEPT ![e] = "LeaseLost"]
    BY <1>2, ExpireFields
  <2> HIDE DEF x, e
  <2>3. \A j \in Keys :
          /\ x.resources[j].owner = IF j = k THEN NoOwner
                                    ELSE d.resources[j].owner
          /\ x.resources[j].high = d.resources[j].high
          /\ j # k => x.resources[j] = d.resources[j]
    BY <2>0, <2>2 DEF Freed, FreeRow, ResourceRows
  <2>4. \A j \in Keys :
          /\ x.resources[j].high = d.resources[j].high
          /\ x.resources[j].owner =
               IF d.resources[j].owner = e THEN NoOwner
               ELSE d.resources[j].owner
          /\ d.resources[j].owner # e => x.resources[j] = d.resources[j]
    BY <2>1, <2>3
  <2>5. /\ \A f \in MarkupLocks : f # e => x.locks[f] = d.locks[f]
        /\ e \in MarkupLocks => x.locks[e] \notin {"Held", "Waiting"}
    BY <2>0, <2>2, LockAssumption
  <2>6. Settles(d, x, e, "lost")
    BY <2>1, <2>2, <2>4, <2>5 DEF Settles
  <2>7. "lost" \in SettledStatuses
    BY DEF SettledStatuses
  <2>8. Prepares(d, x, k, t)
    BY <2>1, <2>2, <2>4, <2>6, <2>7, SettlesPrepares
  <2> QED BY <2>8 DEF x
<1> QED BY <1>1, <1>2

(* The eligible waiter Grant chooses has the least sequence. *)
LEMMA OldestFirst ==
  ASSUME NEW d \in Databases, NEW k \in Keys, NEW t \in Nat,
         NEW f \in Eligible(d, k, t)
  PROVE  d.waiters[Oldest(d, k, t)].seq <= d.waiters[f].seq
<1> DEFINE S == {d.waiters[e].seq : e \in Eligible(d, k, t)}
<1>1. \A e \in Eligible(d, k, t) : e \in Acquisitions
  BY DEF Eligible, Queue
<1>2. S \in SUBSET Nat /\ S # {}
  BY <1>1 DEF Databases, WaiterRows
<1>3. PICK n \in S : \A m \in S : n <= m
  <2> HIDE DEF S
  <2> QED BY <1>2, LeastNatural
<1>4. PICK e \in Eligible(d, k, t) : n = d.waiters[e].seq
  BY <1>3
<1>5. \A g \in Eligible(d, k, t) : d.waiters[e].seq <= d.waiters[g].seq
  BY <1>3, <1>4
<1> HIDE DEF S
<1> QED BY <1>5 DEF Oldest

(* Handing a free key to the oldest eligible waiter. *)
LEMMA HandToTransacts ==
  ASSUME NEW d, DbInv(d), NEW k \in Keys, NEW t \in Nat,
         Grantable(d, k, t), NEW h, h = Oldest(d, k, t),
         NEW x, x = HandTo(d, k, h, t)
  PROVE  /\ Transacts(d, x, k, t)
         /\ HandsOver(d, x, k)
         /\ x.resources[k].owner = h
         /\ x.resources[k].expires = t + Lease
<1>0. /\ d.resources \in [Keys -> ResourceRows]
      /\ d.waiters \in [Acquisitions -> WaiterRows]
      /\ d \in Databases
      /\ d.resources[k].owner = NoOwner
      /\ d.resources[k].high \in Nat
  BY DbFields DEF DbInv, Grantable, ResourceRows
<1>1. /\ h \in Eligible(d, k, t)
      /\ h \in Acquisitions
      /\ d.waiters[h].status = "waiting"
      /\ d.waiters[h].key = k
      /\ d.waiters[h].deadline >= t
  BY <1>0, OldestEligible DEF Grantable, Eligible, Queue
<1>2. d.waiters[h].token = 0 /\ h # NoOwner
  BY <1>1, LockAssumption DEF DbInv, TokensConsistent
<1>3. /\ x.resources = [d.resources EXCEPT ![k] =
              [high |-> d.resources[k].high + 1, owner |-> h,
               token |-> d.resources[k].high + 1, expires |-> t + Lease]]
      /\ x.waiters = [d.waiters EXCEPT ![h] =
              [status |-> "held", key |-> d.waiters[h].key,
               seq |-> d.waiters[h].seq, deadline |-> d.waiters[h].deadline,
               token |-> d.resources[k].high + 1]]
      /\ \A f \in MarkupLocks :
           x.locks[f] = IF f = h THEN "Held" ELSE d.locks[f]
  BY <1>0, <1>1, HandToFields
<1>4. /\ x.resources[k].owner = h
      /\ x.resources[k].high = d.resources[k].high + 1
      /\ x.resources[k].expires = t + Lease
      /\ \A j \in Keys : j # k => x.resources[j] = d.resources[j]
  BY <1>0, <1>3
<1>5. /\ x.waiters[h].status = "held"
      /\ x.waiters[h].key = k
      /\ x.waiters[h].seq = d.waiters[h].seq
      /\ x.waiters[h].token = d.resources[k].high + 1
      /\ \A f \in Acquisitions \ {h} : x.waiters[f] = d.waiters[f]
  BY <1>0, <1>1, <1>3
<1>6. Local(d, x, k)
  BY <1>4, <1>5 DEF Local
<1>7. Keeps(d, x)
  <2>1. \A f \in Acquisitions :
          d.waiters[f].status \in SettledStatuses => x.waiters[f] = d.waiters[f]
    BY <1>1, <1>5 DEF SettledStatuses
  <2>2. h \in MarkupLocks => d.locks[h] = "Waiting"
    BY <1>1 DEF DbInv, OwnersConsistent
  <2>3. \A f \in MarkupLocks :
          d.locks[f] \notin {"none", "Waiting", "Held"} =>
            x.locks[f] = d.locks[f]
    BY <1>3, <2>2
  <2>4. \A j \in Keys : d.resources[j].owner # NoOwner =>
          /\ x.resources[j].owner = d.resources[j].owner
          /\ x.resources[j].expires >= d.resources[j].expires
    BY <1>0, <1>4 DEF ResourceRows
  <2> QED BY <2>1, <2>3, <2>4 DEF Keeps
<1>8. ASSUME Ordered(d, t) PROVE Ordered(x, t)
  <2> SUFFICES ASSUME NEW e \in Acquisitions, NEW f \in Acquisitions,
                      x.waiters[e].key = x.waiters[f].key,
                      x.waiters[e].seq < x.waiters[f].seq,
                      x.waiters[f].token > 0
               PROVE  /\ x.waiters[e].token > 0 =>
                           x.waiters[e].token < x.waiters[f].token
                      /\ x.waiters[e].status = "waiting" =>
                           x.waiters[e].deadline < t
    BY DEF Ordered
  <2>0. /\ d.waiters[e] \in WaiterRows
        /\ d.waiters[f] \in WaiterRows
        /\ d.waiters[h] \in WaiterRows
    BY <1>0, <1>1
  <2>1. CASE e # h /\ f # h
    BY <2>1, <1>5, <1>8 DEF Ordered
  <2>2. CASE f = h
    <3>1. /\ e # h
          /\ x.waiters[e] = d.waiters[e]
          /\ d.waiters[e].key = k
          /\ d.waiters[e].seq < d.waiters[h].seq
      BY <2>2, <2>0, <1>5 DEF WaiterRows
    <3>2. d.waiters[e].token <= d.resources[k].high
      BY <3>1 DEF DbInv, TokensConsistent
    <3>3. x.waiters[e].token < x.waiters[f].token
      BY <3>1, <3>2, <2>2, <1>0, <1>5, <2>0 DEF WaiterRows
    <3>4. ASSUME x.waiters[e].status = "waiting"
          PROVE  x.waiters[e].deadline < t
      <4>1. e \notin Eligible(d, k, t)
        <5> SUFFICES ASSUME e \in Eligible(d, k, t) PROVE FALSE
          OBVIOUS
        <5>1. d.waiters[h].seq <= d.waiters[e].seq
          BY <1>0, OldestFirst
        <5> QED BY <5>1, <3>1, <2>0 DEF WaiterRows
      <4> QED BY <3>1, <3>4, <4>1, <2>0 DEF Eligible, Queue, WaiterRows
    <3> QED BY <3>3, <3>4
  <2>3. CASE e = h /\ f # h
    <3>1. /\ x.waiters[f] = d.waiters[f]
          /\ d.waiters[f].key = d.waiters[h].key
          /\ d.waiters[h].seq < d.waiters[f].seq
          /\ d.waiters[f].token > 0
      BY <2>3, <1>5, <1>1
    <3>2. d.waiters[h].deadline < t
      BY <3>1, <1>1, <1>8 DEF Ordered
    <3> QED BY <3>2, <1>1, <2>0 DEF WaiterRows
  <2> QED BY <2>1, <2>2, <2>3
<1>9. HandsOver(d, x, k)
  BY <1>1, <1>2, <1>4, <1>5 DEF HandsOver
<1>10. NoneIdle(x, k, t)
  BY <1>2, <1>4 DEF NoneIdle
<1>11. Untouched(d) => Untouched(x)
  BY <1>3, <1>5 DEF Untouched, Acquisitions
<1> QED BY <1>4, <1>6, <1>7, <1>8, <1>9, <1>10, <1>11 DEF Transacts

(* A transaction that prepares and then grants. *)
LEMMA GrantTransacts ==
  ASSUME NEW c, DbInv(c), NEW d, DbInv(d), NEW k \in Keys, NEW t \in Nat,
         Prepares(c, d, k, t)
  PROVE  Transacts(c, Grant(d, k, t), k, t)
<1> DEFINE x == Expire(d, k, t)
           y == Grant(d, k, t)
<1>1. DbInv(x) /\ DbInv(y)
  BY ExpireInv, GrantInv
<1>2. Prepares(d, x, k, t)
  BY ExpirePrepares
<1>3. y = IF Grantable(x, k, t) THEN HandTo(x, k, Oldest(x, k, t), t) ELSE x
  BY DEF Grant
<1> SUFFICES Transacts(c, y, k, t)
  OBVIOUS
<1> HIDE DEF x, y
<1>4. Prepares(c, x, k, t)
  BY <1>1, <1>2, PreparesTransitive
<1>5. CASE ~Grantable(x, k, t)
  <2>1. y = x
    BY <1>3, <1>5
  <2>2. NoneIdle(x, k, t)
    BY <1>5 DEF Grantable, NoneIdle
  <2>3. Transacts(c, x, k, t)
    BY <1>4, <2>2, Zenon DEF Prepares, Transacts
  <2> QED BY <2>1, <2>3, Zenon
<1>6. CASE Grantable(x, k, t)
  <2>1. Transacts(x, y, k, t) /\ HandsOver(x, y, k)
    BY <1>1, <1>3, <1>6, HandToTransacts
  <2>2. Keeps(c, y)
    BY <1>1, <1>4, <2>1, KeepsTransitive DEF Prepares, Transacts
  <2>3. Local(c, y, k)
    BY <1>4, <2>1 DEF Prepares, Transacts, Local
  <2>4. HandsOver(c, y, k)
    <3>1. PICK h \in Acquisitions :
            /\ x.waiters[h].token = 0
            /\ y.waiters[h].token = x.resources[k].high + 1
            /\ y.resources[k].owner = h
            /\ y.resources[k].high = x.resources[k].high + 1
            /\ \A e \in Acquisitions \ {h} :
                 y.waiters[e].token = x.waiters[e].token
      BY <2>1 DEF HandsOver
    <3>2. /\ x.resources[k].high = c.resources[k].high
          /\ \A e \in Acquisitions : x.waiters[e].token = c.waiters[e].token
      BY <1>4 DEF Prepares, Frees
    <3> QED BY <3>1, <3>2 DEF HandsOver
  <2> QED BY <1>4, <2>1, <2>2, <2>3, <2>4, Zenon DEF Prepares, Transacts
<1> QED BY <1>5, <1>6

(* A transaction that only drives the queue. *)
LEMMA DriveTransacts ==
  ASSUME NEW d, DbInv(d), NEW k \in Keys, NEW t \in Nat
  PROVE  Transacts(d, Grant(d, k, t), k, t)
<1>1. Prepares(d, d, k, t)
  BY DbFields DEF Prepares, Local, Keeps, Frees, ResourceRows
<1> QED BY <1>1, GrantTransacts

(* The rows an expiry changes. *)
LEMMA ExpiredRows ==
  ASSUME NEW d, DbInv(d), NEW k \in Keys, NEW t \in Nat, OwnerExpired(d, k, t)
  PROVE  /\ d.resources[k].owner \in Acquisitions
         /\ Expire(d, k, t).resources = Freed(d.resources, k)
         /\ Expire(d, k, t).resources[k].owner = NoOwner
         /\ Expire(d, k, t).waiters =
              WithStatus(d.waiters, d.resources[k].owner, "lost")
<1> DEFINE x == Expire(d, k, t)
           e == d.resources[k].owner
<1>1. /\ e \in Acquisitions
      /\ x \in Databases
      /\ x.resources = Freed(d.resources, k)
      /\ x.waiters = WithStatus(d.waiters, e, "lost")
      /\ x.locks = IF e \in Sessions THEN d.locks
                   ELSE [d.locks EXCEPT ![e] = "LeaseLost"]
  BY ExpireFields
<1>2. x.resources[k].owner = NoOwner
  <2> HIDE DEF x, e
  <2> QED BY <1>1, DbFields DEF Freed, FreeRow
<1> QED BY <1>1, <1>2

(* A grant that leaves the key with somebody who does not wait changed     *)
(* nothing: a new holder would have come out of the queue.                 *)
LEMMA GrantKeepsOwner ==
  ASSUME NEW d, DbInv(d), NEW k \in Keys, NEW t \in Nat,
         NEW e \in Acquisitions, d.waiters[e].status # "waiting",
         Grant(d, k, t).resources[k].owner = e
  PROVE  Grant(d, k, t) = d
<1> DEFINE x == Expire(d, k, t)
           y == Grant(d, k, t)
           h == Oldest(x, k, t)
           o == d.resources[k].owner
<1>1. DbInv(x) /\ e # NoOwner
  BY ExpireInv, LockAssumption
<1>2. y = IF Grantable(x, k, t) THEN HandTo(x, k, h, t) ELSE x
  BY DEF Grant
<1>3. ~Grantable(x, k, t)
  <2> SUFFICES ASSUME Grantable(x, k, t) PROVE FALSE
    OBVIOUS
  <2>1. h \in Acquisitions /\ x.waiters[h].status = "waiting"
    BY <1>1, OldestEligible DEF Grantable, DbInv, Eligible, Queue
  <2>2. d.waiters[h].status = "waiting"
    <3>1. CASE ~OwnerExpired(d, k, t)
      BY <2>1, <3>1 DEF Expire
    <3>2. CASE OwnerExpired(d, k, t)
      <4>1. /\ o \in Acquisitions
            /\ x.waiters = WithStatus(d.waiters, o, "lost")
        BY <3>2, ExpiredRows
      <4>2. "lost" \in WaiterStatuses
        BY DEF WaiterStatuses
      <4>3. x.waiters[h].status = IF h = o THEN "lost" ELSE d.waiters[h].status
        <5> HIDE DEF x, h, o
        <5> QED BY <2>1, <4>1, <4>2, StatusUpdate, DbFields
      <4> QED BY <2>1, <4>3
    <3> QED BY <3>1, <3>2
  <2> HIDE DEF x, h
  <2>3. HandTo(x, k, h, t).resources[k].owner = h
    BY <1>1, HandToTransacts DEF h
  <2> QED BY <1>2, <2>2, <2>3
<1>4. y = x /\ x.resources[k].owner = e
  BY <1>2, <1>3
<1>5. CASE ~OwnerExpired(d, k, t)
  BY <1>4, <1>5 DEF Expire
<1>6. CASE OwnerExpired(d, k, t)
  <2>1. x.resources[k].owner = NoOwner
    BY <1>6, ExpiredRows
  <2> QED BY <1>1, <1>4, <2>1
<1> QED BY <1>5, <1>6

(* After a grant the owner's lease is live. *)
LEMMA GrantLive ==
  ASSUME NEW d, DbInv(d), NEW k \in Keys, NEW t \in Nat
  PROVE  ~OwnerExpired(Grant(d, k, t), k, t)
<1> DEFINE x == Expire(d, k, t)
           y == Grant(d, k, t)
           h == Oldest(x, k, t)
<1>1. DbInv(x)
  BY ExpireInv
<1>2. y = IF Grantable(x, k, t) THEN HandTo(x, k, h, t) ELSE x
  BY DEF Grant
<1>3. ~OwnerExpired(x, k, t)
  <2>1. CASE ~OwnerExpired(d, k, t)
    BY <2>1 DEF Expire
  <2>2. CASE OwnerExpired(d, k, t)
    <3>1. x.resources[k].owner = NoOwner
      BY <2>2, ExpiredRows
    <3> QED BY <3>1 DEF OwnerExpired
  <2> QED BY <2>1, <2>2
<1>4. CASE ~Grantable(x, k, t)
  BY <1>2, <1>3, <1>4
<1>5. CASE Grantable(x, k, t)
  <2> SUFFICES ~OwnerExpired(y, k, t)
    OBVIOUS
  <2>1. y = HandTo(x, k, h, t)
    BY <1>2, <1>5
  <2> HIDE DEF x, y
  <2>2. y.resources[k].expires = t + Lease
    BY <1>1, <1>5, <2>1, HandToTransacts
  <2>3. t + Lease > t
    BY BoundAssumption
  <2> QED BY <2>2, <2>3, BoundAssumption DEF OwnerExpired
<1> QED BY <1>4, <1>5

(* A grant that finds a live owner or nobody eligible changes nothing. *)
LEMMA GrantIdle ==
  ASSUME NEW d, NEW k \in Keys, NEW t, ~OwnerExpired(d, k, t),
         NoneIdle(d, k, t)
  PROVE  Grant(d, k, t) = d
<1>1. Expire(d, k, t) = d
  BY DEF Expire
<1>2. ~Grantable(d, k, t)
  BY DEF Grantable, NoneIdle
<1> QED BY <1>1, <1>2 DEF Grant

(* Settling a waiting session changes its row and no other. *)
LEMMA SettleSession ==
  ASSUME NEW d, DbInv(d), NEW s \in Sessions, NEW st \in SettledStatuses,
         d.waiters[s].status = "waiting", NEW t \in Nat
  PROVE  /\ Prepares(d, Settle(d, s, st), d.waiters[s].key, t)
         /\ Settle(d, s, st).resources = d.resources
         /\ Settle(d, s, st).waiters = WithStatus(d.waiters, s, st)
<1> DEFINE x == Settle(d, s, st)
<1>1. /\ d \in Databases
      /\ s \in Acquisitions /\ s \notin MarkupLocks
      /\ st \in WaiterStatuses
      /\ d.waiters \in [Acquisitions -> WaiterRows]
  BY LockAssumption, DbFields
  DEF DbInv, Acquisitions, SettledStatuses, WaiterStatuses
<1>2. /\ x.resources = d.resources
      /\ x.waiters = WithStatus(d.waiters, s, st)
      /\ x.locks = d.locks
      /\ x \in Databases
  BY <1>1, SettleFields
<1> SUFFICES Prepares(d, x, d.waiters[s].key, t)
  BY <1>2
<1> HIDE DEF x
<1>3. \A j \in Keys : d.resources[j].owner # s
  BY <1>1, LockAssumption DEF DbInv, OwnersConsistent
<1>4. Settles(d, x, s, st)
  BY <1>1, <1>2, <1>3 DEF Settles
<1>5. d.waiters[s].key \in Keys
  BY <1>1 DEF WaiterRows
<1> QED BY <1>1, <1>2, <1>4, <1>5, SettlesPrepares

(* Settling a waiting markup lock and recording it in its history. *)
LEMMA SettleMarkup ==
  ASSUME NEW d, DbInv(d), NEW e \in MarkupLocks, NEW st \in SettledStatuses,
         d.waiters[e].status = "waiting", NEW t \in Nat,
         NEW ls \in LockStatuses \ {"Held", "Waiting"},
         NEW p \in RunProjections,
         NEW x, x = RecordLockEvent(Settle(d, e, st), e, ls, p)
  PROVE  Prepares(d, x, d.waiters[e].key, t)
<1> DEFINE v == Settle(d, e, st)
<1>1. /\ d \in Databases
      /\ e \in Acquisitions
      /\ st \in WaiterStatuses
      /\ d.locks \in [MarkupLocks -> LockStatuses]
      /\ d.waiters[e].key \in Keys
  BY DbFields
  DEF DbInv, Acquisitions, SettledStatuses, WaiterStatuses, WaiterRows
<1>2. /\ v.resources = d.resources
      /\ v.waiters = WithStatus(d.waiters, e, st)
      /\ v.locks = d.locks
      /\ v \in Databases
  BY <1>1, SettleFields
<1> HIDE DEF v
<1>3. x = RecordLockEvent(v, e, ls, p)
  BY DEF v
<1>4. /\ x.resources = d.resources
      /\ x.waiters = WithStatus(d.waiters, e, st)
      /\ x.locks = [d.locks EXCEPT ![e] = ls]
      /\ x \in Databases
  BY <1>2, <1>3, RecordFields
<1>5. \A j \in Keys : d.resources[j].owner # e
  BY <1>1, LockAssumption DEF DbInv, OwnersConsistent
<1>6. Settles(d, x, e, st)
  BY <1>1, <1>4, <1>5 DEF Settles
<1> QED BY <1>1, <1>4, <1>6, SettlesPrepares

(* Registering an acquisition: its sequence is the greatest of the key, so *)
(* nobody who was granted is behind it.                                    *)
LEMMA RegistersPrepares ==
  ASSUME NEW d, DbInv(d), NEW x \in Databases, NEW e \in Acquisitions,
         NEW k \in Keys, NEW deadline \in Nat, NEW t \in Nat,
         Registers(d, x, e, k, deadline), Untouched(d)
  PROVE  Prepares(d, x, k, t)
<1> USE DEF Registers
<1> DEFINE n == MaxSequence(d, k) + 1
<1>1. /\ d.resources \in [Keys -> ResourceRows]
      /\ d.waiters \in [Acquisitions -> WaiterRows]
      /\ n \in Nat
  BY DbFields, MaxSequenceType
<1>2. x.waiters = [d.waiters EXCEPT ![e] =
        [status |-> "waiting", key |-> k, seq |-> n,
         deadline |-> deadline, token |-> 0]]
  BY DEF Enqueue, DbInv, Databases
<1>3. ASSUME NEW f \in Acquisitions, d.waiters[f].token > 0,
             d.waiters[f].key = k
      PROVE  d.waiters[f].seq < n
  <2>1. f \in Registered(d, k)
    BY <1>3 DEF DbInv, TokensConsistent, Registered
  <2>2. PICK b \in Nat : \A g \in Acquisitions : d.waiters[g].seq <= b
    BY DEF DbInv, SequencesBounded
  <2>3. /\ Sequences(d, k) \in SUBSET Nat
        /\ 0 \in Sequences(d, k)
        /\ \A m \in Sequences(d, k) : m <= b
    BY <1>1, <2>2 DEF Sequences, Registered, WaiterRows
  <2>4. \E m \in Sequences(d, k) : \A l \in Sequences(d, k) : l <= m
    BY <2>3, GreatestNatural
  <2>5. \A l \in Sequences(d, k) : l <= MaxSequence(d, k)
    BY <2>4 DEF MaxSequence
  <2>6. d.waiters[f].seq \in Sequences(d, k)
    BY <2>1 DEF Sequences
  <2>7. d.waiters[f].seq <= MaxSequence(d, k)
    BY <2>5, <2>6
  <2>8. MaxSequence(d, k) \in Nat /\ d.waiters[f].seq \in Nat
    BY <2>3, <2>6, MaxSequenceType
  <2> HIDE DEF n
  <2> QED BY <2>7, <2>8 DEF n
<1> HIDE DEF n
<1>4. /\ x.waiters[e].status = "waiting"
      /\ x.waiters[e].key = k
      /\ x.waiters[e].seq = n
      /\ x.waiters[e].token = 0
      /\ \A f \in Acquisitions \ {e} : x.waiters[f] = d.waiters[f]
  BY <1>1, <1>2
<1>5. d.waiters[e].status = "none" /\ d.waiters[e].token = 0
  BY DEF DbInv, TokensConsistent
<1>6. Local(d, x, k)
  BY <1>4 DEF Local
<1>7. Keeps(d, x)
  <2>1. \A f \in Acquisitions :
          d.waiters[f].status \in SettledStatuses => x.waiters[f] = d.waiters[f]
    BY <1>4, <1>5 DEF SettledStatuses
  <2>2. \A j \in Keys : d.resources[j].owner # NoOwner =>
          /\ x.resources[j].owner = d.resources[j].owner
          /\ x.resources[j].expires >= d.resources[j].expires
    BY <1>1 DEF ResourceRows
  <2>3. \A f \in MarkupLocks :
          d.locks[f] \notin {"none", "Waiting", "Held"} =>
            x.locks[f] = d.locks[f]
    BY <1>5 DEF Untouched
  <2> QED BY <2>1, <2>2, <2>3 DEF Keeps
<1>8. Frees(d, x, k)
  BY <1>4, <1>5 DEF Frees
<1>9. ASSUME Ordered(d, t) PROVE Ordered(x, t)
  <2> SUFFICES ASSUME NEW f \in Acquisitions, NEW g \in Acquisitions,
                      x.waiters[f].key = x.waiters[g].key,
                      x.waiters[f].seq < x.waiters[g].seq,
                      x.waiters[g].token > 0
               PROVE  /\ x.waiters[f].token > 0 =>
                           x.waiters[f].token < x.waiters[g].token
                      /\ x.waiters[f].status = "waiting" =>
                           x.waiters[f].deadline < t
    BY DEF Ordered
  <2>1. g # e
    BY <1>4
  <2>2. d.waiters[g] \in WaiterRows
    BY <1>1
  <2>3. f # e
    <3> SUFFICES ASSUME f = e PROVE FALSE
      OBVIOUS
    <3>1. d.waiters[g].key = k /\ d.waiters[g].token > 0
      BY <1>4, <2>1
    <3>2. d.waiters[g].seq < n
      BY <1>3, <3>1
    <3>3. n < d.waiters[g].seq
      BY <1>4, <2>1
    <3> QED BY <1>1, <2>2, <3>2, <3>3 DEF WaiterRows
  <2> QED BY <1>4, <1>9, <2>1, <2>3 DEF Ordered
<1>10. Untouched(x)
  BY <1>4 DEF Untouched, Acquisitions
<1> QED BY <1>6, <1>7, <1>8, <1>9, <1>10 DEF Prepares

(* Releasing the lease of the key's owner, with or without a lock event. *)
LEMMA VacatePrepares ==
  ASSUME NEW d, DbInv(d), NEW e \in Acquisitions, NEW k \in Keys,
         d.resources[k].owner = e, NEW t \in Nat, NEW x \in Databases,
         x.resources = Vacate(d, k, e, "released").resources,
         x.waiters = Vacate(d, k, e, "released").waiters,
         \A f \in MarkupLocks : f # e => x.locks[f] = d.locks[f],
         e \in MarkupLocks => x.locks[e] = "Released"
  PROVE  DbInv(x) /\ Prepares(d, x, k, t)
<1>1. /\ d \in Databases
      /\ "released" \in WaiterStatuses
      /\ "released" \in SettledStatuses
      /\ d.resources \in [Keys -> ResourceRows]
      /\ e # NoOwner
  BY LockAssumption, DbFields DEF DbInv, WaiterStatuses, SettledStatuses
<1>2. /\ d.waiters[e].status = "held"
      /\ d.waiters[e].key = k
      /\ \A j \in Keys : d.resources[j].owner = e <=> j = k
  BY <1>1 DEF DbInv, OwnersConsistent
<1>3. /\ x.resources = Freed(d.resources, k)
      /\ x.waiters = WithStatus(d.waiters, e, "released")
  BY <1>1, VacateFields
<1>4. \A j \in Keys :
        /\ x.resources[j].owner = IF j = k THEN NoOwner
                                  ELSE d.resources[j].owner
        /\ x.resources[j].high = d.resources[j].high
        /\ j # k => x.resources[j] = d.resources[j]
  BY <1>1, <1>3 DEF Freed, FreeRow, ResourceRows
<1>5. Settles(d, x, e, "released")
  BY <1>2, <1>3, <1>4 DEF Settles
<1>6. \A j \in Keys : d.resources[j].owner # e =>
        x.resources[j] = d.resources[j]
  BY <1>2, <1>4
<1> QED BY <1>1, <1>2, <1>5, <1>6, SettleInv, SettlesPrepares

(* The poll of a session: once its key was granted, timing the session out *)
(* leaves the second grant nothing to do.                                  *)
LEMMA PolledTransacts ==
  ASSUME NEW d, DbInv(d), NEW s \in Sessions, NEW t \in Nat
  PROVE  Transacts(d, Polled(d, s, t), d.waiters[s].key, t)
<1> DEFINE k == d.waiters[s].key
           x == Grant(d, k, t)
           y == Settle(x, s, "timed_out")
<1>0. s \in Acquisitions /\ d.waiters \in [Acquisitions -> WaiterRows]
  BY DbFields DEF Acquisitions
<1>1. k \in Keys
  BY <1>0 DEF WaiterRows
<1>2. Polled(d, s, t) = IF Overdue(x, s, t) THEN Grant(y, k, t) ELSE x
  BY DEF Polled
<1> SUFFICES Transacts(d, Polled(d, s, t), k, t)
  OBVIOUS
<1>3. /\ DbInv(x)
      /\ Transacts(d, x, k, t)
      /\ ~OwnerExpired(x, k, t)
      /\ x.waiters[s].key = k
  <2> HIDE DEF k
  <2>1. x.waiters[s].key = d.waiters[s].key
    BY <1>0, <1>1, GrantFrame
  <2> QED BY <1>1, <2>1, GrantInv, DriveTransacts, GrantLive DEF k
<1> HIDE DEF k, x
<1>4. CASE ~Overdue(x, s, t)
  BY <1>2, <1>3, <1>4
<1>5. CASE Overdue(x, s, t)
  <2>1. x.waiters[s].status = "waiting" /\ "timed_out" \in SettledStatuses
    BY <1>5 DEF Overdue, SettledStatuses
  <2>2. /\ DbInv(y)
        /\ Prepares(x, y, k, t)
        /\ y.resources = x.resources
        /\ y.waiters = WithStatus(x.waiters, s, "timed_out")
    BY <1>3, <2>1, SettleSession, SettleSessionInv
  <2> HIDE DEF y
  <2>3. NoneIdle(y, k, t)
    <3>1. "timed_out" \in WaiterStatuses
      BY DEF WaiterStatuses
    <3>2. \A f \in Acquisitions :
            /\ y.waiters[f].status = IF f = s THEN "timed_out"
                                     ELSE x.waiters[f].status
            /\ y.waiters[f].key = x.waiters[f].key
            /\ y.waiters[f].deadline = x.waiters[f].deadline
      <4>1. x.waiters \in [Acquisitions -> WaiterRows]
        BY <1>3, DbFields
      <4> QED BY <1>0, <2>2, <3>1, <4>1, StatusUpdate
    <3>3. Eligible(y, k, t) \subseteq Eligible(x, k, t)
      BY <3>2 DEF Eligible, Queue
    <3>4. NoneIdle(x, k, t)
      BY <1>3 DEF Transacts
    <3> QED BY <2>2, <3>3, <3>4 DEF NoneIdle
  <2>4. ~OwnerExpired(y, k, t)
    BY <1>3, <2>2 DEF OwnerExpired
  <2>5. Polled(d, s, t) = y
    BY <1>1, <1>2, <1>5, <2>3, <2>4, GrantIdle
  <2>6. Keeps(d, y)
    BY <1>3, <2>2, KeepsTransitive DEF Prepares, Transacts
  <2>7. Local(d, y, k)
    BY <1>3, <2>2 DEF Prepares, Transacts, Local
  <2>8. \A f \in Acquisitions : y.waiters[f].token = x.waiters[f].token
    BY <2>2 DEF Prepares, Frees
  <2>9. Frees(d, y, k) \/ HandsOver(d, y, k)
    <3>1. CASE Frees(d, x, k)
      BY <2>2, <2>8, <3>1 DEF Frees
    <3>2. CASE HandsOver(d, x, k)
      BY <2>2, <2>8, <3>2 DEF HandsOver
    <3> QED BY <1>3, <3>1, <3>2 DEF Transacts
  <2>10. Transacts(d, y, k, t)
    BY <1>3, <2>2, <2>3, <2>6, <2>7, <2>9, Zenon DEF Prepares, Transacts
  <2> QED BY <2>5, <2>10
<1> QED BY <1>4, <1>5

-----------------------------------------------------------------------------
(* The actions. *)

(* What a step of the specification does to the tables and histories. *)
TransactsOn(k) == Transacts(Db, Db', k, now) /\ now' = now

(* A transaction that prepares y and grants the key. *)
LEMMA CommitGrantTransacts ==
  ASSUME IInv, NEW k \in Keys, NEW y, DbInv(y), Prepares(Db, y, k, now),
         CommitGrant(y, k), now' = now
  PROVE  TransactsOn(k)
<1>1. DbInv(Db) /\ now \in Nat
  BY StateFacts
<1>2. DbInv(Grant(y, k, now)) /\ Transacts(Db, Grant(y, k, now), k, now)
  BY <1>1, GrantInv, GrantTransacts
<1>3. Db' = Grant(y, k, now)
  BY <1>2, CommitStore DEF CommitGrant
<1> QED BY <1>2, <1>3 DEF TransactsOn

(* A transaction that only drives the queue. *)
LEMMA CommitDriveTransacts ==
  ASSUME IInv, NEW k \in Keys, Commit(Grant(Db, k, now)), now' = now
  PROVE  TransactsOn(k)
<1>1. DbInv(Db) /\ now \in Nat
  BY StateFacts
<1>2. /\ DbInv(Grant(Db, k, now))
      /\ Transacts(Db, Grant(Db, k, now), k, now)
  BY <1>1, GrantInv, DriveTransacts
<1>3. Db' = Grant(Db, k, now)
  BY <1>2, CommitStore
<1> QED BY <1>2, <1>3 DEF TransactsOn

(* Registrations. *)
LEMMA RegistrationTransacts ==
  ASSUME IInv, Untouched(Db), NEW e \in Acquisitions, NEW k \in Keys,
         NEW timeout \in AcquireTimeouts,
         RegisterLockWaiter(e, k, timeout) \/ AcquireProgrammaticLock(e, k, timeout)
  PROVE  TransactsOn(k)
<1>1. PICK x \in Databases, deadline \in Nat :
        /\ Registers(Db, x, e, k, deadline)
        /\ CommitGrant(x, k)
        /\ UNCHANGED <<admitted, now>>
  BY RegistrationShape
<1>2. DbInv(Db) /\ now \in Nat
  BY StateFacts
<1>3. DbInv(x) /\ Prepares(Db, x, k, now)
  BY <1>1, <1>2, EnqueueInv, RegistersPrepares
<1> QED BY <1>1, <1>3, CommitGrantTransacts

(* Releasing a markup lock. *)
LEMMA ReleaseLockTransacts ==
  ASSUME IInv, NEW e \in Acquisitions, ReleaseLock(e)
  PROVE  TransactsOn(waiters[e].key)
<1> DEFINE k == waiters[e].key
           x == Grant(Db, k, now)
           v == Vacate(x, k, e, "released")
           p == LockReleased(x.runs[RunOf[e]])
           y == RecordLockEvent(v, e, "Released", p)
<1>1. /\ e \in MarkupLocks
      /\ locks[e] = "Held"
      /\ Commit(x) \/ (OwnsRow(x, e) /\ CommitGrant(y, k))
      /\ now' = now
  BY DEF ReleaseLock
<1>2. k \in Keys /\ DbInv(Db) /\ now \in Nat
  BY StateFacts
<1>3. x.waiters[e].key = k
  BY <1>2, GrantFrame DEF Db
<1> HIDE DEF k
<1>4. CASE Commit(x)
  <2>1. TransactsOn(k)
    BY <1>1, <1>2, <1>4, CommitDriveTransacts
  <2> QED BY <2>1 DEF k
<1>5. CASE OwnsRow(x, e) /\ CommitGrant(y, k)
  <2>1. x.resources[k].owner = e
    BY <1>3, <1>5 DEF OwnsRow
  <2>2. Db.waiters[e].status # "waiting"
    BY <1>1, <1>2 DEF DbInv, OwnersConsistent, Db
  <2>3. x = Db
    BY <1>2, <2>1, <2>2, GrantKeepsOwner
  <2> HIDE DEF x
  <2>4. /\ Db.resources[k].owner = e
        /\ Db \in Databases
        /\ Db.locks \in [MarkupLocks -> LockStatuses]
        /\ Db.runs \in [Runs -> RunProjections]
        /\ "released" \in WaiterStatuses
        /\ "Released" \in LockStatuses
    BY <1>2, <2>1, <2>3, DbFields DEF DbInv, WaiterStatuses, LockStatuses
  <2>5. p \in RunProjections
    BY <1>1, <2>3, <2>4, FoldType, StateFacts
  <2>6. v \in Databases /\ v.locks = Db.locks
    BY <1>2, <2>3, <2>4, VacateFields
  <2>7. /\ v.resources = Vacate(Db, k, e, "released").resources
        /\ v.waiters = Vacate(Db, k, e, "released").waiters
    BY <2>3
  <2> HIDE DEF p, v
  <2>8. /\ y.resources = v.resources
        /\ y.waiters = v.waiters
        /\ y.locks = [v.locks EXCEPT ![e] = "Released"]
        /\ y \in Databases
    BY <1>1, <2>4, <2>5, <2>6, RecordFields
  <2> HIDE DEF y
  <2>9. DbInv(y) /\ Prepares(Db, y, k, now)
    <3>1. /\ y.locks[e] = "Released"
          /\ \A f \in MarkupLocks : f # e => y.locks[f] = Db.locks[f]
      BY <1>1, <2>4, <2>6, <2>8
    <3> QED BY <1>2, <2>4, <2>7, <2>8, <3>1, VacatePrepares
  <2>10. TransactsOn(k)
    BY <1>1, <1>2, <1>5, <2>9, CommitGrantTransacts
  <2> QED BY <2>10 DEF k
<1> QED BY <1>1, <1>4, <1>5

(* Releasing a session's lease. *)
LEMMA ReleaseProgrammaticTransacts ==
  ASSUME IInv, NEW s \in Acquisitions, ReleaseProgrammaticLock(s)
  PROVE  TransactsOn(waiters[s].key)
<1> DEFINE k == waiters[s].key
           x == Grant(Db, k, now)
           y == Vacate(x, k, s, "released")
<1>1. /\ s \in Sessions
      /\ waiters[s].token > 0
      /\ Commit(x) \/ (x.resources[k].owner = s /\ CommitGrant(y, k))
      /\ now' = now
  BY DEF ReleaseProgrammaticLock
<1>2. k \in Keys /\ DbInv(Db) /\ now \in Nat
  BY StateFacts
<1> HIDE DEF k
<1>3. CASE Commit(x)
  <2>1. TransactsOn(k)
    BY <1>1, <1>2, <1>3, CommitDriveTransacts
  <2> QED BY <2>1 DEF k
<1>4. CASE x.resources[k].owner = s /\ CommitGrant(y, k)
  <2>1. Db.waiters[s].status # "waiting"
    BY <1>1, <1>2 DEF DbInv, TokensConsistent, Db
  <2>2. x = Db
    BY <1>2, <1>4, <2>1, GrantKeepsOwner
  <2> HIDE DEF x
  <2>3. /\ Db.resources[k].owner = s
        /\ Db \in Databases
        /\ "released" \in WaiterStatuses
        /\ s \notin MarkupLocks
    BY <1>1, <1>2, <1>4, <2>2, LockAssumption DEF DbInv, WaiterStatuses
  <2>4. y \in Databases /\ y.locks = Db.locks
    BY <1>2, <2>2, <2>3, VacateFields
  <2>5. DbInv(y) /\ Prepares(Db, y, k, now)
    BY <1>2, <2>2, <2>3, <2>4, VacatePrepares
  <2> HIDE DEF y
  <2>6. TransactsOn(k)
    BY <1>1, <1>2, <1>4, <2>5, CommitGrantTransacts
  <2> QED BY <2>6 DEF k
<1> QED BY <1>1, <1>3, <1>4

(* Deadlines and cancellations of waiting acquisitions. *)
LEMMA SettlementTransacts ==
  ASSUME IInv, NEW e \in Acquisitions,
         \/ TimeoutLockWaiter(e)
         \/ CancelLockWaiter(e)
         \/ CancelProgrammaticWaiter(e)
  PROVE  TransactsOn(waiters[e].key)
<1> DEFINE k == waiters[e].key
           p == LockAcquireTimedOut(runs[RunOf[e]])
           q == LockAcquisitionCancelled(runs[RunOf[e]])
           x == RecordLockEvent(Settle(Db, e, "timed_out"), e,
                                "AcquireTimedOut", p)
           y == RecordLockEvent(Settle(Db, e, "cancelled"), e,
                                "AcquisitionCancelled", q)
           z == Settle(Db, e, "cancelled")
<1>1. /\ now' = now
      /\ waiters[e].status = "waiting"
      /\ \/ e \in MarkupLocks /\ CommitGrant(x, k)
         \/ e \in MarkupLocks /\ CommitGrant(y, k)
         \/ e \in Sessions /\ CommitGrant(z, k)
  BY DEF TimeoutLockWaiter, CancelLockWaiter, CancelProgrammaticWaiter
<1>2. /\ k \in Keys
      /\ DbInv(Db)
      /\ now \in Nat
      /\ Db.waiters[e].status = "waiting"
      /\ Db.waiters[e].key = k
  BY <1>1, StateFacts DEF Db
<1>3. /\ "timed_out" \in SettledStatuses
      /\ "cancelled" \in SettledStatuses
      /\ "AcquireTimedOut" \in LockStatuses \ {"Held", "Waiting"}
      /\ "AcquisitionCancelled" \in LockStatuses \ {"Held", "Waiting"}
  BY DEF SettledStatuses, LockStatuses
<1>4. e \in MarkupLocks => p \in RunProjections /\ q \in RunProjections
  BY StateFacts, FoldType
<1> SUFFICES TransactsOn(k)
  OBVIOUS
<1> HIDE DEF k, p, q
<1>5. CASE e \in MarkupLocks /\ CommitGrant(x, k)
  <2>1. DbInv(x) /\ Prepares(Db, x, k, now)
    BY <1>2, <1>3, <1>4, <1>5, SettleMarkupInv, SettleMarkup
  <2> HIDE DEF x
  <2> QED BY <1>1, <1>2, <1>5, <2>1, CommitGrantTransacts
<1>6. CASE e \in MarkupLocks /\ CommitGrant(y, k)
  <2>1. DbInv(y) /\ Prepares(Db, y, k, now)
    BY <1>2, <1>3, <1>4, <1>6, SettleMarkupInv, SettleMarkup
  <2> HIDE DEF y
  <2> QED BY <1>1, <1>2, <1>6, <2>1, CommitGrantTransacts
<1>7. CASE e \in Sessions /\ CommitGrant(z, k)
  <2>1. DbInv(z) /\ Prepares(Db, z, k, now)
    BY <1>2, <1>3, <1>7, SettleSessionInv, SettleSession
  <2> HIDE DEF z
  <2> QED BY <1>1, <1>2, <1>7, <2>1, CommitGrantTransacts
<1> QED BY <1>1, <1>5, <1>6, <1>7

(* A renewal moves the expiry of the key's owner forward and nothing else. *)
LEMMA ExtendTransacts ==
  ASSUME IInv, NEW k \in Keys, resources[k].owner # NoOwner,
         Commit(Extend(Db, k)), now' = now
  PROVE  TransactsOn(k)
<1> DEFINE n == Larger(now + Lease, resources[k].expires)
<1>1. n \in Nat /\ n >= resources[k].expires
  BY StateFacts, BoundAssumption DEF ResourceRows, Larger
<1>2. /\ resources' = [resources EXCEPT ![k].expires = n]
      /\ waiters' = waiters
      /\ locks' = locks
  BY DEF Extend, Db, Commit
<1> HIDE DEF n
<1>3. /\ \A j \in Keys : j # k => resources'[j] = resources[j]
      /\ resources'[k].owner = resources[k].owner
      /\ resources'[k].high = resources[k].high
      /\ resources'[k].expires = n
  BY <1>2, StateFacts DEF ResourceRows
<1>4. /\ Db'.resources = resources' /\ Db.resources = resources
      /\ Db'.waiters = waiters /\ Db.waiters = waiters
      /\ Db'.locks = locks /\ Db.locks = locks
  BY <1>2 DEF Db
<1>5. Local(Db, Db', k)
  BY <1>3, <1>4 DEF Local
<1>6. Keeps(Db, Db')
  <2>1. \A j \in Keys : Db.resources[j].owner # NoOwner =>
          /\ Db'.resources[j].owner = Db.resources[j].owner
          /\ Db'.resources[j].expires >= Db.resources[j].expires
    BY <1>1, <1>3, <1>4, StateFacts DEF ResourceRows
  <2> QED BY <1>4, <2>1 DEF Keeps
<1>7. Ordered(Db, now) => Ordered(Db', now)
  BY <1>4 DEF Ordered
<1>8. Untouched(Db) => Untouched(Db')
  BY <1>4 DEF Untouched
<1>9. Frees(Db, Db', k)
  BY <1>3, <1>4 DEF Frees
<1>10. NoneIdle(Db', k, now)
  BY <1>3, <1>4 DEF NoneIdle
<1> QED BY <1>5, <1>6, <1>7, <1>8, <1>9, <1>10 DEF Transacts, TransactsOn

(* Renewals of either kind. *)
LEMMA RenewTransacts ==
  ASSUME IInv, NEW e \in Acquisitions,
         RenewLockLease(e) \/ RenewProgrammaticLock(e)
  PROVE  TransactsOn(waiters[e].key)
<1> DEFINE k == waiters[e].key
<1>1. k \in Keys /\ e # NoOwner
  BY StateFacts, LockAssumption
<1>2. /\ now' = now
      /\ CommitGrant(Db, k) \/ Commit(Extend(Db, k))
  BY DEF RenewLockLease, RenewProgrammaticLock
<1>3. resources[k].owner = e
  BY DEF RenewLockLease, RenewProgrammaticLock, OwnsRow, Db
<1> SUFFICES TransactsOn(k)
  OBVIOUS
<1> HIDE DEF k
<1> QED BY <1>1, <1>2, <1>3, CommitDriveTransacts, ExtendTransacts
        DEF CommitGrant

(* Every lock operation is a transaction on one key or an effect that was  *)
(* admitted without touching the store.                                    *)
LEMMA LockStepShape ==
  ASSUME IInv, Untouched(Db), NEW e \in Acquisitions, LockStep(e)
  PROVE  \/ \E k \in Keys : TransactsOn(k)
         \/ UNCHANGED <<resources, waiters, locks, now>>
<1>1. waiters[e].key \in Keys /\ DbInv(Db) /\ now \in Nat
  BY StateFacts
<1>2. ASSUME NEW k \in Keys, NEW w \in AcquireTimeouts,
             RegisterLockWaiter(e, k, w) \/ AcquireProgrammaticLock(e, k, w)
      PROVE  TransactsOn(k)
  BY <1>2, RegistrationTransacts
<1>3. CASE ReattachSession(e)
  BY <1>1, <1>3, CommitDriveTransacts DEF ReattachSession, CommitGrant
<1>4. CASE ReleaseLock(e)
  BY <1>1, <1>4, ReleaseLockTransacts
<1>5. CASE ReleaseProgrammaticLock(e)
  BY <1>1, <1>5, ReleaseProgrammaticTransacts
<1>6. CASE RenewLockLease(e) \/ RenewProgrammaticLock(e)
  BY <1>1, <1>6, RenewTransacts
<1>7. CASE AdmitManagedEffect(e)
  <2>1. /\ now' = now
        /\ \/ Commit(Grant(Db, waiters[e].key, now))
           \/ UNCHANGED <<resources, waiters, locks, now>>
    BY <1>7 DEF AdmitManagedEffect, CommitGrant
  <2> QED BY <1>1, <2>1, CommitDriveTransacts
<1>8. CASE PollProgrammaticLock(e) \/ AdmitSessionEffect(e)
  <2>1. /\ e \in Sessions
        /\ now' = now
        /\ Commit(Polled(Db, e, now))
        /\ Db.waiters[e].key = waiters[e].key
    BY <1>8 DEF PollProgrammaticLock, AdmitSessionEffect, Db
  <2>2. /\ DbInv(Polled(Db, e, now))
        /\ Transacts(Db, Polled(Db, e, now), waiters[e].key, now)
    BY <1>1, <2>1, PolledInv, PolledTransacts
  <2>3. Db' = Polled(Db, e, now)
    BY <2>1, <2>2, CommitStore
  <2> QED BY <1>1, <2>1, <2>2, <2>3 DEF TransactsOn
<1>9. CASE TimeoutLockWaiter(e) \/ CancelLockWaiter(e)
           \/ CancelProgrammaticWaiter(e)
  BY <1>1, <1>9, SettlementTransacts
<1> QED BY <1>2, <1>3, <1>4, <1>5, <1>6, <1>7, <1>8, <1>9 DEF LockStep

(* What a step that is no backup and no restore adds to the observers. *)
Recorded ==
  /\ told \subseteq told'
  /\ told' \subseteq told \cup Grants(Db')
  /\ UNCHANGED <<backup, restores, forgotten>>

(* Every step of the specification. *)
LEMMA StepShape ==
  ASSUME IInv, Untouched(Db), [Next]_vars
  PROVE  \/ \E k \in Keys : TransactsOn(k) /\ Recorded
         \/ RestoreBackup
         \/ TakeBackup
         \/ /\ UNCHANGED <<resources, waiters, locks>>
            /\ now' \in {now, now + 1}
            /\ Recorded
         \/ UNCHANGED <<resources, waiters, locks>> /\ ClockRollback /\ Recorded
<1>0. Remember => Recorded
  BY DEF Remember, Recorded
<1>1. CASE UNCHANGED vars
  BY <1>1 DEF vars, Recorded
<1>2. ASSUME NEW r \in Runs, RunStep(r)
      PROVE  UNCHANGED <<resources, waiters, locks, now>>
  BY <1>2 DEF RunStep, RequestRunCancellation, SettleRunTimeout,
              DecideRunSucceeded, DecideRunFailed, DecideRunCancelled,
              FinalizeRun, SetRun
<1>3. Tick => UNCHANGED <<resources, waiters, locks>> /\ now' = now + 1
  BY DEF Tick
<1>4. ClockRollback => UNCHANGED <<resources, waiters, locks>>
  BY DEF ClockRollback
<1>5. ASSUME NEW e \in Acquisitions, LockStep(e)
      PROVE  \/ \E k \in Keys : TransactsOn(k)
             \/ UNCHANGED <<resources, waiters, locks, now>>
  BY <1>5, LockStepShape
<1>6. CASE StoreStep /\ Remember
  <2>1. Recorded
    BY <1>0, <1>6
  <2> HIDE DEF Recorded
  <2>2. \/ \E k \in Keys : TransactsOn(k)
        \/ UNCHANGED <<resources, waiters, locks>> /\ now' \in {now, now + 1}
        \/ UNCHANGED <<resources, waiters, locks>> /\ ClockRollback
    BY <1>2, <1>3, <1>4, <1>5, <1>6 DEF StoreStep
  <2> QED BY <2>1, <2>2
<1> QED BY <1>1, <1>6 DEF Next

-----------------------------------------------------------------------------
(* The theorems. *)

HInv == IInv /\ HistoryInv /\ Untouched(Db) /\ Untouched(backup)

(* The store after a restore, in terms of the backup. *)
LEMMA RestoreKeeps ==
  ASSUME HistoryInv, RestoreBackup
  PROVE  /\ locks' = backup.locks
         /\ now' = now /\ backup' = backup /\ told' = told
         /\ \A e \in Acquisitions :
              /\ waiters'[e].key = backup.waiters[e].key
              /\ waiters'[e].seq = backup.waiters[e].seq
              /\ waiters'[e].deadline = backup.waiters[e].deadline
              /\ waiters'[e].token = backup.waiters[e].token
              /\ waiters'[e].status = IF backup.waiters[e].status = "held"
                                      THEN "lost" ELSE backup.waiters[e].status
         /\ \A k \in Keys :
              /\ resources'[k].owner = NoOwner
              /\ resources'[k].high = backup.resources[k].high
<1>0. PICK x : x = Restored(backup)
  OBVIOUS
<1>1. DbInv(backup)
  BY DEF HistoryInv
<1>2. /\ locks' = x.locks /\ waiters' = x.waiters /\ resources' = x.resources
      /\ now' = now /\ backup' = backup /\ told' = told
  BY <1>0 DEF RestoreBackup, Commit
<1> QED BY <1>0, <1>1, <1>2, RestoredFields

(* Only a restore takes back a record. *)
LEMMA StepKeeps ==
  ASSUME HInv, [Next]_vars
  PROVE  /\ HInv'
         /\ restores' = restores => Keeps(Db, Db')
<1>1. IInv' /\ IInv /\ HistoryInv /\ HistoryInv'
      /\ Untouched(Db) /\ Untouched(backup)
  BY StepInv DEF HInv
<1>2. CASE \E k \in Keys : TransactsOn(k) /\ Recorded
  <2>1. Keeps(Db, Db') /\ Untouched(Db') /\ backup' = backup
    BY <1>1, <1>2 DEF TransactsOn, Transacts, Recorded
  <2> QED BY <1>1, <2>1 DEF HInv
<1>3. CASE RestoreBackup
  <2>1. restores' # restores
    BY <1>1, <1>3, BoundAssumption DEF RestoreBackup, HistoryInv
  <2>2. Untouched(Db')
    <3>1. /\ Db'.waiters = waiters' /\ Db'.locks = locks'
      BY DEF Db
    <3>2. \A e \in MarkupLocks : waiters'[e].status = "none" =>
            backup.waiters[e].status = "none"
      BY <1>1, <1>3, RestoreKeeps DEF Acquisitions
    <3>3. locks' = backup.locks
      BY <1>1, <1>3, RestoreKeeps
    <3> QED BY <1>1, <3>1, <3>2, <3>3 DEF Untouched
  <2>3. backup' = backup
    BY <1>3 DEF RestoreBackup
  <2> QED BY <1>1, <2>1, <2>2, <2>3 DEF HInv
<1>4. CASE UNCHANGED <<resources, waiters, locks>> /\ backup' \in {backup, Db}
  <2>1. /\ Db'.resources = Db.resources
        /\ Db'.waiters = Db.waiters
        /\ Db'.locks = Db.locks
    BY <1>4 DEF Db
  <2>2. Db.resources \in [Keys -> ResourceRows]
    BY <1>1, DbFields, StateFacts
  <2>3. Keeps(Db, Db')
    BY <2>1, <2>2 DEF Keeps, ResourceRows
  <2>4. Untouched(Db')
    BY <1>1, <2>1 DEF Untouched
  <2>5. Untouched(backup')
    BY <1>1, <1>4
  <2> QED BY <1>1, <2>3, <2>4, <2>5 DEF HInv
<1>5. CASE TakeBackup
  <2>1. UNCHANGED <<resources, waiters, locks>> /\ backup' = Db
    BY <1>5 DEF TakeBackup
  <2> QED BY <1>4, <2>1
<1>6. CASE UNCHANGED <<resources, waiters, locks>> /\ Recorded
  BY <1>4, <1>6 DEF Recorded
<1> QED BY <1>1, <1>2, <1>3, <1>5, <1>6, StepShape

(* The store starts with no lock event. *)
LEMMA InitH ==
  ASSUME Init
  PROVE  HInv
<1>1. IInv /\ HistoryInv
  BY InitInv
<1>2. Untouched(Db) /\ backup = Db
  BY DEF Init, Untouched, Db
<1> QED BY <1>1, <1>2 DEF HInv

(* The invariant the theorems below start from. *)
THEOREM HandoverInvariance == Spec => []HInv
<1>1. Init => HInv
  BY InitH
<1>2. HInv /\ [Next]_vars => HInv'
  BY StepKeeps
<1> QED BY <1>1, <1>2, PTL DEF Spec

(* Exactly one terminal outcome of an acquisition wins and a lease that    *)
(* stays with its owner is never shortened, for any number of runs and     *)
(* whatever the clock does.                                                *)
THEOREM RecordsAreFinal == Spec => RecordsStand
<1> DEFINE A ==
      /\ \A e \in Acquisitions :
           waiters[e].status \in SettledStatuses => waiters'[e] = waiters[e]
      /\ \A e \in MarkupLocks :
           locks[e] \notin {"none", "Waiting", "Held"} => locks'[e] = locks[e]
      /\ \A k \in Keys :
           resources[k].owner # NoOwner /\ resources'[k].owner = resources[k].owner
             => resources'[k].expires >= resources[k].expires
<1>1. HInv /\ [Next]_vars => [restores' = restores => A]_vars
  <2> SUFFICES ASSUME HInv, [Next]_vars, restores' = restores PROVE A
    OBVIOUS
  <2>1. Keeps(Db, Db') /\ HInv'
    BY StepKeeps
  <2>2. /\ Db'.resources = resources' /\ Db.resources = resources
        /\ Db'.waiters = waiters' /\ Db.waiters = waiters
        /\ Db'.locks = locks' /\ Db.locks = locks
    BY DEF Db
  <2>3. ASSUME NEW k \in Keys, resources[k].owner # NoOwner,
               resources'[k].owner = resources[k].owner
        PROVE  resources'[k].expires >= resources[k].expires
    <3>1. waiters'[resources[k].owner].status = "held"
      <4>1. OwnersConsistent(Db')
        BY <2>1 DEF HInv, IInv, DbInv
      <4> QED BY <2>2, <2>3, <4>1 DEF OwnersConsistent
    <3>2. "held" \notin SettledStatuses
      BY DEF SettledStatuses
    <3> QED BY <2>1, <2>2, <2>3, <3>1, <3>2 DEF Keeps
  <2> QED BY <2>1, <2>2, <2>3 DEF Keeps
<1> HIDE DEF A
<1>2. Spec => [][restores' = restores => A]_vars
  BY <1>1, HandoverInvariance, PTL DEF Spec
<1> QED BY <1>2 DEF A, RecordsStand

(* While the wall clock is not set back, leases of a key go out in         *)
(* registration order: a waiter that was overtaken is past its deadline    *)
(* and stays so.                                                           *)
THEOREM GrantsInOrder == MaxRollback = 0 => (Spec => []GrantOrder)
<1> SUFFICES ASSUME MaxRollback = 0 PROVE Spec => []GrantOrder
  OBVIOUS
<1> DEFINE Inv == Ordered(Db, now) /\ Ordered(backup, now)
<1>1. Init => Inv
  BY DEF Init, Ordered, Db
<1>2. HInv /\ Inv /\ [Next]_vars => Inv'
  <2> SUFFICES ASSUME HInv, Inv, [Next]_vars
               PROVE  Ordered(Db', now') /\ Ordered(backup', now')
    OBVIOUS
  <2>0. /\ IInv /\ HistoryInv
        /\ now \in Nat
        /\ waiters \in [Acquisitions -> WaiterRows]
        /\ backup.waiters \in [Acquisitions -> WaiterRows]
    BY StateFacts, DbFields DEF HInv, HistoryInv
  <2>1. CASE \E k \in Keys : TransactsOn(k) /\ Recorded
    BY <2>1 DEF TransactsOn, Transacts, Recorded
  <2>2. CASE RestoreBackup
    <3>1. Db'.waiters = waiters'
      BY DEF Db
    <3>2. \A e \in Acquisitions :
            /\ waiters'[e].key = backup.waiters[e].key
            /\ waiters'[e].seq = backup.waiters[e].seq
            /\ waiters'[e].deadline = backup.waiters[e].deadline
            /\ waiters'[e].token = backup.waiters[e].token
            /\ waiters'[e].status = "waiting" =>
                 backup.waiters[e].status = "waiting"
      BY <2>0, <2>2, RestoreKeeps
    <3>3. now' = now /\ backup' = backup
      BY <2>2 DEF RestoreBackup
    <3>4. Ordered(Db', now)
      BY <3>1, <3>2 DEF Ordered
    <3> QED BY <3>3, <3>4
  <2>3. CASE /\ UNCHANGED <<resources, waiters, locks>>
             /\ now' \in {now, now + 1}
             /\ Recorded
    <3>1. Db'.waiters = waiters /\ Db.waiters = waiters /\ backup' = backup
      BY <2>3 DEF Db, Recorded
    <3>2. \A e \in Acquisitions :
            /\ waiters[e].deadline < now => waiters[e].deadline < now'
            /\ backup.waiters[e].deadline < now =>
                 backup.waiters[e].deadline < now'
      BY <2>0, <2>3 DEF WaiterRows
    <3> QED BY <3>1, <3>2 DEF Ordered
  <2>4. CASE ClockRollback
    BY <2>0, <2>4, BoundAssumption DEF ClockRollback
  <2>5. CASE TakeBackup
    <3>1. Db' = Db /\ backup' = Db /\ now' = now
      BY <2>5 DEF TakeBackup, Db
    <3> QED BY <3>1
  <2> QED BY <2>1, <2>2, <2>3, <2>4, <2>5, StepShape DEF HInv
<1>3. Inv => GrantOrder
  BY DEF Ordered, GrantOrder, Db
<1> HIDE DEF Inv
<1> QED BY <1>1, <1>2, <1>3, HandoverInvariance, PTL DEF Spec

(* While the wall clock is not set back and no backup is restored, no      *)
(* transaction leaves a key idle that somebody may still be granted.       *)
THEOREM NoKeyIdles ==
  MaxRollback = 0 /\ MaxRestores = 0 => (Spec => []NoLostWakeup)
<1> SUFFICES ASSUME MaxRollback = 0, MaxRestores = 0
             PROVE  Spec => []NoLostWakeup
  OBVIOUS
<1>1. Init => NoLostWakeup
  BY DEF Init, NoLostWakeup, Eligible, Queue, Db
<1>2. HInv /\ NoLostWakeup /\ [Next]_vars => NoLostWakeup'
  <2> SUFFICES ASSUME HInv, NoLostWakeup, [Next]_vars, NEW j \in Keys,
                      resources'[j].owner = NoOwner
               PROVE  Eligible(Db', j, now') = {}
    BY DEF NoLostWakeup
  <2>0. /\ IInv
        /\ now \in Nat
        /\ waiters \in [Acquisitions -> WaiterRows]
        /\ resources[j].owner = NoOwner => Eligible(Db, j, now) = {}
        /\ Db'.resources = resources' /\ Db.resources = resources
        /\ Db'.waiters = waiters' /\ Db.waiters = waiters
    BY StateFacts DEF HInv, NoLostWakeup, Db
  <2>1. ASSUME NEW k \in Keys, TransactsOn(k)
        PROVE  Eligible(Db', j, now') = {}
    <3>1. CASE j = k
      BY <2>0, <2>1, <3>1 DEF TransactsOn, Transacts, NoneIdle
    <3>2. CASE j # k
      <4>1. resources[j].owner = NoOwner
        BY <2>0, <2>1, <3>2 DEF TransactsOn, Transacts, Local
      <4>2. \A e \in Acquisitions :
              waiters'[e].key = j => waiters'[e] = waiters[e]
        BY <2>0, <2>1, <3>2 DEF TransactsOn, Transacts, Local
      <4>3. Eligible(Db', j, now') \subseteq Eligible(Db, j, now)
        BY <2>0, <2>1, <4>2 DEF Eligible, Queue, TransactsOn
      <4> QED BY <2>0, <4>1, <4>3
    <3> QED BY <3>1, <3>2
  <2>2. CASE RestoreBackup \/ TakeBackup
    BY <2>2 DEF RestoreBackup, TakeBackup, HInv, HistoryInv
  <2>3. CASE UNCHANGED <<resources, waiters, locks>> /\ now' \in {now, now + 1}
    <3>1. \A e \in Acquisitions :
            waiters[e].deadline >= now' => waiters[e].deadline >= now
      BY <2>0, <2>3 DEF WaiterRows
    <3>2. Eligible(Db', j, now') \subseteq Eligible(Db, j, now)
      BY <2>0, <2>3, <3>1 DEF Eligible, Queue
    <3> QED BY <2>0, <2>3, <3>2
  <2>4. CASE ClockRollback
    BY <2>0, <2>4, BoundAssumption DEF ClockRollback
  <2> QED BY <2>1, <2>2, <2>3, <2>4, StepShape DEF HInv
<1> QED BY <1>1, <1>2, HandoverInvariance, PTL DEF Spec

-----------------------------------------------------------------------------
(* Fencing tokens across backups. *)

(* The store x continues the backup d: its high waters did not fall, and   *)
(* what it granted that the backup does not know lies above them.          *)
Continues(d, x) ==
  /\ \A k \in Keys : d.resources[k].high <= x.resources[k].high
  /\ \A e \in Acquisitions : x.waiters[e].token > 0 =>
       \/ /\ d.waiters[e].token = x.waiters[e].token
          /\ d.waiters[e].key = x.waiters[e].key
       \/ x.waiters[e].token > d.resources[x.waiters[e].key].high

(* Every grant ever told is one the store remembers or one it lost. *)
ToldInv ==
  /\ Continues(backup, Db)
  /\ \A g \in told : g \in Grants(Db) \/ g.token \in forgotten[g.key]

(* A transaction leaves the key and the token of a granted row alone. *)
LEMMA GrantedRowsStay ==
  ASSUME NEW d, DbInv(d), NEW x, DbInv(x), NEW k \in Keys, NEW t,
         Transacts(d, x, k, t), NEW e \in Acquisitions,
         d.waiters[e].token > 0
  PROVE  /\ x.waiters[e].token = d.waiters[e].token
         /\ x.waiters[e].key = d.waiters[e].key
<1>0. /\ d.waiters[e] \in WaiterRows
      /\ OwnersConsistent(d) /\ OwnersConsistent(x) /\ TokensConsistent(d)
      /\ Local(d, x, k) /\ Keeps(d, x)
      /\ Frees(d, x, k) \/ HandsOver(d, x, k)
  BY DbFields DEF DbInv, Transacts
<1>1. x.waiters[e].token = d.waiters[e].token
  BY <1>0 DEF Frees, HandsOver
<1>2. d.waiters[e].status \in SettledStatuses \cup {"held"}
  BY <1>0 DEF TokensConsistent, WaiterRows, WaiterStatuses, SettledStatuses
<1>3. CASE d.waiters[e].status \in SettledStatuses
  BY <1>0, <1>1, <1>3 DEF Keeps
<1>4. CASE d.waiters[e].status = "held"
  <2>1. d.resources[d.waiters[e].key].owner = e /\ d.waiters[e].key \in Keys
    BY <1>0, <1>4 DEF OwnersConsistent, WaiterRows
  <2>2. CASE d.waiters[e].key = k
    BY <1>0, <1>1, <2>2 DEF Local
  <2>3. CASE d.waiters[e].key # k
    <3>1. x.resources[d.waiters[e].key].owner = e
      BY <1>0, <2>1, <2>3 DEF Local
    <3>2. e # NoOwner
      BY LockAssumption
    <3> QED BY <1>0, <1>1, <2>1, <3>1, <3>2 DEF OwnersConsistent
  <2> QED BY <2>2, <2>3
<1> QED BY <1>2, <1>3, <1>4

(* A granted row is a grant. *)
LEMMA GrantOfRow ==
  ASSUME NEW d, NEW g
  PROVE  g \in Grants(d) <=>
           \E e \in Acquisitions :
             /\ d.waiters[e].token > 0
             /\ g = [key |-> d.waiters[e].key, token |-> d.waiters[e].token,
                     holder |-> e]
BY DEF Grants

(* A transaction continues the backup the store continued, and remembers   *)
(* every grant the store remembered.                                       *)
LEMMA TransactionContinues ==
  ASSUME NEW b, DbInv(b), NEW d, DbInv(d), NEW x, DbInv(x), NEW k \in Keys,
         NEW t, Transacts(d, x, k, t), Continues(b, d)
  PROVE  Continues(b, x) /\ Grants(d) \subseteq Grants(x)
<1>0. /\ OwnersConsistent(x)
      /\ Local(d, x, k)
      /\ Frees(d, x, k) \/ HandsOver(d, x, k)
  BY DEF DbInv, Transacts
<1>1. /\ \A j \in Keys : b.resources[j].high \in Nat
                         /\ d.resources[j].high \in Nat
                         /\ x.resources[j].high \in Nat
      /\ \A e \in Acquisitions : /\ d.waiters[e].token \in Nat
                                 /\ x.waiters[e].token \in Nat
                                 /\ d.waiters[e].key \in Keys
  BY DbFields DEF ResourceRows, WaiterRows
<1>2. ASSUME NEW e \in Acquisitions, d.waiters[e].token > 0
      PROVE  /\ x.waiters[e].token = d.waiters[e].token
             /\ x.waiters[e].key = d.waiters[e].key
  BY <1>2, GrantedRowsStay
<1>3. Grants(d) \subseteq Grants(x)
  <2> SUFFICES ASSUME NEW g \in Grants(d) PROVE g \in Grants(x)
    OBVIOUS
  <2>1. PICK e \in Acquisitions :
          /\ d.waiters[e].token > 0
          /\ g = [key |-> d.waiters[e].key, token |-> d.waiters[e].token,
                  holder |-> e]
    BY GrantOfRow
  <2> QED BY <1>2, <2>1, GrantOfRow
<1>4. \A j \in Keys : d.resources[j].high <= x.resources[j].high
  <2>1. CASE Frees(d, x, k)
    BY <1>1, <2>1 DEF Frees
  <2>2. CASE HandsOver(d, x, k)
    <3>1. x.resources[k].high = d.resources[k].high + 1
      BY <2>2 DEF HandsOver
    <3> QED BY <1>0, <1>1, <3>1 DEF Local
  <2> QED BY <1>0, <2>1, <2>2
<1>5. \A j \in Keys : b.resources[j].high <= x.resources[j].high
  BY <1>1, <1>4 DEF Continues
<1>6. ASSUME NEW e \in Acquisitions, x.waiters[e].token > 0
      PROVE  \/ /\ b.waiters[e].token = x.waiters[e].token
                /\ b.waiters[e].key = x.waiters[e].key
             \/ x.waiters[e].token > b.resources[x.waiters[e].key].high
  <2>1. CASE d.waiters[e].token > 0
    BY <1>2, <2>1 DEF Continues
  <2>2. CASE ~(d.waiters[e].token > 0)
    <3>1. x.waiters[e].token # d.waiters[e].token
      BY <1>6, <2>2
    <3>2. /\ x.waiters[e].token = d.resources[k].high + 1
          /\ x.resources[k].owner = e
      BY <1>0, <3>1 DEF Frees, HandsOver
    <3>3. x.waiters[e].key = k
      <4>1. e # NoOwner
        BY LockAssumption
      <4> QED BY <1>0, <3>2, <4>1 DEF OwnersConsistent
    <3>4. b.resources[k].high <= d.resources[k].high
      BY DEF Continues
    <3> QED BY <1>1, <3>2, <3>3, <3>4
  <2> QED BY <2>1, <2>2
<1> QED BY <1>3, <1>5, <1>6 DEF Continues

(* The same store, seen as its own backup. *)
LEMMA ContinuesSelf ==
  ASSUME NEW d, DbInv(d), NEW x,
         \A k \in Keys : x.resources[k].high = d.resources[k].high,
         \A e \in Acquisitions : /\ x.waiters[e].token = d.waiters[e].token
                                 /\ x.waiters[e].key = d.waiters[e].key
  PROVE  Continues(d, x) /\ Grants(x) = Grants(d)
<1>1. \A k \in Keys : d.resources[k].high \in Nat
  BY DbFields DEF ResourceRows
<1>2. Continues(d, x)
  BY <1>1 DEF Continues
<1>3. Grants(x) = Grants(d)
  BY GrantOfRow
<1> QED BY <1>2, <1>3

(* Every step keeps the record of the grants. *)
LEMMA StepTold ==
  ASSUME HInv, ToldInv, [Next]_vars
  PROVE  ToldInv'
<1>0. /\ IInv /\ HistoryInv /\ DbInv(Db) /\ DbInv(backup) /\ IInv'
      /\ Untouched(Db)
  BY StepInv DEF HInv, IInv, HistoryInv
<1>1. DbInv(Db')
  BY <1>0 DEF IInv
<1>2. ASSUME Continues(backup', Db'), Grants(Db) \subseteq Grants(Db'), Recorded
      PROVE  ToldInv'
  <2>1. ASSUME NEW g \in told'
        PROVE  g \in Grants(Db') \/ g.token \in forgotten'[g.key]
    <3>1. CASE g \in told
      BY <1>2, <3>1 DEF ToldInv, Recorded
    <3>2. CASE g \in Grants(Db')
      BY <3>2
    <3> QED BY <1>2, <2>1, <3>1, <3>2 DEF Recorded
  <2> QED BY <1>2, <2>1 DEF ToldInv
<1>3. ASSUME NEW k \in Keys, TransactsOn(k), Recorded
      PROVE  ToldInv'
  <2>1. Transacts(Db, Db', k, now) /\ backup' = backup
    BY <1>3 DEF TransactsOn, Recorded
  <2>2. Continues(backup, Db') /\ Grants(Db) \subseteq Grants(Db')
    BY <1>0, <1>1, <2>1, TransactionContinues DEF ToldInv
  <2> QED BY <1>2, <1>3, <2>1, <2>2
<1>4. CASE UNCHANGED <<resources, waiters, locks>> /\ Recorded
  <2>1. /\ Db'.resources = Db.resources /\ Db'.waiters = Db.waiters
        /\ backup' = backup
    BY <1>4 DEF Db, Recorded
  <2>2. Continues(backup, Db')
    BY <2>1 DEF ToldInv, Continues
  <2>3. Grants(Db') = Grants(Db)
    BY <2>1 DEF Grants
  <2> QED BY <1>2, <1>4, <2>1, <2>2, <2>3
<1>5. CASE TakeBackup
  <2>1. Db' = Db /\ backup' = Db /\ told' = told /\ forgotten' = forgotten
    BY <1>5 DEF TakeBackup, Db
  <2>2. Continues(Db, Db)
    BY <1>0, ContinuesSelf
  <2> QED BY <2>1, <2>2 DEF ToldInv
<1>6. CASE RestoreBackup
  <2>1. /\ Db'.waiters = waiters' /\ Db'.resources = resources'
        /\ Db.resources = resources
    BY DEF Db
  <2>2. /\ \A k \in Keys : Db'.resources[k].high = backup.resources[k].high
        /\ \A e \in Acquisitions :
             /\ Db'.waiters[e].token = backup.waiters[e].token
             /\ Db'.waiters[e].key = backup.waiters[e].key
        /\ backup' = backup /\ told' = told
    BY <1>0, <1>6, <2>1, RestoreKeeps
  <2>3. Continues(backup', Db') /\ Grants(Db') = Grants(backup)
    BY <1>0, <2>2, ContinuesSelf
  <2>4. forgotten' = [k \in Keys |-> forgotten[k] \cup
          (backup.resources[k].high + 1)..resources[k].high]
    BY <1>6 DEF RestoreBackup
  <2>5. ASSUME NEW g \in told
        PROVE  g \in Grants(backup) \/ g.token \in forgotten'[g.key]
    <3>0. g \in GrantRecords /\ g.key \in Keys
      BY <1>0 DEF HistoryInv, GrantRecords
    <3>1. CASE g.token \in forgotten[g.key]
      BY <2>4, <3>0, <3>1
    <3>2. CASE g \in Grants(Db)
      <4>1. PICK e \in Acquisitions :
              /\ Db.waiters[e].token > 0
              /\ g = [key |-> Db.waiters[e].key, token |-> Db.waiters[e].token,
                      holder |-> e]
        BY <3>2, GrantOfRow
      <4>2. CASE /\ backup.waiters[e].token = Db.waiters[e].token
                 /\ backup.waiters[e].key = Db.waiters[e].key
        BY <4>1, <4>2, GrantOfRow
      <4>3. CASE g.token > backup.resources[g.key].high
        <5>1. g.token <= resources[g.key].high
          BY <1>0, <2>1, <4>1 DEF DbInv, TokensConsistent
        <5>2. /\ g.token \in Nat
              /\ backup.resources[g.key].high \in Nat
              /\ resources[g.key].high \in Nat
          BY <1>0, <3>0, DbFields, StateFacts DEF GrantRecords, ResourceRows
        <5>3. g.token \in (backup.resources[g.key].high + 1)..resources[g.key].high
          BY <4>3, <5>1, <5>2
        <5> QED BY <2>4, <3>0, <5>3
      <4> QED BY <4>1, <4>2, <4>3 DEF ToldInv, Continues
    <3> QED BY <3>1, <3>2 DEF ToldInv
  <2> QED BY <2>2, <2>3, <2>5 DEF ToldInv
<1> QED BY <1>0, <1>3, <1>4, <1>5, <1>6, StepShape

(* A fencing token of a key is told to two acquisitions only when a        *)
(* restored backup did not know of its first grant: the store itself,      *)
(* whatever leases expire and whatever runs interleave, never repeats one. *)
THEOREM FencingUniqueness == Spec => []UniqueTokens
<1>1. Init => ToldInv
  <2> SUFFICES ASSUME Init PROVE ToldInv
    OBVIOUS
  <2>1. DbInv(Db) /\ backup = Db /\ told = {}
    BY InitInv DEF IInv, Init
  <2> QED BY <2>1, ContinuesSelf DEF ToldInv
<1>2. HInv /\ ToldInv /\ [Next]_vars => ToldInv'
  BY StepTold
<1>3. HInv /\ ToldInv => UniqueTokens
  <2> SUFFICES ASSUME HInv, ToldInv PROVE UniqueTokens
    OBVIOUS
  <2>1. TokensConsistent(Db) /\ Db.waiters = waiters /\ Db.resources = resources
    BY DEF HInv, IInv, DbInv, Db
  <2>2. ASSUME NEW g \in told, NEW h \in told, g # h, g.key = h.key,
               g.token = h.token, g.token \notin forgotten[g.key]
        PROVE  FALSE
    <3>1. g \in Grants(Db) /\ h \in Grants(Db)
      BY <2>2 DEF ToldInv
    <3>2. PICK e \in Acquisitions :
            /\ Db.waiters[e].token > 0
            /\ g = [key |-> Db.waiters[e].key, token |-> Db.waiters[e].token,
                    holder |-> e]
      BY <3>1, GrantOfRow
    <3>3. PICK f \in Acquisitions :
            /\ Db.waiters[f].token > 0
            /\ h = [key |-> Db.waiters[f].key, token |-> Db.waiters[f].token,
                    holder |-> f]
      BY <3>1, GrantOfRow
    <3>4. e # f
      BY <2>2, <3>2, <3>3
    <3>5. /\ Db.waiters[e].key = Db.waiters[f].key
          /\ Db.waiters[e].token = Db.waiters[f].token
      BY <2>2, <3>2, <3>3
    <3> QED BY <2>1, <3>2, <3>4, <3>5 DEF TokensConsistent
  <2> QED BY <2>1, <2>2 DEF TokensConsistent, UniqueTokens
<1> QED BY <1>1, <1>2, <1>3, HandoverInvariance, PTL DEF Spec

-----------------------------------------------------------------------------
(* The refinement: holder is the owner column, fence the high water and    *)
(* served the acquisitions that have a token.                              *)

(* A transaction on a key is one step of the abstract lock: the key        *)
(* changes hands once, or it is vacated, or nothing changes.               *)
LEMMA TransactionRefines ==
  ASSUME IInv, NEW k \in Keys, TransactsOn(k), backup' = backup
  PROVE  Abstract!Next
<1>0. /\ resources \in [Keys -> ResourceRows]
      /\ waiters \in [Acquisitions -> WaiterRows]
      /\ Db'.resources = resources' /\ Db.resources = resources
      /\ Db'.waiters = waiters' /\ Db.waiters = waiters
  BY StateFacts DEF Db
<1>1. \A j \in Keys : j # k => resources'[j] = resources[j]
  BY <1>0 DEF TransactsOn, Transacts, Local
<1>4. [fence |-> [j \in Keys |-> backup'.resources[j].high],
       served |-> {e \in Acquisitions : backup'.waiters[e].token > 0}] =
      [fence |-> [j \in Keys |-> backup.resources[j].high],
       served |-> {e \in Acquisitions : backup.waiters[e].token > 0}]
  OBVIOUS
<1>2. CASE Frees(Db, Db', k)
  <2>1. /\ \A j \in Keys : resources'[j].high = resources[j].high
        /\ resources'[k].owner \in {resources[k].owner, NoOwner}
        /\ \A e \in Acquisitions : waiters'[e].token = waiters[e].token
    BY <1>0, <1>2 DEF Frees
  <2>2. PICK K \in SUBSET Keys : \A j \in Keys :
          resources'[j].owner = IF j \in K THEN NoOwner ELSE resources[j].owner
    <3>1. CASE resources'[k].owner = resources[k].owner
      <4>1. \A j \in Keys : resources'[j].owner = resources[j].owner
        BY <1>1, <3>1
      <4> WITNESS {} \in SUBSET Keys
      <4> QED BY <4>1
    <3>2. CASE resources'[k].owner = NoOwner
      <4> WITNESS {k} \in SUBSET Keys
      <4> QED BY <1>1, <3>2
    <3> QED BY <2>1, <3>1, <3>2
  <2>4. [j \in Keys |-> resources'[j].owner] =
        [j \in Keys |-> IF j \in K THEN NoOwner
                        ELSE [i \in Keys |-> resources[i].owner][j]]
    BY <2>2
  <2>5. [j \in Keys |-> resources'[j].high] = [j \in Keys |-> resources[j].high]
    BY <2>1
  <2>6. {e \in Acquisitions : waiters'[e].token > 0} =
        {e \in Acquisitions : waiters[e].token > 0}
    BY <2>1
  <2>7. Abstract!Vacate(K)
    BY <1>4, <2>4, <2>5, <2>6, Zenon DEF Abstract!Vacate
  <2> QED BY <2>7 DEF Abstract!Next
<1>3. CASE HandsOver(Db, Db', k)
  <2>1. PICK h \in Acquisitions :
          /\ waiters[h].token = 0
          /\ waiters'[h].token = resources[k].high + 1
          /\ resources'[k].owner = h
          /\ resources'[k].high = resources[k].high + 1
          /\ \A e \in Acquisitions \ {h} : waiters'[e].token = waiters[e].token
    BY <1>0, <1>3 DEF HandsOver
  <2>2. resources[k].high \in Nat
    BY <1>0 DEF ResourceRows
  <2>3. h \notin {e \in Acquisitions : waiters[e].token > 0}
    BY <2>1
  <2>4. [j \in Keys |-> resources'[j].owner] =
        [[j \in Keys |-> resources[j].owner] EXCEPT ![k] = h]
    BY <1>1, <2>1
  <2>5. [j \in Keys |-> resources'[j].high] =
        [[j \in Keys |-> resources[j].high] EXCEPT ![k] = @ + 1]
    BY <1>1, <2>1
  <2>6. {e \in Acquisitions : waiters'[e].token > 0} =
        {e \in Acquisitions : waiters[e].token > 0} \cup {h}
    BY <2>1, <2>2
  <2>7. Abstract!HandOver(k, h)
    BY <1>4, <2>3, <2>4, <2>5, <2>6, Zenon DEF Abstract!HandOver
  <2> QED BY <2>7 DEF Abstract!Next
<1> QED BY <1>2, <1>3 DEF TransactsOn, Transacts

(* Restoring a backup vacates every key at once and takes the rest back. *)
LEMMA RestoreRefines ==
  ASSUME HistoryInv, RestoreBackup
  PROVE  Abstract!Next
<1>1. /\ \A k \in Keys :
           /\ resources'[k].owner = NoOwner
           /\ resources'[k].high = backup.resources[k].high
      /\ \A e \in Acquisitions : waiters'[e].token = backup.waiters[e].token
      /\ backup' = backup
  BY RestoreKeeps
<1>2. [j \in Keys |-> resources'[j].owner] = [j \in Keys |-> NoOwner]
  BY <1>1
<1>3. [j \in Keys |-> resources'[j].high] =
      [j \in Keys |-> backup.resources[j].high]
  BY <1>1
<1>4. {e \in Acquisitions : waiters'[e].token > 0} =
      {e \in Acquisitions : backup.waiters[e].token > 0}
  BY <1>1
<1>5. Abstract!Restore
  BY <1>1, <1>2, <1>3, <1>4 DEF Abstract!Restore
<1> QED BY <1>5 DEF Abstract!Next

(* Taking a backup is the abstract step of that name. *)
LEMMA TakeBackupRefines ==
  ASSUME TakeBackup
  PROVE  Abstract!Next
<1>1. /\ resources' = resources /\ waiters' = waiters
      /\ backup' = Db
  BY DEF TakeBackup
<1>2. backup'.resources = resources /\ backup'.waiters = waiters
  BY <1>1 DEF Db
<1>3. Abstract!BackUp
  BY <1>1, <1>2 DEF Abstract!BackUp
<1> QED BY <1>3 DEF Abstract!Next

(* The lock tables implement the fenced lock: whatever transactions of     *)
(* whatever runs interleave and whatever the clock does, a key passes from *)
(* holder to holder with consecutive tokens and no acquisition is granted  *)
(* twice; a restore takes back what was handed over since the backup.      *)
THEOREM Refinement == Spec => ImplementsFencedLock
<1>1. Init => Abstract!Init
  BY DEF Init, Abstract!Init, Db
<1>2. HInv /\ [Next]_vars => [Abstract!Next]_(Abstract!abstractVars)
  <2> SUFFICES ASSUME HInv, [Next]_vars
               PROVE  Abstract!Next \/ UNCHANGED Abstract!abstractVars
    OBVIOUS
  <2>1. CASE \E k \in Keys : TransactsOn(k) /\ Recorded
    BY <2>1, TransactionRefines DEF HInv, Recorded
  <2>2. CASE RestoreBackup
    BY <2>2, RestoreRefines DEF HInv
  <2>3. CASE UNCHANGED <<resources, waiters, locks>> /\ Recorded
    BY <2>3 DEF Abstract!abstractVars, Recorded
  <2>4. CASE TakeBackup
    BY <2>4, TakeBackupRefines
  <2> QED BY <2>1, <2>2, <2>3, <2>4, StepShape DEF HInv
<1> QED BY <1>1, <1>2, HandoverInvariance, PTL
        DEF Spec, ImplementsFencedLock, Abstract!Spec

=============================================================================
