----------------------------- MODULE FencedLock -----------------------------
(***************************************************************************)
(* What the lock service promises (docs/protocols/locks-and-leases-v1.md,  *)
(* "Ownership state machine" and "Fencing guarantee"): at any time a key   *)
(* has at most one holder, an acquisition is given its key at most once,   *)
(* and every hand-over raises the fencing token of the key by one; only a  *)
(* restore takes hand-overs back, those since the last backup.  How        *)
(* waiters queue, when leases expire and what the run histories say is the *)
(* business of LockLeases, which implements this module.                   *)
(***************************************************************************)
EXTENDS Naturals

CONSTANTS Keys, Acquisitions, NoOwner

VARIABLES
  holder,   \* the acquisition that owns a key, or NoOwner
  fence,    \* the token of the last hand-over of a key
  served,   \* the acquisitions that were ever given their key
  saved     \* the fence and served of the last backup

abstractVars == <<holder, fence, served, saved>>

Init ==
  /\ holder = [k \in Keys |-> NoOwner]
  /\ fence = [k \in Keys |-> 0]
  /\ served = {}
  /\ saved = [fence |-> fence, served |-> served]

(* Ownership ends by release or loss. *)
Vacate(K) ==
  /\ holder' = [k \in Keys |-> IF k \in K THEN NoOwner ELSE holder[k]]
  /\ UNCHANGED <<fence, served, saved>>

(* One transaction may end an ownership and hand the key on. *)
HandOver(k, e) ==
  /\ e \notin served
  /\ holder' = [holder EXCEPT ![k] = e]
  /\ fence' = [fence EXCEPT ![k] = @ + 1]
  /\ served' = served \cup {e}
  /\ UNCHANGED saved

BackUp ==
  /\ saved' = [fence |-> fence, served |-> served]
  /\ UNCHANGED <<holder, fence, served>>

(* A restore ends every ownership and goes back to the backup. *)
Restore ==
  /\ holder' = [k \in Keys |-> NoOwner]
  /\ fence' = saved.fence
  /\ served' = saved.served
  /\ UNCHANGED saved

Next ==
  \/ \E K \in SUBSET Keys : Vacate(K)
  \/ \E k \in Keys, e \in Acquisitions : HandOver(k, e)
  \/ BackUp \/ Restore

Spec == Init /\ [][Next]_abstractVars

=============================================================================
