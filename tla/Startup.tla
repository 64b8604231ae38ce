------------------------------ MODULE Startup ------------------------------
(***************************************************************************)
(* What happens between power-up and the first connection: homekit_init,   *)
(* crypto_init with its key store, mDNS and the TCP task, on a device that *)
(* the watchdog or the power can reset at any assignment.  An identity     *)
(* stands for what srp_init derives from one salt and one b.  Every draw   *)
(* is any value here; the code's come from rand (random.c:14), which       *)
(* nothing seeds, so that a boot that calls it as often as the one before  *)
(* it draws the same: a later draw's value is never told from an earlier's.*)
(***************************************************************************)
EXTENDS Integers, Sequences

CONSTANTS Identities,    \* what srp_init can draw
          SignKeys,      \* what crypto_sign_keypair can draw
          None

ASSUME NoneAssumption == None \notin Identities \cup SignKeys \cup {"set"}

VARIABLES
  pc,
  used,         \* srp and crypto_keys, by the field they are stored in
  keys,         \* the key store
  storing,      \* crypto_storing
  i,            \* assignments of crypto_storeKeys done
  advertised    \* mDNS answers

vars == <<pc, used, keys, storing, i, advertised>>

SrpFields == {"srp_b", "srp_salt", "srp_v", "srp_B"}
UsedFields == SrpFields \cup {"sign_secret", "clientname", "ltpk"}
Marks == {"instance", "valid0", "valid1"}

\* All of RAM, the key store included, is zero after a reset.
Zeroed == [f \in UsedFields |-> None]
Unmarked == [f \in UsedFields \cup Marks |-> None]

Init ==
  /\ pc = "off"
  /\ used = Zeroed /\ keys = Unmarked
  /\ storing = FALSE /\ i = 0 /\ advertised = FALSE

Reset ==
  /\ pc # "off"
  /\ pc' = "off"
  /\ used' = Zeroed /\ keys' = Unmarked
  /\ storing' = FALSE /\ i' = 0 /\ advertised' = FALSE
----------------------------------------------------------------------------
Valid == \A mark \in Marks : keys[mark] # None

crypto_loadKeys ==
  /\ pc = "off"
  /\ IF Valid
     THEN used' = [f \in UsedFields |-> keys[f]] /\ pc' = "mdns"
     ELSE pc' = "srp" /\ UNCHANGED used
  /\ UNCHANGED <<keys, storing, i, advertised>>

srp_init ==
  /\ pc = "srp"
  /\ \E id \in Identities :
       used' = [f \in UsedFields |-> IF f \in SrpFields THEN id ELSE used[f]]
  /\ pc' = "keypair"
  /\ UNCHANGED <<keys, storing, i, advertised>>

crypto_sign_keypair ==
  /\ pc = "keypair"
  /\ \E key \in SignKeys : used' = [used EXCEPT !["sign_secret"] = key]
  /\ pc' = "schedule"
  /\ UNCHANGED <<keys, storing, i, advertised>>

Scheduled_later == storing
Scheduled == TRUE

crypto_scheduleStoreKeys ==
  /\ pc = "schedule"
  /\ storing' = Scheduled
  /\ i' = 0
  /\ pc' = "store"
  /\ UNCHANGED <<used, keys, advertised>>

\* The assignments of crypto_storeKeys, in order.
Stores_marksFirst ==
  <<"instance", "valid0", "valid1", "srp_b", "srp_salt", "srp_v", "srp_B",
    "sign_secret", "clientname", "ltpk">>
Stores ==
  <<"srp_b", "srp_salt", "srp_v", "srp_B", "sign_secret", "clientname", "ltpk",
    "instance", "valid0", "valid1">>

crypto_storeKeys ==
  /\ pc = "store" /\ storing /\ i < Len(Stores)
  /\ LET f == Stores[i + 1]
     IN keys' = [keys EXCEPT ![f] = IF f \in Marks THEN "set" ELSE used[f]]
  /\ i' = i + 1
  /\ UNCHANGED <<pc, used, storing, advertised>>

StoreEnds ==
  /\ pc = "store" /\ (storing => i = Len(Stores))
  /\ pc' = "mdns"
  /\ UNCHANGED <<used, keys, storing, i, advertised>>

mdns_init ==
  /\ pc = "mdns"
  /\ advertised' = TRUE
  /\ pc' = "task"
  /\ UNCHANGED <<used, keys, storing, i>>

\* From tcp_listen on a controller may connect.
tcp_task_init ==
  /\ pc = "task"
  /\ pc' = "serving"
  /\ UNCHANGED <<used, keys, storing, i, advertised>>

Next ==
  \/ Reset \/ crypto_loadKeys \/ srp_init \/ crypto_sign_keypair
  \/ crypto_scheduleStoreKeys \/ crypto_storeKeys \/ StoreEnds
  \/ mdns_init \/ tcp_task_init

Spec == Init /\ [][Next]_vars
----------------------------------------------------------------------------
(***************************************************************************)
(* The marks are set after everything they vouch for: after no assignment  *)
(* does the store look valid to crypto_loadKeys and lack a field of the    *)
(* identity in use (crypto.c:40, 67-77).  A reset clears the store with    *)
(* the rest of RAM, so no half-filled one is met after it.                 *)
(***************************************************************************)
ValidStoreIsWhole ==
  Valid => \A f \in UsedFields : keys[f] = used[f]

(***************************************************************************)
(* Nothing is advertised and no connection accepted before the identity is *)
(* whole and stored: salt, b, v and B of one srp_init, and a signing key   *)
(* (homekit.c:41-59; crypto.c:24-36).                                      *)
(***************************************************************************)
ServesStoredIdentity ==
  advertised =>
    /\ Valid
    /\ \E id \in Identities : \A f \in SrpFields : used[f] = id
    /\ used["sign_secret"] # None
=============================================================================
