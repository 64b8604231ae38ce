--------------------------- MODULE StartupProofs ---------------------------
(***************************************************************************)
(* Theorems about Startup for whatever identities and signing keys can be  *)
(* drawn, and a reset at any of its steps.                                 *)
(***************************************************************************)
EXTENDS Startup, TLAPS

\* What crypto_storeKeys puts in a field.
Kept(f) == IF f \in Marks THEN "set" ELSE used[f]

\* The store is empty until crypto_storeKeys, which fills it in order.
StoreInv ==
  /\ DOMAIN keys = UsedFields \cup Marks
  /\ pc \in {"off", "srp", "keypair", "schedule"} => keys["valid1"] = None
  /\ pc = "store" =>
       /\ storing /\ i \in 0..Len(Stores)
       /\ \A j \in 1..i : keys[Stores[j]] = Kept(Stores[j])
       /\ i < Len(Stores) => keys["valid1"] = None
  /\ pc \in {"mdns", "task", "serving"} =>
       \A f \in UsedFields \cup Marks : keys[f] = Kept(f)

\* By the time it is stored, the identity is whole.
IdentityInv ==
  /\ DOMAIN used = UsedFields
  /\ pc \notin {"off", "srp"} => \E id \in Identities : \A f \in SrpFields : used[f] = id
  /\ pc \notin {"off", "srp", "keypair"} => used["sign_secret"] \in SignKeys

Steps == {"off", "srp", "keypair", "schedule", "store", "mdns", "task", "serving"}

StartupInv ==
  /\ pc \in Steps
  /\ advertised => pc \in {"task", "serving"}
  /\ StoreInv
  /\ IdentityInv
----------------------------------------------------------------------------
\* Every field is stored, and the mark that is read last is stored last.
LEMMA StoresAll ==
  /\ Len(Stores) = 10
  /\ \A f \in UsedFields \cup Marks : \E j \in 1..10 : Stores[j] = f
  /\ \A j \in 1..10 : Stores[j] \in UsedFields \cup Marks
  /\ \A j \in 1..9 : Stores[j] # "valid1"
<1>1. Len(Stores) = 10
  BY DEF Stores
<1>2. /\ Stores[1] = "srp_b" /\ Stores[2] = "srp_salt" /\ Stores[3] = "srp_v"
      /\ Stores[4] = "srp_B" /\ Stores[5] = "sign_secret" /\ Stores[6] = "clientname"
      /\ Stores[7] = "ltpk" /\ Stores[8] = "instance" /\ Stores[9] = "valid0"
      /\ Stores[10] = "valid1"
  BY DEF Stores
<1>3. UsedFields \cup Marks =
        {"srp_b", "srp_salt", "srp_v", "srp_B", "sign_secret", "clientname", "ltpk",
         "instance", "valid0", "valid1"}
  BY DEF UsedFields, SrpFields, Marks
<1>4. \A j \in 1..10 : j = 1 \/ j = 2 \/ j = 3 \/ j = 4 \/ j = 5 \/ j = 6 \/ j = 7
                       \/ j = 8 \/ j = 9 \/ j = 10
  OBVIOUS
<1> HIDE DEF Stores
<1>5. \A f \in UsedFields \cup Marks : \E j \in 1..10 : Stores[j] = f
  BY <1>2, <1>3
<1>6. \A j \in 1..10 : Stores[j] \in UsedFields \cup Marks
  BY <1>2, <1>3, <1>4
<1>7. \A j \in 1..9 : Stores[j] # "valid1"
  BY <1>2, <1>4
<1> QED BY <1>1, <1>5, <1>6, <1>7

LEMMA StartupInitial == Init => StartupInv
<1> SUFFICES ASSUME Init PROVE StartupInv
  OBVIOUS
<1>1. "valid1" \in UsedFields \cup Marks
  BY DEF Marks
<1> QED BY <1>1 DEF Init, StartupInv, StoreInv, IdentityInv, Steps, Zeroed, Unmarked

LEMMA StartupStep == StartupInv /\ [Next]_vars => StartupInv'
<1> SUFFICES ASSUME StartupInv, [Next]_vars PROVE StartupInv'
  OBVIOUS
<1> USE StoresAll
<1>0. pc \in Steps /\ StoreInv /\ IdentityInv /\ (advertised => pc \in {"task", "serving"})
  BY DEF StartupInv
<1>1. CASE Reset
  <2>1. "valid1" \in UsedFields \cup Marks
    BY DEF Marks
  <2> QED
    BY <1>1, <2>1 DEF Reset, StartupInv, StoreInv, IdentityInv, Steps, Zeroed, Unmarked
<1>2. CASE crypto_loadKeys
  <2>1. ~Valid
    BY <1>0, <1>2 DEF crypto_loadKeys, StoreInv, Valid, Marks
  <2> QED
    BY <1>0, <1>2, <2>1 DEF crypto_loadKeys, StartupInv, StoreInv, IdentityInv, Steps
<1>3. CASE srp_init
  <2>1. PICK id \in Identities :
          used' = [f \in UsedFields |-> IF f \in SrpFields THEN id ELSE used[f]]
    BY <1>3 DEF srp_init
  <2>2. \A f \in SrpFields : used'[f] = id
    BY <2>1 DEF UsedFields
  <2> QED
    BY <1>0, <1>3, <2>1, <2>2 DEF srp_init, StartupInv, StoreInv, IdentityInv, Steps
<1>4. CASE crypto_sign_keypair
  <2>1. PICK key \in SignKeys : used' = [used EXCEPT !["sign_secret"] = key]
    BY <1>4 DEF crypto_sign_keypair
  <2>2. DOMAIN used' = UsedFields /\ used'["sign_secret"] = key
    BY <1>0, <2>1 DEF IdentityInv, UsedFields
  <2>3. \A f \in SrpFields : used'[f] = used[f]
    BY <1>0, <2>1 DEF IdentityInv, UsedFields, SrpFields
  <2> QED
    BY <1>0, <1>4, <2>2, <2>3
    DEF crypto_sign_keypair, StartupInv, StoreInv, IdentityInv, Steps
<1>5. CASE crypto_scheduleStoreKeys
  BY <1>0, <1>5
  DEF crypto_scheduleStoreKeys, Scheduled, StartupInv, StoreInv, IdentityInv, Steps
<1>6. CASE crypto_storeKeys
  <2>1. i \in 0..9 /\ pc = "store" /\ storing
    BY <1>0, <1>6 DEF crypto_storeKeys, StoreInv
  <2>2. keys' = [keys EXCEPT ![Stores[i + 1]] = Kept(Stores[i + 1])]
    BY <1>6 DEF crypto_storeKeys, Kept
  <2>3. Stores[i + 1] \in UsedFields \cup Marks
    BY <2>1
  <2>4. DOMAIN keys' = UsedFields \cup Marks
    BY <1>0, <2>2 DEF StoreInv
  <2>5. \A f : Kept(f)' = Kept(f)
    BY <1>6 DEF crypto_storeKeys, Kept
  <2>6. \A j \in 1..(i + 1) : keys'[Stores[j]] = Kept(Stores[j])
    <3> TAKE j \in 1..(i + 1)
    <3>1. Stores[j] \in DOMAIN keys
      BY <1>0, <2>1 DEF StoreInv
    <3>2. CASE Stores[j] = Stores[i + 1]
      BY <2>2, <3>1, <3>2
    <3>3. CASE Stores[j] # Stores[i + 1]
      <4>1. j \in 1..i
        BY <2>1, <3>3
      <4> QED BY <1>0, <2>1, <2>2, <3>1, <3>3, <4>1 DEF StoreInv
    <3> QED BY <3>2, <3>3
  <2>7. i + 1 < 10 => keys'["valid1"] = None
    <3>1. i + 1 < 10 => Stores[i + 1] # "valid1"
      BY <2>1
    <3>2. "valid1" \in DOMAIN keys
      BY <1>0 DEF StoreInv, Marks
    <3> QED BY <1>0, <2>1, <2>2, <3>1, <3>2 DEF StoreInv
  <2>8. StoreInv'
    <3>1. /\ i' = i + 1 /\ i' \in 0..10 /\ pc' = "store" /\ storing'
      BY <1>6, <2>1 DEF crypto_storeKeys
    <3>2. \A j \in 1..i' : keys'[Stores[j]] = Kept(Stores[j])'
      BY <2>5, <2>6, <3>1
    <3>3. Stores' = Stores
      BY DEF Stores
    <3> QED BY <2>4, <2>7, <3>1, <3>2, <3>3 DEF StoreInv
  <2> QED
    BY <1>0, <1>6, <2>8 DEF crypto_storeKeys, StartupInv, IdentityInv, Steps
<1>7. CASE StoreEnds
  <2>1. pc = "store" /\ i = 10 /\ pc' = "mdns" /\ UNCHANGED <<used, keys, advertised>>
    BY <1>0, <1>7 DEF StoreEnds, StoreInv
  <2>2. \A f \in UsedFields \cup Marks : keys[f] = Kept(f)
    <3> TAKE f \in UsedFields \cup Marks
    <3>1. PICK j \in 1..10 : Stores[j] = f
      OBVIOUS
    <3> QED BY <1>0, <2>1, <3>1 DEF StoreInv
  <2>3. \A f : Kept(f)' = Kept(f)
    BY <2>1 DEF Kept
  <2>4. StoreInv'
    BY <1>0, <2>1, <2>2, <2>3 DEF StoreInv
  <2> QED
    BY <1>0, <2>1, <2>4 DEF StartupInv, IdentityInv, Steps
<1>8. CASE mdns_init \/ tcp_task_init
  <2>1. /\ pc \in {"mdns", "task"} /\ pc' \in {"task", "serving"}
        /\ UNCHANGED <<used, keys, storing, i>>
    BY <1>8 DEF mdns_init, tcp_task_init
  <2>2. \A f : Kept(f)' = Kept(f)
    BY <2>1 DEF Kept
  <2> QED
    BY <1>0, <2>1, <2>2 DEF StartupInv, StoreInv, IdentityInv, Steps
<1>9. CASE UNCHANGED vars
  BY <1>0, <1>9 DEF vars, StartupInv, StoreInv, IdentityInv, Kept, Steps
<1> QED
  BY <1>1, <1>2, <1>3, <1>4, <1>5, <1>6, <1>7, <1>8, <1>9 DEF Next

LEMMA StartupInvariant == Spec => []StartupInv
<1> QED BY StartupInitial, StartupStep, PTL DEF Spec
----------------------------------------------------------------------------
(***************************************************************************)
(* Wherever the device is reset, a store that crypto_loadKeys would accept *)
(* is whole (crypto.c:40, 67-77).                                          *)
(***************************************************************************)
THEOREM StoreIsWhole == Spec => []ValidStoreIsWhole
<1>1. StartupInv => ValidStoreIsWhole
  <2> SUFFICES ASSUME StartupInv, Valid, NEW f \in UsedFields
               PROVE  keys[f] = used[f]
    BY DEF ValidStoreIsWhole
  <2>1. keys["valid1"] # None
    BY DEF Valid, Marks
  <2>2. pc \in {"store", "mdns", "task", "serving"} /\ (pc = "store" => i = 10)
    BY <2>1, StoresAll DEF StartupInv, StoreInv, Steps
  <2>3. keys[f] = Kept(f)
    <3>1. PICK j \in 1..10 : Stores[j] = f
      BY StoresAll
    <3> QED BY <2>2, <3>1, StoresAll DEF StartupInv, StoreInv
  <2>4. f \notin Marks
    BY DEF UsedFields, SrpFields, Marks
  <2> QED BY <2>3, <2>4 DEF Kept
<1> QED BY <1>1, StartupInvariant, PTL

(***************************************************************************)
(* Nothing is advertised before one identity and a signing key are there   *)
(* and stored (homekit.c:41-59; crypto.c:24-36).                           *)
(***************************************************************************)
THEOREM ServesWhatIsStored == Spec => []ServesStoredIdentity
<1>1. StartupInv => ServesStoredIdentity
  <2> SUFFICES ASSUME StartupInv, advertised PROVE ServesStoredIdentity
    BY DEF ServesStoredIdentity
  <2>1. pc \in {"task", "serving"}
    BY DEF StartupInv
  <2>2. Valid
    BY <2>1, NoneAssumption DEF StartupInv, StoreInv, Kept, Valid
  <2>3. used["sign_secret"] # None
    BY <2>1, NoneAssumption DEF StartupInv, IdentityInv
  <2> QED BY <2>1, <2>2, <2>3 DEF ServesStoredIdentity, StartupInv, IdentityInv
<1> QED BY <1>1, StartupInvariant, PTL
=============================================================================
