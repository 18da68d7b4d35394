--------------------------- MODULE ZKUsersProofs ---------------------------
(***************************************************************************)
(* Proofs about ZKUsers: types, and that the slot a write without uid      *)
(* takes is free for as long as the provisos of AutoSlotFree hold.         *)
(***************************************************************************)
EXTENDS ZKUsers, TLAPS

\* Both are preserved together: the slots above next_uid are all free, not
\* just next_uid itself, because the next write goes one further.
UInv == UTypeOK /\ AutoSlotFree

\* get_users leaves next_uid above every slot in use (base.py, next_uid = max_uid).
LEMMA SyncFrees ==
    ASSUME NEW uid \in Nat, NEW badge, Sync(uid, badge)
    PROVE  \A u \in Uids : u >= uid => slots[u] = 0
<1> SUFFICES ASSUME NEW u \in Uids, u >= uid, slots[u] # 0 PROVE FALSE
    OBVIOUS
<1>1. u < uid
    BY DEF Sync
<1> QED BY <1>1, UsersAssumption DEF Uids

LEMMA ListingKeeps ==
    ASSUME UInv, ListUsers, ops' \in Nat, wl10' = wl10
    PROVE  UInv'
<1>1. next_uid' \in Nat \ {0} /\ next_user_id' \in Nat \ {0}
    BY UsersAssumption DEF ListUsers, Listing
<1>2. slots' = slots /\ tracked' = TRUE /\ fresh' = TRUE
    BY DEF ListUsers
<1>3. UTypeOK'
    BY <1>1, <1>2 DEF UInv, UTypeOK, Uids
<1>4. \A u \in Uids : u >= next_uid' => slots[u] = 0
    BY <1>1, SyncFrees DEF ListUsers, Listing
<1> QED BY <1>2, <1>3, <1>4 DEF UInv, AutoSlotFree, Uids

\* A write moves next_uid above its slot when it went there.
LEMMA WriteKeeps ==
    ASSUME UInv, NEW uid, NEW badge \in Nat, Write(uid, badge), ops' \in Nat, wl10' = wl10
    PROVE  UInv'
<1> USE UsersAssumption DEF UInv, UTypeOK, AutoSlotFree, Uids, Write
<1>1. CASE /\ slots' = [slots EXCEPT ![uid] = badge]
           /\ Advance(uid, badge)
           /\ tracked' = (tracked /\ uid <= next_uid)
    <2>1. next_uid' = IF next_uid = uid THEN next_uid + 1 ELSE next_uid
        BY <1>1 DEF Advance
    <2>2. next_user_id' = IF next_user_id = badge THEN next_uid' ELSE next_user_id
        BY <1>1 DEF Advance
    <2>3. UTypeOK'
        <3>1. slots' \in [Uids -> Nat]
            BY <1>1
        <3>2. next_uid' \in Nat \ {0} /\ next_user_id' \in Nat \ {0}
            BY <2>1, <2>2
        <3>3. tracked' \in BOOLEAN
            BY <1>1, Zenon
        <3> QED BY <3>1, <3>2, <3>3
    <2>4. ASSUME tracked', NEW u \in Uids, u >= next_uid' PROVE slots'[u] = 0
        <3>1. tracked /\ uid <= next_uid
            BY <1>1, <2>4
        <3>2. u # uid /\ u >= next_uid
            BY <2>1, <2>4, <3>1
        <3> QED BY <1>1, <3>1, <3>2
    <2> QED BY <2>3, <2>4
<1>2. CASE /\ slots' \in {slots, [slots EXCEPT ![uid] = badge]}
           /\ tracked' = FALSE
           /\ UNCHANGED <<next_uid, next_user_id>>
    BY <1>2
<1> QED BY <1>1, <1>2

\* A delete lowers next_uid by one slot only, the one that became free.
LEMMA DeleteKeeps ==
    ASSUME UTypeOK, NEW uid \in Uids, NEW next \in Nat \ {0},
           \A u \in Uids : u >= next => slots[u] = 0,
           Delete(uid, next)
    PROVE  /\ slots' \in [Uids -> Nat] /\ next_uid' \in Nat \ {0}
           /\ \A u \in Uids : u >= next_uid' => slots'[u] = 0
<1> USE UsersAssumption DEF UTypeOK, Uids
<1>1. CASE slots' = [slots EXCEPT ![uid] = 0] /\ next_uid' = Withdraw(uid, next)
    <2>1. next_uid' = IF uid = next - 1 THEN uid ELSE next
        BY <1>1 DEF Withdraw
    <2>2. slots' \in [Uids -> Nat] /\ next_uid' \in Nat \ {0}
        BY <1>1, <2>1
    <2>3. ASSUME NEW u \in Uids, u >= next_uid' PROVE slots'[u] = 0
        <3>1. u = uid \/ u >= next
            BY <2>1, <2>3
        <3> QED BY <1>1, <3>1
    <2> QED BY <2>2, <2>3
<1>2. CASE slots' \in {slots, [slots EXCEPT ![uid] = 0]} /\ next_uid' = next
    BY <1>2
<1> QED BY <1>1, <1>2 DEF Delete

LEMMA DeleteUserKeeps ==
    ASSUME UInv, DeleteUser, ops' \in Nat, wl10' = wl10
    PROVE  UInv'
<1>1. PICK uid \in Uids : Delete(uid, next_uid)
    BY DEF DeleteUser
<1>2. CASE tracked
    <2>1. /\ slots' \in [Uids -> Nat] /\ next_uid' \in Nat \ {0}
          /\ \A u \in Uids : u >= next_uid' => slots'[u] = 0
        BY <1>1, <1>2, DeleteKeeps DEF UInv, UTypeOK, AutoSlotFree
    <2> QED BY <2>1 DEF DeleteUser, UInv, UTypeOK, AutoSlotFree, Uids
<1>3. CASE ~tracked
    BY <1>1, <1>3, UsersAssumption
       DEF DeleteUser, Delete, Withdraw, UInv, UTypeOK, AutoSlotFree, Uids
<1> QED BY <1>2, <1>3

LEMMA DeleteByBadgeKeeps ==
    ASSUME UInv, DeleteByBadge, ops' \in Nat, wl10' = wl10
    PROVE  UInv'
<1>1. CASE wl10
    <2>1. DeleteUser
        BY <1>1 DEF DeleteByBadge, DeleteUser, Holders
    <2> QED BY <2>1, DeleteUserKeeps
<1>2. CASE ~wl10
    <2>1. PICK badge \in Badges, uid \in 1..(MaxUid + 1), b \in 1..(2 * MaxUid + 1) :
            /\ Sync(uid, b)
            /\ next_user_id' = b
            /\ \/ \E u \in Holders(badge) : Delete(u, uid)
               \/ Holders(badge) = {} /\ next_uid' = uid /\ slots' = slots
        BY <1>2 DEF DeleteByBadge
    <2>2. tracked' = TRUE /\ fresh' = TRUE
        BY <1>2 DEF DeleteByBadge
    <2>3. uid \in Nat \ {0} /\ b \in Nat \ {0}
        BY UsersAssumption
    <2>4. \A u \in Uids : u >= uid => slots[u] = 0
        BY <2>1, <2>3, SyncFrees
    <2>5. /\ slots' \in [Uids -> Nat] /\ next_uid' \in Nat \ {0}
          /\ \A u \in Uids : u >= next_uid' => slots'[u] = 0
        <3>1. CASE \E u \in Holders(badge) : Delete(u, uid)
            BY <2>3, <2>4, <3>1, DeleteKeeps DEF Holders, UInv
        <3>2. CASE next_uid' = uid /\ slots' = slots
            BY <2>3, <2>4, <3>2 DEF UInv, UTypeOK
        <3> QED BY <2>1, <3>1, <3>2
    <2> QED BY <2>1, <2>2, <2>3, <2>5 DEF UInv, UTypeOK, AutoSlotFree, Uids
<1> QED BY <1>1, <1>2

LEMMA UsersStep ==
    ASSUME UInv, UNext
    PROVE  UInv'
<1>1. ops' \in Nat /\ wl10' = wl10
    BY DEF UNext, UInv, UTypeOK
<1>2. CASE ListUsers
    BY <1>1, <1>2, ListingKeeps
<1>3. CASE SetUserAuto
    BY <1>1, <1>3, WriteKeeps, UsersAssumption DEF SetUserAuto, UInv, UTypeOK, Badges
<1>4. CASE SetUser
    <2>1. PICK uid \in Uids, badge \in Badges : Write(uid, badge)
        BY <1>4 DEF SetUser
    <2>2. badge \in Nat
        BY UsersAssumption DEF Badges
    <2> QED BY <1>1, <2>1, <2>2, WriteKeeps
<1>5. CASE SetUserUnnamed
    <2>1. PICK uid \in Uids : Write(uid, uid)
        BY <1>5 DEF SetUserUnnamed
    <2>2. uid \in Nat
        BY UsersAssumption DEF Uids
    <2> QED BY <1>1, <2>1, <2>2, WriteKeeps
<1>6. CASE DeleteUser
    BY <1>1, <1>6, DeleteUserKeeps
<1>7. CASE DeleteByBadge
    BY <1>1, <1>7, DeleteByBadgeKeeps
<1>8. CASE Restart
    <2>1. slots' \in [Uids -> Nat] /\ next_uid' \in Nat \ {0} /\ next_user_id' \in Nat \ {0}
        BY <1>8 DEF Restart, UInv, UTypeOK
    <2>2. tracked' = FALSE /\ fresh' \in BOOLEAN /\ wl10' \in BOOLEAN
        BY <1>1, <1>8, Zenon DEF Restart, UInv, UTypeOK
    <2> QED BY <1>1, <2>1, <2>2, Zenon DEF UInv, UTypeOK, AutoSlotFree, Uids
<1>9. CASE Enrol
    <2>1. slots' \in [Uids -> Nat] /\ next_uid' \in Nat \ {0} /\ next_user_id' \in Nat \ {0}
        BY <1>9, UsersAssumption DEF Enrol, UInv, UTypeOK, Uids, Badges
    <2>2. tracked' = FALSE /\ fresh' = FALSE /\ wl10' \in BOOLEAN
        BY <1>1, <1>9, Zenon DEF Enrol, UInv, UTypeOK
    <2> QED BY <1>1, <2>1, <2>2, Zenon DEF UInv, UTypeOK, AutoSlotFree, Uids
<1> QED BY <1>2, <1>3, <1>4, <1>5, <1>6, <1>7, <1>8, <1>9 DEF UNext

\* However many slots and badges there are: the counters stay counters, and a
\* write without uid finds its slot free as long as every write since the
\* listing was acknowledged and went no further than next_uid.
THEOREM AutoSlotStaysFree == USpec => [](UTypeOK /\ AutoSlotFree)
<1>1. UInit => UInv
    <2> SUFFICES ASSUME UInit PROVE UInv
        OBVIOUS
    <2>1. Badges \cup {0} \subseteq Nat
        BY UsersAssumption DEF Badges
    <2>2. slots \in [Uids -> Nat]
        BY <2>1 DEF UInit
    <2>3. next_uid \in Nat \ {0} /\ next_user_id \in Nat \ {0} /\ ops \in Nat
        BY DEF UInit
    <2> QED BY <2>2, <2>3, Zenon DEF UInit, UInv, UTypeOK, AutoSlotFree
<1>2. UInv /\ [UNext]_uvars => UInv'
    <2> SUFFICES ASSUME UInv, [UNext]_uvars PROVE UInv'
        OBVIOUS
    <2>1. CASE UNext
        BY <2>1, UsersStep
    <2>2. CASE UNCHANGED uvars
        BY <2>2 DEF uvars, UInv, UTypeOK, AutoSlotFree, Uids
    <2> QED BY <2>1, <2>2
<1> QED BY <1>1, <1>2, PTL DEF USpec, UInv
=============================================================================
