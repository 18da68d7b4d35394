------------------------------- MODULE ZKUsers -------------------------------
(***************************************************************************)
(* How src/pyzk_wl10/zk/base.py chooses the slot and the badge of a user   *)
(* that is written without one: next_uid and next_user_id, which the two   *)
(* get_users set and set_user, delete_user, restart and their WL10         *)
(* counterparts keep up.  Calls are one step each (WL10Mutate shows the    *)
(* steps of the WL10 ones); a badge is the number it spells.               *)
(***************************************************************************)
EXTENDS Integers

CONSTANTS
    MaxUid,      \* slots 1..MaxUid
    MaxBadge,    \* badges in use are 1..MaxBadge
    MaxOps       \* bound on the calls of a run

ASSUME UsersAssumption == MaxUid \in Nat /\ MaxBadge \in Nat /\ MaxOps \in Nat

VARIABLES
    slots,         \* the terminal: badge of each slot, 0 when empty
    wl10,          \* self.wl10
    next_uid, next_user_id,
    tracked,       \* ghost: the writes since the last listing were all seen
                   \* and none went above next_uid
    fresh,         \* ghost: no write since the last listing
    ops

uvars == <<slots, wl10, next_uid, next_user_id, tracked, fresh, ops>>

Uids == 1..MaxUid
Badges == 1..MaxBadge
Holders(b) == {u \in Uids : slots[u] = b}

\* Fault: the badge is not compared with those in use.
SyncUnchecked(uid, badge) ==
    /\ \A u \in Uids : slots[u] # 0 => u < uid
    /\ uid # 1 => uid - 1 \in Uids /\ slots[uid - 1] # 0
    /\ badge = uid

\* What get_users and wl10_get_users leave: the slot above the highest one in
\* use, and the first number from there on that is nobody's badge.
Sync(uid, badge) ==
    /\ \A u \in Uids : slots[u] # 0 => u < uid
    /\ uid # 1 => uid - 1 \in Uids /\ slots[uid - 1] # 0
    /\ badge >= uid /\ Holders(badge) = {}
    /\ \A b \in uid..(badge - 1) : Holders(b) # {}

Listing ==
    /\ next_uid' \in 1..(MaxUid + 1)
    /\ next_user_id' \in 1..(2 * MaxUid + 1)
    /\ Sync(next_uid', next_user_id')

ListUsers ==
    /\ Listing
    /\ tracked' = TRUE
    /\ fresh' = TRUE
    /\ UNCHANGED slots

-----------------------------------------------------------------------------
(* set_user.  Without a uid (refused in WL10 mode) it takes next_uid, and  *)
(* next_user_id unless a badge is given.                                   *)

\* Fault: only the badge moves on.
AdvanceBadgeOnly(uid, badge) ==
    /\ next_uid' = next_uid
    /\ next_user_id' = IF next_user_id = badge THEN next_uid + 1 ELSE next_user_id

\* After an acknowledged write.
Advance(uid, badge) ==
    /\ next_uid' = IF next_uid = uid THEN next_uid + 1 ELSE next_uid
    /\ next_user_id' = IF next_user_id = badge THEN next_uid' ELSE next_user_id

\* The write is applied and acknowledged; or it, its acknowledgement or the
\* refresh after it fails, which raises (in WL10 mode it may also be found by
\* reading back and reported as done): the counters stay.
Write(uid, badge) ==
    /\ uid \in Uids
    /\ \/ /\ slots' = [slots EXCEPT ![uid] = badge]
          /\ Advance(uid, badge)
          /\ tracked' = (tracked /\ uid <= next_uid)
       \/ /\ slots' \in {slots, [slots EXCEPT ![uid] = badge]}
          /\ tracked' = FALSE
          /\ UNCHANGED <<next_uid, next_user_id>>
    /\ fresh' = FALSE

SetUserAuto ==
    /\ ~wl10
    /\ \E badge \in {next_user_id} \cup Badges : Write(next_uid, badge)

\* A native write without badge spells the uid.
SetUser ==
    \E uid \in Uids, badge \in Badges :
        /\ Write(uid, badge)
SetUserUnnamed == ~wl10 /\ \E uid \in Uids : Write(uid, uid)

-----------------------------------------------------------------------------
(* delete_user, restart, poweroff.                                         *)

\* Fault: any delete moves next_uid to the slot that became free.
WithdrawAny(uid, next) == uid
\* Fault: next_uid goes down once too often.
WithdrawBelow(uid, next) == IF uid = next - 1 THEN uid - 1 ELSE next

Withdraw(uid, next) == IF uid = next - 1 THEN uid ELSE next

\* A delete, given where next_uid stands when its request goes out.
Delete(uid, next) ==
    /\ \/ /\ slots' = [slots EXCEPT ![uid] = 0]
          /\ next_uid' = Withdraw(uid, next)
       \/ /\ slots' \in {slots, [slots EXCEPT ![uid] = 0]}
          /\ next_uid' = next

DeleteUser ==
    /\ \E uid \in Uids : Delete(uid, next_uid)
    /\ UNCHANGED <<next_user_id, tracked, fresh>>

\* By badge: the native delete lists with get_users, which sets both counters,
\* the WL10 one with _wl10_get_users, which does not.
DeleteByBadge ==
    \E badge \in Badges :
        \/ /\ wl10
           /\ \E uid \in Holders(badge) : Delete(uid, next_uid)
           /\ UNCHANGED <<next_user_id, tracked, fresh>>
        \/ /\ ~wl10
           /\ \E uid \in 1..(MaxUid + 1), b \in 1..(2 * MaxUid + 1) :
                /\ Sync(uid, b)
                /\ next_user_id' = b
                /\ \/ \E u \in Holders(badge) : Delete(u, uid)
                   \/ Holders(badge) = {} /\ next_uid' = uid /\ slots' = slots
           /\ tracked' = TRUE /\ fresh' = TRUE

\* restart, poweroff and wl10_reboot, and the connection that follows.
Restart ==
    /\ next_uid' = 1
    /\ tracked' = FALSE
    /\ UNCHANGED <<slots, next_user_id, fresh>>

\* Somebody enrols at the terminal.
Enrol ==
    /\ \E uid \in Uids, badge \in Badges :
        slots[uid] = 0 /\ slots' = [slots EXCEPT ![uid] = badge]
    /\ tracked' = FALSE
    /\ fresh' = FALSE
    /\ UNCHANGED <<next_uid, next_user_id>>

UInit ==
    /\ slots \in [Uids -> Badges \cup {0}]
    /\ wl10 \in BOOLEAN
    /\ next_uid = 1 /\ next_user_id = 1
    /\ tracked = FALSE /\ fresh = FALSE
    /\ ops = 0

UNext ==
    /\ ops < MaxOps
    /\ ops' = ops + 1
    /\ wl10' = wl10
    /\ \/ ListUsers \/ SetUserAuto \/ SetUser \/ SetUserUnnamed
       \/ DeleteUser \/ DeleteByBadge \/ Restart \/ Enrol

USpec == UInit /\ [][UNext]_uvars

-----------------------------------------------------------------------------
(* What holds.                                                             *)

UTypeOK ==
    /\ slots \in [Uids -> Nat]
    /\ wl10 \in BOOLEAN
    /\ next_uid \in Nat \ {0} /\ next_user_id \in Nat \ {0}
    /\ tracked \in BOOLEAN /\ fresh \in BOOLEAN
    /\ ops \in Nat

\* From a listing on, through any number of writes with and without a uid and
\* of deletes, the slot a write without uid would take is free, and so are all
\* above it: provided each write was acknowledged and went to next_uid or
\* below, nobody enrolled meanwhile and the terminal was not restarted.
AutoSlotFree == tracked => \A u \in Uids : u >= next_uid => slots[u] = 0

\* Until the next write, the badge such a write would get is nobody's.
AutoBadgeFree == fresh => \A u \in Uids : slots[u] # next_user_id

-----------------------------------------------------------------------------
(* What does not hold.                                                     *)

\* A write without uid may take an occupied slot as soon as one of those
\* provisos fails: before the first listing, after a restart, after a write
\* above next_uid that was counted up to, after a lost acknowledgement.
NeverOverwrites == ~wl10 /\ next_uid \in Uids => slots[next_uid] = 0

\* The second write without badge may repeat a badge: next_user_id follows
\* next_uid and is compared with no other badge.
NeverRepeatsBadge == tracked => \A u \in Uids : slots[u] # next_user_id
=============================================================================
