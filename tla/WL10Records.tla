----------------------------- MODULE WL10Records -----------------------------
(***************************************************************************)
(* What src/pyzk_wl10/zk/base.py makes of the records of a complete table: *)
(* _wl10_parse_users and _wl10_decode_user_record, _wl10_build_users_map   *)
(* and _wl10_parse_attendance, one record per step.                        *)
(*                                                                         *)
(* A user record is, by its privilege byte and its name field,             *)
(*    template   fingerprint storage (privilege 0x31)                      *)
(*    named      a person                                                  *)
(*    nameless   a sidecar that links a user to a template                 *)
(*    garbled    name bytes that decode to nothing                         *)
(* Badges and str(uid) are keys of one dictionary, so badges are numbers   *)
(* here, with 0 for the empty string.                                      *)
(***************************************************************************)
EXTENDS Integers, Sequences, FiniteSets

CONSTANTS
    Uids,     \* slots; slot 0 is the orphan of a deleted user
    Badges,   \* badge numbers, 0 when the field is empty
    Times,    \* timestamps, 0 when missing or out of range
    Kinds     \* status and verification flag of a punch, as one

ASSUME UidsAssumption   == 0 \in Uids /\ Uids \subseteq Nat
ASSUME BadgesAssumption == 0 \in Badges /\ Badges \subseteq Nat
ASSUME TimesAssumption  == 0 \in Times

VARIABLES
    recs,    \* the user table
    next,    \* the record to look at
    users,   \* the users returned
    seen,    \* uids of named records so far
    tpl,     \* _wl10_template_uids
    side,    \* _wl10_sidecar_uids
    punches, \* the attendance table
    cur,     \* the punch to look at
    keys,    \* the punches kept so far, as they are compared
    log      \* the attendance returned: punch and the user it is shown for

userVars  == <<next, users, seen, tpl, side>>
punchVars == <<cur, keys, log>>
vars == <<recs, punches, userVars, punchVars>>

Shapes  == {"template", "named", "nameless", "garbled"}
Records == [uid : Uids, shape : Shapes, badge : Badges]
Punches == [uid : Uids, badge : Badges, ts : Times, kind : Kinds]
User    == [uid : Uids, badge : Badges \cup Uids]

UidsOf(us) == {us[k].uid : k \in DOMAIN us}
UsersParsed == next > Len(recs)
LogParsed   == UsersParsed /\ cur > Len(punches)

-----------------------------------------------------------------------------
(* _wl10_decode_user_record: a user, or nothing.                           *)

Decodes(r) == r.shape # "template" /\ (r.shape = "named" \/ r.uid # 0)

Decoded(r) == [uid |-> r.uid, badge |-> IF r.badge = 0 THEN r.uid ELSE r.badge]

\* Fault: the slots of template records are forgotten.
SlotsForgotten(r) == {}

\* A template slot is set apart, whatever else the record says.
Slots(r) == IF r.shape = "template" /\ r.uid # 0 THEN {r.uid} ELSE {}

\* Fault: a nameless record hides the person that follows it.
SidecarSeen(r) ==
    /\ r.shape = "nameless"
    /\ side' = side \cup {r.uid}
    /\ seen' = seen \cup {r.uid}
    /\ UNCHANGED users

\* Not marked as seen: a named record of the same uid may follow.
Sidecar(r) ==
    /\ r.shape = "nameless"
    /\ side' = side \cup {r.uid}
    /\ UNCHANGED <<users, seen>>

Person(r) ==
    /\ r.shape # "nameless"
    /\ users' = Append(users, Decoded(r))
    /\ seen' = seen \cup {r.uid}
    /\ UNCHANGED side

Skipped(r) == ~Decodes(r) \/ r.uid \in seen

ParseUser ==
    /\ ~UsersParsed
    /\ next' = next + 1
    /\ LET r == recs[next] IN
       /\ tpl' = tpl \cup Slots(r)
       /\ \/ Skipped(r) /\ UNCHANGED <<users, seen, side>>
          \/ ~Skipped(r) /\ (Sidecar(r) \/ Person(r))
    /\ UNCHANGED <<recs, punches, punchVars>>

-----------------------------------------------------------------------------
(* _wl10_build_users_map: later users overwrite the keys of earlier ones.  *)

Claims(u, key) == key # 0 /\ key \in {u.badge, u.uid}

Claimants(key) == {k \in DOMAIN users : Claims(users[k], key)}

Entry(key) == users[CHOOSE k \in Claimants(key) : \A m \in Claimants(key) : m <= k]

NoUser == [uid |-> 0, badge |-> 0]

\* Fault: the uid is looked up before the badge.
UidFirst(p) ==
    IF Claimants(p.uid) # {} THEN Entry(p.uid)
    ELSE IF p.badge # 0 /\ Claimants(p.badge) # {} THEN Entry(p.badge) ELSE NoUser

\* The badge first, when there is one, then the uid.
Owner(p) ==
    IF p.badge # 0 /\ Claimants(p.badge) # {} THEN Entry(p.badge)
    ELSE IF Claimants(p.uid) # {} THEN Entry(p.uid) ELSE NoUser

\* Orphans and punches without a plausible time are dropped.
Plausible(p) == p.uid # 0 /\ p.ts # 0

\* Fault: the status and the flag do not tell punches apart.
KeyOfMinute(p) == <<p.badge, p.ts>>

Key(p) == <<p.badge, p.ts, p.kind>>

\* Fault: the record after a kept one is taken for its double.
ParsePunchPairwise ==
    /\ UsersParsed /\ ~LogParsed
    /\ LET p    == punches[cur]
           keep == Plausible(p) /\ Key(p) \notin keys
       IN  \/ keep /\ cur' = cur + 2 /\ keys' = keys \cup {Key(p)}
                   /\ log' = Append(log, [punch |-> p, user |-> Owner(p)])
           \/ ~keep /\ cur' = cur + 1 /\ UNCHANGED <<keys, log>>
    /\ UNCHANGED <<recs, punches, userVars>>

ParsePunch ==
    /\ UsersParsed /\ ~LogParsed
    /\ cur' = cur + 1
    /\ LET p    == punches[cur]
           keep == Plausible(p) /\ Key(p) \notin keys
       IN  \/ keep /\ keys' = keys \cup {Key(p)}
                   /\ log' = Append(log, [punch |-> p, user |-> Owner(p)])
           \/ ~keep /\ UNCHANGED <<keys, log>>
    /\ UNCHANGED <<recs, punches, userVars>>

Init ==
    /\ recs \in Seq(Records) /\ punches \in Seq(Punches)
    /\ next = 1 /\ users = <<>> /\ seen = {} /\ tpl = {} /\ side = {}
    /\ cur = 1 /\ keys = {} /\ log = <<>>

Next == ParseUser \/ ParsePunch

Spec == Init /\ [][Next]_vars

-----------------------------------------------------------------------------
RTypeOK ==
    /\ recs \in Seq(Records) /\ punches \in Seq(Punches)
    /\ next \in 1..(Len(recs) + 1) /\ cur \in 1..(Len(punches) + 1)
    /\ users \in Seq(User)
    /\ seen \subseteq Uids /\ tpl \subseteq Uids /\ side \subseteq Uids
    /\ log \in Seq([punch : Punches, user : User])

\* A uid names at most one returned user, even in tables with repeated records.
UsersDistinct ==
    \A a, b \in DOMAIN users : users[a].uid = users[b].uid => a = b

EveryPersonListed ==
    \A n \in 1..(next - 1) : recs[n].shape = "named" => recs[n].uid \in UidsOf(users)

\* Each person of the table is one returned user, whatever records of the same
\* uid, a sidecar, a template or a second person, stand before or after theirs.
PersonsListedOnce == UsersDistinct /\ EveryPersonListed

\* Every slot the table mentions ends up as a user, a template slot or a
\* sidecar slot: none is taken for free.
EverySlotAccounted ==
    \A n \in 1..(next - 1) :
        recs[n].uid # 0 => recs[n].uid \in UidsOf(users) \cup tpl \cup side

\* A punch is lost only to an identical one, as far as badge, time, status and
\* verification go.
NoPunchLost ==
    \A n \in 1..(cur - 1) : Plausible(punches[n]) =>
        \E k \in DOMAIN log :
            /\ log[k].punch.badge = punches[n].badge /\ log[k].punch.ts = punches[n].ts
            /\ log[k].punch.kind = punches[n].kind

\* A badge that no uid and no other user's badge repeats decides who punched.
BadgeDecides ==
    \A k \in DOMAIN log : \A m \in DOMAIN users :
        /\ users[m].badge = log[k].punch.badge /\ users[m].badge # 0
        /\ \A x \in DOMAIN users \ {m} : ~Claims(users[x], users[m].badge)
        => log[k].user = users[m]

-----------------------------------------------------------------------------
(* What the repository says and the code does not keep: TLC refutes these. *)

\* A punch with the badge of a user is shown for a user with that badge ("it's
\* the actual badge number that employees use to clock in", _wl10_parse_attendance).
BadgeBeforeUid ==
    \A k \in DOMAIN log :
        (\E u \in DOMAIN users : users[u].badge = log[k].punch.badge /\ users[u].badge # 0)
            => log[k].user.badge = log[k].punch.badge

\* Punches of different users are different ("keeping distinct ones",
\* _wl10_parse_attendance).
DistinctPunchesKept ==
    \A n \in 1..(cur - 1) : Plausible(punches[n]) =>
        \E k \in DOMAIN log : log[k].punch = punches[n]
=============================================================================
