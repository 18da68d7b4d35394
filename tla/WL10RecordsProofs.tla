-------------------------- MODULE WL10RecordsProofs --------------------------
(***************************************************************************)
(* Proofs about WL10Records: what the parsers keep and drop, for tables of *)
(* any length.                                                             *)
(***************************************************************************)
EXTENDS WL10Records, SequenceTheorems, WellFoundedInduction, TLAPS

\* A non-empty set of positions of a sequence has a last one.
LEMMA LastPosition ==
    ASSUME NEW n \in Nat, NEW T \in SUBSET (1..n), T # {}
    PROVE  \E k \in T : \A m \in T : m <= k
<1> DEFINE Less == OpToRel(<, Nat)
           Mirror == {n - k : k \in T}
<1>1. ASSUME NEW k \in T PROVE k \in Nat /\ n - k \in Nat
  OBVIOUS
<1>2. Mirror \subseteq Nat /\ Mirror # {}
  BY <1>1
<1>3. PICK x \in Mirror : \A y \in Mirror : ~ (<<y, x>> \in Less)
  <2> HIDE DEF Less, Mirror
  <2>1. IsWellFoundedOn(Less, Nat)
    BY NatLessThanWellFounded DEF Less
  <2>2. QED
    BY <1>2, <2>1, WFMin
<1>4. PICK k \in T : x = n - k
  BY <1>3
<1>5. ASSUME NEW m \in T PROVE m <= k
  <2>1. n - m \in Mirror /\ n - m \in Nat /\ n - k \in Nat
    BY <1>1
  <2>2. ~ (<<n - m, n - k>> \in Less)
    BY <1>3, <1>4, <2>1
  <2>3. ~ (n - m < n - k)
    BY <2>1, <2>2 DEF OpToRel
  <2>4. QED
    BY <1>1, <2>3
<1>6. QED
  BY <1>5

\* An element of a sequence that grows at its end, and what is added.
LEMMA Appended ==
    ASSUME NEW S, NEW q \in Seq(S), NEW e \in S
    PROVE  /\ Append(q, e) \in Seq(S)
           /\ DOMAIN Append(q, e) = DOMAIN q \cup {Len(q) + 1}
           /\ Len(q) + 1 \notin DOMAIN q
           /\ \A i \in DOMAIN q : Append(q, e)[i] = q[i]
           /\ Append(q, e)[Len(q) + 1] = e
<1>1. Len(q) \in Nat /\ DOMAIN q = 1..Len(q)
  BY LenProperties
<1>2. /\ Append(q, e) \in Seq(S)
      /\ Len(Append(q, e)) = Len(q) + 1
      /\ \A i \in 1..Len(q) : Append(q, e)[i] = q[i]
      /\ Append(q, e)[Len(q) + 1] = e
  BY AppendProperties
<1>3. DOMAIN Append(q, e) = 1..(Len(q) + 1)
  BY <1>2, LenProperties
<1>4. QED
  BY <1>1, <1>2, <1>3

\* Who is shown for a punch is a user of the table, or nobody.
LEMMA OwnerType ==
    ASSUME users \in Seq(User), NEW p
    PROVE  Owner(p) \in User
<1>1. Len(users) \in Nat /\ DOMAIN users = 1..Len(users)
  BY LenProperties
<1>2. ASSUME NEW key, Claimants(key) # {}
      PROVE  Entry(key) \in User
  <2>1. Claimants(key) \in SUBSET (1..Len(users))
    BY <1>1 DEF Claimants
  <2>2. \E k \in Claimants(key) : \A m \in Claimants(key) : m <= k
    BY <1>1, <1>2, <2>1, LastPosition
  <2>3. (CHOOSE k \in Claimants(key) : \A m \in Claimants(key) : m <= k) \in DOMAIN users
    BY <1>1, <2>1, <2>2
  <2>4. QED
    BY <1>1, <2>3, ElementOfSeq DEF Entry
<1>3. NoUser \in User
  BY UidsAssumption, BadgesAssumption DEF NoUser, User
<1>4. QED
  BY <1>2, <1>3 DEF Owner

-----------------------------------------------------------------------------
(* The inductive invariant.  `seen' is what Skipped looks at, `keys' what   *)
(* ParsePunch looks at: the first is exactly the users returned, the second *)
(* only holds punches that were kept.  Punches are shown only once the user *)
(* table is complete, so their users do not change any more.                *)

KeysKept == \A key \in keys : \E k \in DOMAIN log : Key(log[k].punch) = key

UsersInv == seen = UidsOf(users) /\ UsersDistinct /\ EveryPersonListed /\ EverySlotAccounted

LogInv == (log # <<>> => UsersParsed) /\ KeysKept /\ NoPunchLost /\ BadgeDecides

RecordsInv == RTypeOK /\ UsersInv /\ LogInv

\* The record or the punch at hand.
LEMMA AtHand ==
    ASSUME RTypeOK
    PROVE  /\ ~UsersParsed => next \in 1..Len(recs) /\ recs[next] \in Records
           /\ UsersParsed /\ ~LogParsed => cur \in 1..Len(punches) /\ punches[cur] \in Punches
<1>1. Len(recs) \in Nat /\ Len(punches) \in Nat
  BY LenProperties DEF RTypeOK
<1>2. ASSUME ~UsersParsed PROVE next \in 1..Len(recs)
  BY <1>1, <1>2 DEF UsersParsed, RTypeOK
<1>3. ASSUME UsersParsed, ~LogParsed PROVE cur \in 1..Len(punches)
  BY <1>1, <1>3 DEF LogParsed, RTypeOK
<1>4. QED
  BY <1>2, <1>3, ElementOfSeq DEF RTypeOK

\* A decoded record is a user with the uid of the record.
LEMMA DecodedType ==
    ASSUME NEW r \in Records
    PROVE  Decoded(r) \in User /\ Decoded(r).uid = r.uid
BY DEF Decoded, Records, User

\* Nothing is known before the first record.
LEMMA RecordsInit == Init => RecordsInv
<1> SUFFICES ASSUME Init PROVE RecordsInv
  OBVIOUS
<1>1. Len(recs) \in Nat /\ Len(punches) \in Nat
  BY LenProperties DEF Init
<1>2. users = <<>> /\ log = <<>> /\ DOMAIN users = {} /\ DOMAIN log = {}
  BY DEF Init
<1>3. users \in Seq(User) /\ log \in Seq([punch : Punches, user : User])
  BY <1>2, EmptySeq
<1>4. RTypeOK
  BY <1>1, <1>3 DEF Init, RTypeOK
<1>5. UsersInv
  BY <1>2 DEF Init, UsersInv, UidsOf, UsersDistinct, EveryPersonListed, EverySlotAccounted
<1>6. LogInv
  BY <1>2 DEF Init, LogInv, KeysKept, NoPunchLost, BadgeDecides
<1>7. QED
  BY <1>4, <1>5, <1>6 DEF RecordsInv

\* One record of the user table: the users returned grow by the record's
\* person or stay, and then a set already has the record's slot.
LEMMA ParseUserKeeps == RecordsInv /\ ParseUser => RecordsInv'
<1> SUFFICES ASSUME RecordsInv, ParseUser PROVE RecordsInv'
  OBVIOUS
<1> DEFINE r == recs[next]
<1>1. /\ next \in 1..Len(recs) /\ r \in Records /\ next' = next + 1
      /\ UNCHANGED <<recs, punches, cur, keys, log>>
      /\ tpl' = tpl \cup Slots(r)
  BY AtHand DEF RecordsInv, ParseUser, punchVars
<1>2. Len(recs) \in Nat
  BY LenProperties DEF RecordsInv, RTypeOK
<1>3. r.uid \in Uids /\ r.shape \in Shapes
  BY <1>1 DEF Records
<1>4. /\ users \in Seq(User) /\ seen = UidsOf(users)
      /\ seen \subseteq Uids /\ side \subseteq Uids /\ tpl \subseteq Uids
  BY DEF RecordsInv, RTypeOK, UsersInv
<1>5. tpl' \subseteq Uids
  BY <1>1, <1>3, <1>4 DEF Slots
<1>6. \/ Skipped(r) /\ UNCHANGED <<users, seen, side>>
      \/ ~Skipped(r) /\ Sidecar(r)
      \/ ~Skipped(r) /\ Person(r)
  BY DEF ParseUser
<1>7. /\ users' \in Seq(User) /\ seen' = UidsOf(users') /\ UsersDistinct'
      /\ seen' \subseteq Uids /\ side' \subseteq Uids
      /\ side \subseteq side' /\ UidsOf(users) \subseteq UidsOf(users')
      /\ r.shape = "named" => r.uid \in UidsOf(users')
      /\ r.uid # 0 => r.uid \in UidsOf(users') \cup tpl' \cup side'
  <2>1. CASE Skipped(r) /\ UNCHANGED <<users, seen, side>>
    <3>1. UsersDistinct' /\ UidsOf(users') = UidsOf(users)
      BY <2>1 DEF RecordsInv, UsersInv, UsersDistinct
    <3>2. r.shape = "template" /\ r.uid # 0 => r.uid \in tpl'
      BY <1>1 DEF Slots
    <3>3. QED
      BY <1>3, <1>4, <2>1, <3>1, <3>2 DEF Skipped, Decodes, Shapes
  <2>2. CASE ~Skipped(r) /\ Sidecar(r)
    <3>1. /\ UNCHANGED <<users, seen>> /\ side' = side \cup {r.uid} /\ r.shape = "nameless"
          /\ UidsOf(users') = UidsOf(users)
      BY <2>2 DEF Sidecar
    <3>2. UsersDistinct'
      BY <3>1 DEF RecordsInv, UsersInv, UsersDistinct
    <3>3. QED
      BY <1>3, <1>4, <3>1, <3>2
  <2>3. CASE ~Skipped(r) /\ Person(r)
    <3>1. /\ users' = Append(users, Decoded(r)) /\ seen' = seen \cup {r.uid}
          /\ side' = side /\ r.uid \notin UidsOf(users)
      BY <1>4, <2>3 DEF Person, Skipped
    <3>2. /\ users' \in Seq(User)
          /\ DOMAIN users' = DOMAIN users \cup {Len(users) + 1}
          /\ Len(users) + 1 \notin DOMAIN users
          /\ \A k \in DOMAIN users : users'[k] = users[k]
          /\ users'[Len(users) + 1].uid = r.uid
      BY <1>1, <1>4, <3>1, DecodedType, Appended
    <3>3. UidsOf(users') = UidsOf(users) \cup {r.uid}
      BY <3>2 DEF UidsOf
    <3>4. UsersDistinct'
      BY <3>1, <3>2 DEF RecordsInv, UsersInv, UsersDistinct, UidsOf
    <3>5. QED
      BY <1>3, <1>4, <3>1, <3>2, <3>3, <3>4
  <2>4. QED
    BY <1>6, <2>1, <2>2, <2>3
<1>8. RTypeOK'
  BY <1>1, <1>2, <1>5, <1>7 DEF RecordsInv, RTypeOK
<1>9. next' - 1 = next /\ \A n \in 1..(next' - 1) : n = next \/ n \in 1..(next - 1)
  BY <1>1, <1>2
<1>10. EveryPersonListed'
  BY <1>1, <1>7, <1>9 DEF RecordsInv, UsersInv, EveryPersonListed
<1>11. EverySlotAccounted'
  BY <1>1, <1>7, <1>9 DEF RecordsInv, UsersInv, EverySlotAccounted
<1>12. log = <<>> /\ DOMAIN log = {}
  BY DEF RecordsInv, LogInv, ParseUser
<1>13. LogInv'
  <2>1. log' = <<>> /\ DOMAIN log' = {}
    BY <1>1, <1>12
  <2>2. KeysKept' /\ NoPunchLost'
    BY <1>1 DEF RecordsInv, LogInv, KeysKept, NoPunchLost, Plausible, Key
  <2>3. QED
    BY <2>1, <2>2 DEF LogInv, BadgeDecides
<1>14. QED
  BY <1>7, <1>8, <1>10, <1>11, <1>13 DEF RecordsInv, UsersInv

\* A badge that nothing else repeats has one claimant, whose entry it is.
LEMMA SoleClaimant ==
    ASSUME users \in Seq(User), NEW m \in DOMAIN users, NEW p,
           users[m].badge = p.badge, users[m].badge # 0,
           \A x \in DOMAIN users \ {m} : ~Claims(users[x], users[m].badge)
    PROVE  Owner(p) = users[m]
<1>1. Claims(users[m], p.badge)
  BY DEF Claims
<1>2. Claimants(p.badge) = {m}
  BY <1>1 DEF Claimants
<1>3. Entry(p.badge) = users[m]
  <2>1. m \in 1..Len(users) /\ Len(users) \in Nat
    BY LenProperties
  <2>2. m <= m
    BY <2>1
  <2>3. (CHOOSE k \in {m} : \A j \in {m} : j <= k) = m
    BY <2>2
  <2>4. QED
    BY <1>2, <2>3 DEF Entry
<1>4. QED
  BY <1>2, <1>3 DEF Owner

\* One record of the attendance table, once the users are known.
LEMMA ParsePunchKeeps == RecordsInv /\ ParsePunch => RecordsInv'
<1> SUFFICES ASSUME RecordsInv, ParsePunch PROVE RecordsInv'
  OBVIOUS
<1> DEFINE p    == punches[cur]
           keep == Plausible(p) /\ Key(p) \notin keys
           e    == [punch |-> p, user |-> Owner(p)]
<1>1. /\ UsersParsed /\ cur \in 1..Len(punches) /\ p \in Punches /\ cur' = cur + 1
      /\ UNCHANGED <<recs, punches, next, users, seen, tpl, side>>
  BY AtHand DEF RecordsInv, ParsePunch, userVars
<1>2. Len(punches) \in Nat
  BY LenProperties DEF RecordsInv, RTypeOK
<1>3. users \in Seq(User) /\ log \in Seq([punch : Punches, user : User])
  BY DEF RecordsInv, RTypeOK
<1>4. e \in [punch : Punches, user : User]
  BY <1>1, <1>3, OwnerType
<1>5. \/ keep /\ keys' = keys \cup {Key(p)} /\ log' = Append(log, e)
      \/ ~keep /\ UNCHANGED <<keys, log>>
  BY DEF ParsePunch
<1>6. UsersInv' /\ UsersParsed'
  BY <1>1 DEF RecordsInv, UsersInv, UsersDistinct, EveryPersonListed, EverySlotAccounted,
              UidsOf, UsersParsed
<1>7. cur' - 1 = cur /\ \A n \in 1..(cur' - 1) : n = cur \/ n \in 1..(cur - 1)
  BY <1>1, <1>2
<1>8. /\ log' \in Seq([punch : Punches, user : User])
      /\ \A k \in DOMAIN log : k \in DOMAIN log' /\ log'[k] = log[k]
      /\ \A k \in DOMAIN log' : k \in DOMAIN log \/ log'[k] = e
      /\ Plausible(p) => \E k \in DOMAIN log' : Key(log'[k].punch) = Key(p)
  <2>1. CASE keep /\ keys' = keys \cup {Key(p)} /\ log' = Append(log, e)
    <3>1. /\ log' \in Seq([punch : Punches, user : User])
          /\ DOMAIN log' = DOMAIN log \cup {Len(log) + 1}
          /\ \A k \in DOMAIN log : log'[k] = log[k]
          /\ log'[Len(log) + 1] = e
      BY <1>3, <1>4, <2>1, Appended
    <3>2. e.punch = p
      OBVIOUS
    <3>3. QED
      BY <3>1, <3>2
  <2>2. CASE ~keep /\ UNCHANGED <<keys, log>>
    BY <1>3, <2>2 DEF RecordsInv, LogInv, KeysKept
  <2>3. QED
    BY <1>5, <2>1, <2>2
<1>9. RTypeOK'
  BY <1>1, <1>2, <1>8 DEF RecordsInv, RTypeOK
<1>10. KeysKept'
  <2> SUFFICES ASSUME NEW key \in keys'
               PROVE  \E k \in DOMAIN log' : Key(log'[k].punch) = key
    BY DEF KeysKept, Key
  <2>1. CASE key \in keys
    BY <1>8, <2>1 DEF RecordsInv, LogInv, KeysKept
  <2>2. CASE key = Key(p) /\ keep
    BY <1>8, <2>2
  <2>3. QED
    BY <1>5, <2>1, <2>2
<1>11. NoPunchLost'
  <2> SUFFICES ASSUME NEW n \in 1..(cur' - 1), Plausible(punches[n])
               PROVE  \E k \in DOMAIN log' :
                          /\ log'[k].punch.badge = punches[n].badge
                          /\ log'[k].punch.ts = punches[n].ts
                          /\ log'[k].punch.kind = punches[n].kind
    BY <1>1 DEF NoPunchLost, Plausible
  <2>1. CASE n = cur
    BY <1>8, <2>1 DEF Key
  <2>2. CASE n \in 1..(cur - 1)
    BY <1>8, <2>2 DEF RecordsInv, LogInv, NoPunchLost
  <2>3. QED
    BY <1>7, <2>1, <2>2
<1>12. BadgeDecides'
  <2> SUFFICES ASSUME NEW k \in DOMAIN log', NEW m \in DOMAIN users,
                      users[m].badge = log'[k].punch.badge, users[m].badge # 0,
                      \A x \in DOMAIN users \ {m} : ~Claims(users[x], users[m].badge)
               PROVE  log'[k].user = users[m]
    BY <1>1 DEF BadgeDecides, Claims
  <2>1. CASE k \in DOMAIN log
    BY <1>8, <2>1 DEF RecordsInv, LogInv, BadgeDecides
  <2>2. CASE log'[k] = e
    <3>1. log'[k].punch = p /\ log'[k].user = Owner(p)
      BY <2>2
    <3>2. QED
      BY <1>3, <3>1, SoleClaimant
  <2>3. QED
    BY <1>8, <2>1, <2>2
<1>13. QED
  BY <1>6, <1>9, <1>10, <1>11, <1>12 DEF RecordsInv, LogInv

LEMMA RecordsStep == RecordsInv /\ [Next]_vars => RecordsInv'
<1> SUFFICES ASSUME RecordsInv, [Next]_vars PROVE RecordsInv'
  OBVIOUS
<1>1. CASE ParseUser
  BY <1>1, ParseUserKeeps
<1>2. CASE ParsePunch
  BY <1>2, ParsePunchKeeps
<1>3. CASE UNCHANGED vars
  BY <1>3 DEF vars, userVars, punchVars, RecordsInv, RTypeOK, UsersInv, LogInv, UidsOf,
              UsersDistinct, EveryPersonListed, EverySlotAccounted, UsersParsed, KeysKept,
              Key, NoPunchLost, Plausible, BadgeDecides, Claims
<1>4. QED
  BY <1>1, <1>2, <1>3 DEF Next

LEMMA RecordsAlways == Spec => []RecordsInv
<1>1. Init => RecordsInv
  BY RecordsInit
<1>2. RecordsInv /\ [Next]_vars => RecordsInv'
  BY RecordsStep
<1>3. QED
  BY <1>1, <1>2, PTL DEF Spec

-----------------------------------------------------------------------------
\* Whatever the tables hold, the parsers stay within them and return users and
\* punches of users (_wl10_parse_users, _wl10_parse_attendance).
THEOREM ParsersTyped == Spec => []RTypeOK
<1>1. RecordsInv => RTypeOK
  BY DEF RecordsInv
<1>2. QED
  BY <1>1, RecordsAlways, PTL

\* No table, however long and in whatever order, makes the parser return two
\* users with one uid (the `seen_uids' check of _wl10_parse_users), and no
\* sidecar or template record, before or after it, hides a person.
THEOREM PersonsAreListed == Spec => []PersonsListedOnce
<1>1. RecordsInv => PersonsListedOnce
  BY DEF RecordsInv, UsersInv, PersonsListedOnce
<1>2. QED
  BY <1>1, RecordsAlways, PTL

\* Every slot in the table is known as a user's, a template's or a sidecar's.
THEOREM SlotsAreAccounted == Spec => []EverySlotAccounted
<1>1. RecordsInv => EverySlotAccounted
  BY DEF RecordsInv, UsersInv
<1>2. QED
  BY <1>1, RecordsAlways, PTL

\* A punch is dropped only for one with the same badge, time and kind.
THEOREM PunchesAreKept == Spec => []NoPunchLost
<1>1. RecordsInv => NoPunchLost
  BY DEF RecordsInv, LogInv
<1>2. QED
  BY <1>1, RecordsAlways, PTL

\* A badge that no other user's badge or uid repeats decides whose a punch is.
THEOREM BadgeIsDecisive == Spec => []BadgeDecides
<1>1. RecordsInv => BadgeDecides
  BY DEF RecordsInv, LogInv
<1>2. QED
  BY <1>1, RecordsAlways, PTL
=============================================================================
