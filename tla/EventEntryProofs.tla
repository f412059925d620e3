-------------------------- MODULE EventEntryProofs --------------------------
(* What is proved of EventEntry, for any number of members and lookups, any
   events, any size and time to live of the cache, and no limit on the clock
   but its bound.                                                           *)
EXTENDS EventEntry, TLAPS

USE RolesAssumption

(* What the argument needs to know of the types.  The order of the cache is not
   part of it: an entry is judged by its expiry alone.                       *)
LookupShape(k) ==
    \/ k = Idle
    \/ /\ k \in Lookup
       /\ k.event.source = "platform"
       /\ k.pc = "answered" => k.role \in Role

Shapes == /\ clock \in Nat
          /\ role \in [Member -> Role]
          /\ held \in [Member -> [Role -> Nat]]
          /\ entry \in [Member -> Entry]
          /\ DOMAIN lookup = Slot
          /\ \A s \in Slot : LookupShape(lookup[s])

(* A member has held the role he has until now, and no role for longer. *)
HeldUpToNow == \A m \in Member : /\ held[m][role[m]] = clock
                                 /\ \A r \in Role : held[m][r] <= clock

(* An entry outlives the role by the time to live at most. *)
EntriesHeld == \A m \in Member : entry[m].expires <= held[m][entry[m].role] + TTL

(* An answer was true after its lookup began. *)
AnswersHeld ==
    \A s \in Slot :
        /\ lookup[s].pc # "idle" => lookup[s].asked <= clock
        /\ lookup[s].pc = "answered" =>
               lookup[s].asked <= held[lookup[s].event.member][lookup[s].role]

RolesInv == Shapes /\ HeldUpToNow /\ EntriesHeld /\ AnswersHeld

(* A member's role, the times he held each, and his entry are of their types. *)
LEMMA RoleAndTimes ==
    ASSUME RolesInv, NEW m \in Member
    PROVE  /\ role[m] \in Role
           /\ held[m] \in [Role -> Nat]
           /\ \A r \in Role : held[m][r] \in Nat
           /\ entry[m].role \in Role /\ entry[m].expires \in Nat
BY DEF RolesInv, Shapes, Entry

(* Time only goes on and roles are only added to those held. *)
LEMMA TickGrows ==
    ASSUME RolesInv, Tick
    PROVE  /\ clock' \in Nat /\ clock' >= clock
           /\ role' \in [Member -> Role]
           /\ held' \in [Member -> [Role -> Nat]]
           /\ \A m \in Member, r \in Role : held'[m][r] >= held[m][r]
           /\ HeldUpToNow'
<1>1. /\ clock \in Nat /\ clock' = clock + 1 /\ role' = role /\ role \in [Member -> Role]
      /\ held' = [m \in Member |-> [held[m] EXCEPT ![role[m]] = clock']]
    BY DEF Tick, RolesInv, Shapes
<1>2. \A m \in Member : held'[m] = [held[m] EXCEPT ![role[m]] = clock']
    BY <1>1
<1>3. \A m \in Member : held'[m] \in [Role -> Nat]
    BY <1>1, <1>2, RoleAndTimes
<1>4. \A m \in Member, r \in Role : held'[m][r] = IF r = role[m] THEN clock' ELSE held[m][r]
    BY <1>2, RoleAndTimes
<1>5. \A m \in Member, r \in Role : held[m][r] \in Nat /\ held[m][r] <= clock
    BY RoleAndTimes DEF RolesInv, HeldUpToNow
<1>6. held' \in [Member -> [Role -> Nat]]
    <2>1. held' = [m \in Member |-> held'[m]]
        BY <1>1
    <2> QED BY <1>3, <2>1
<1>7. HeldUpToNow'
    <2> SUFFICES ASSUME NEW m \in Member
                 PROVE  /\ held'[m][role'[m]] = clock'
                        /\ \A r \in Role : held'[m][r] <= clock'
        BY DEF HeldUpToNow
    <2> QED BY <1>1, <1>4, <1>5
<1> QED BY <1>1, <1>4, <1>5, <1>6, <1>7

(* A new role adds to the times held and takes nothing from them. *)
LEMMA ChangeGrows ==
    ASSUME RolesInv, NEW m \in Member, NEW r \in Role, ChangeRole(m, r)
    PROVE  /\ role' \in [Member -> Role]
           /\ held' \in [Member -> [Role -> Nat]]
           /\ \A n \in Member, q \in Role : held'[n][q] >= held[n][q]
           /\ HeldUpToNow'
<1>1. /\ clock \in Nat /\ clock' = clock /\ role' = [role EXCEPT ![m] = r]
      /\ held' = [held EXCEPT ![m][r] = clock]
      /\ role \in [Member -> Role] /\ held \in [Member -> [Role -> Nat]]
    BY DEF ChangeRole, RolesInv, Shapes
<1>2. \A n \in Member, q \in Role : held'[n][q] = IF n = m /\ q = r THEN clock ELSE held[n][q]
    BY <1>1
<1>3. \A n \in Member, q \in Role : held[n][q] \in Nat /\ held[n][q] <= clock
    BY RoleAndTimes DEF RolesInv, HeldUpToNow
<1>4. HeldUpToNow'
    <2> SUFFICES ASSUME NEW n \in Member
                 PROVE  /\ held'[n][role'[n]] = clock'
                        /\ \A q \in Role : held'[n][q] <= clock'
        BY DEF HeldUpToNow
    <2>1. held[n][role[n]] = clock /\ role[n] \in Role
        BY RoleAndTimes DEF RolesInv, HeldUpToNow
    <2> QED BY <1>1, <1>2, <1>3, <2>1
<1>5. held' \in [Member -> [Role -> Nat]]
    BY <1>1
<1> QED BY <1>1, <1>2, <1>3, <1>4, <1>5

(* The invariant survives when roles and clock grow and nothing else changes. *)
LEMMA GrowthKeeps ==
    ASSUME RolesInv, UNCHANGED <<cacheVars, lookup>>,
           clock' \in Nat, clock' >= clock, role' \in [Member -> Role],
           held' \in [Member -> [Role -> Nat]],
           \A m \in Member, r \in Role : held'[m][r] >= held[m][r],
           HeldUpToNow'
    PROVE  RolesInv'
<1>1. entry' = entry /\ lookup' = lookup
    BY DEF cacheVars
<1>2. Shapes'
    BY <1>1 DEF RolesInv, Shapes, LookupShape
<1>3. \A m \in Member, r \in Role : held[m][r] \in Nat /\ held'[m][r] \in Nat
    BY RoleAndTimes
<1>4. EntriesHeld'
    <2> SUFFICES ASSUME NEW m \in Member
                 PROVE  entry[m].expires <= held'[m][entry[m].role] + TTL
        BY <1>1 DEF EntriesHeld
    <2>1. entry[m].expires <= held[m][entry[m].role] + TTL
        BY DEF RolesInv, EntriesHeld
    <2>2. held'[m][entry[m].role] >= held[m][entry[m].role] /\ entry[m].expires \in Nat
        BY RoleAndTimes
    <2> QED BY <1>3, <2>1, <2>2, RoleAndTimes
<1>5. AnswersHeld'
    <2> SUFFICES ASSUME NEW s \in Slot
                 PROVE  /\ lookup[s].pc # "idle" => lookup[s].asked <= clock'
                        /\ lookup[s].pc = "answered" =>
                               lookup[s].asked <= held'[lookup[s].event.member][lookup[s].role]
        BY <1>1 DEF AnswersHeld
    <2>1. LookupShape(lookup[s]) /\ clock \in Nat
        BY DEF RolesInv, Shapes
    <2>2. CASE lookup[s].pc = "answered"
        <3>1. lookup[s].event.member \in Member /\ lookup[s].role \in Role /\ lookup[s].asked \in Nat
            BY <2>1, <2>2 DEF LookupShape, Lookup, Idle
        <3>2. /\ lookup[s].asked <= clock
              /\ lookup[s].asked <= held[lookup[s].event.member][lookup[s].role]
            BY <2>2 DEF RolesInv, AnswersHeld
        <3> QED BY <1>3, <2>1, <2>2, <3>1, <3>2
    <2>3. CASE lookup[s].pc # "answered"
        BY <2>1, <2>3 DEF LookupShape, Lookup, Idle, RolesInv, AnswersHeld
    <2> QED BY <2>2, <2>3
<1> QED BY <1>2, <1>4, <1>5 DEF RolesInv

(* The invariant survives when the cache and one lookup change, if the entries and
   the lookup are as they should be.                                         *)
LEMMA CacheStep ==
    ASSUME RolesInv, UNCHANGED <<clock, role, held>>,
           entry' \in [Member -> Entry],
           \A m \in Member : entry'[m].expires <= held[m][entry'[m].role] + TTL,
           NEW s \in Slot, NEW k, lookup' = [lookup EXCEPT ![s] = k],
           LookupShape(k),
           k.pc # "idle" => k.asked <= clock,
           k.pc = "answered" => k.asked <= held[k.event.member][k.role]
    PROVE  RolesInv'
<1>1. \A t \in Slot : lookup'[t] = IF t = s THEN k ELSE lookup[t]
    BY DEF RolesInv, Shapes
<1>2. Shapes'
    <2>1. \A t \in Slot : LookupShape(lookup'[t])
        BY <1>1 DEF RolesInv, Shapes
    <2> QED BY <2>1 DEF RolesInv, Shapes, LookupShape
<1>3. HeldUpToNow'
    BY DEF RolesInv, HeldUpToNow
<1>4. EntriesHeld'
    BY DEF EntriesHeld
<1>5. AnswersHeld'
    BY <1>1 DEF RolesInv, AnswersHeld
<1> QED BY <1>2, <1>3, <1>4, <1>5 DEF RolesInv

(* Asking the platform keeps the invariant: the lookup begins now. *)
LEMMA AskKeeps ==
    ASSUME RolesInv, NEW s \in Slot, NEW e \in Event, Ask(s, e)
    PROVE  RolesInv'
<1> DEFINE k == [pc |-> "asking", event |-> e, asked |-> clock, role |-> NoRole]
<1>1. /\ UNCHANGED <<clock, role, held>>
      /\ lookup' = [lookup EXCEPT ![s] = k]
      /\ \/ entry' = [entry EXCEPT ![e.member] = NoEntry]
         \/ entry' = entry
    BY DEF Ask, cacheVars
<1>2. entry \in [Member -> Entry] /\ clock \in Nat
    BY DEF RolesInv, Shapes
<1>3. NoEntry \in Entry /\ NoEntry.expires = 0 /\ NoEntry.role \in Role
    BY DEF NoEntry, Entry, Role
<1>4. entry' \in [Member -> Entry]
    BY <1>1, <1>2, <1>3
<1>5. \A m \in Member : entry'[m].expires <= held[m][entry'[m].role] + TTL
    <2> SUFFICES ASSUME NEW m \in Member
                 PROVE  entry'[m].expires <= held[m][entry'[m].role] + TTL
        OBVIOUS
    <2>1. entry'[m] = NoEntry \/ entry'[m] = entry[m]
        BY <1>1, <1>2
    <2>2. held[m][NoEntry.role] \in Nat
        BY <1>3, RoleAndTimes
    <2> QED BY <1>3, <2>1, <2>2 DEF RolesInv, EntriesHeld
<1>6. LookupShape(k) /\ k.asked <= clock /\ k.pc = "asking"
    BY <1>2 DEF Ask, LookupShape, Lookup
<1> HIDE DEF k
<1> QED BY <1>1, <1>4, <1>5, <1>6, CacheStep

(* The platform's answer names the role held now, so the invariant is kept. *)
LEMMA PlatformAnswersKeeps ==
    ASSUME RolesInv, NEW s \in Slot, PlatformAnswers(s)
    PROVE  RolesInv'
<1> DEFINE m == lookup[s].event.member
           k == [lookup[s] EXCEPT !.pc = "answered", !.role = role[m]]
<1>1. /\ UNCHANGED <<clock, role, held, entry>> /\ lookup[s].pc = "asking"
      /\ lookup' = [lookup EXCEPT ![s] = k]
    BY DEF PlatformAnswers, cacheVars
<1>2. lookup[s] \in Lookup /\ lookup[s].event.source = "platform"
    BY <1>1 DEF RolesInv, Shapes, LookupShape, Idle
<1>3. /\ lookup[s].event \in Event /\ m \in Member
      /\ lookup[s].asked \in Nat /\ lookup[s].asked <= clock
    BY <1>1, <1>2 DEF Lookup, RolesInv, AnswersHeld
<1>4. role[m] \in Role /\ held[m][role[m]] = clock
    BY <1>3, RoleAndTimes DEF RolesInv, HeldUpToNow
<1>5. /\ k \in Lookup /\ k.pc = "answered" /\ k.role = role[m]
      /\ k.event = lookup[s].event /\ k.asked = lookup[s].asked
    BY <1>2, <1>4 DEF Lookup
<1>6. LookupShape(k)
    BY <1>2, <1>4, <1>5 DEF LookupShape
<1>7. entry \in [Member -> Entry] /\ entry' = entry
    BY <1>1 DEF RolesInv, Shapes
<1>8. \A n \in Member : entry[n].expires <= held[n][entry[n].role] + TTL
    BY DEF RolesInv, EntriesHeld
<1>9. k.asked <= held[k.event.member][k.role]
    BY <1>3, <1>4, <1>5
<1> HIDE DEF k
<1> QED BY <1>1, <1>3, <1>5, <1>6, <1>7, <1>8, <1>9, CacheStep

(* A slot without a lookup claims nothing about the past. *)
LEMMA IdleLookup ==
    /\ LookupShape(Idle)
    /\ Idle.pc # "idle" => Idle.asked <= clock
    /\ Idle.pc = "answered" => Idle.asked <= held[Idle.event.member][Idle.role]
BY DEF LookupShape, Idle

(* Storing an answer that is fresh keeps the invariant. *)
LEMMA AnsweredKeeps ==
    ASSUME RolesInv, NEW s \in Slot, Answered(s)
    PROVE  RolesInv'
<1> DEFINE k == lookup[s]
           m == k.event.member
           stored == [role |-> k.role, expires |-> k.asked + TTL]
<1>1. /\ UNCHANGED <<clock, role, held>> /\ k.pc = "answered"
      /\ lookup' = [lookup EXCEPT ![s] = Idle]
    BY DEF Answered
<1>2. k \in Lookup /\ k.role \in Role
    BY <1>1 DEF RolesInv, Shapes, LookupShape, Idle
<1>3. /\ m \in Member /\ k.asked \in Nat
      /\ k.asked <= held[m][k.role]
    BY <1>1, <1>2 DEF Lookup, RolesInv, AnswersHeld
<1>4. stored \in Entry /\ stored.role = k.role /\ stored.expires = k.asked + TTL
    BY <1>2, <1>3 DEF Entry
<1>5. NoEntry \in Entry /\ NoEntry.expires = 0 /\ NoEntry.role \in Role
    BY DEF NoEntry, Entry, Role
<1>6. PICK kept :
          entry' = [n \in Member |-> CASE n = m                            -> stored
                                       [] n # m /\ Contains(kept, n)       -> entry[n]
                                       [] OTHER                            -> NoEntry]
    BY DEF Answered, Store, Put
<1> HIDE DEF k, m, stored
<1>7. \A n \in Member : \/ n = m /\ entry'[n] = stored
                        \/ entry'[n] = entry[n]
                        \/ entry'[n] = NoEntry
    BY <1>6
<1>8. \A n \in Member : entry[n] \in Entry
    BY DEF RolesInv, Shapes
<1>9. entry' \in [Member -> Entry]
    <2>1. entry' = [n \in Member |-> entry'[n]]
        BY <1>6
    <2> QED BY <1>4, <1>5, <1>7, <1>8, <2>1
<1>10. \A n \in Member : entry'[n].expires <= held[n][entry'[n].role] + TTL
    <2> SUFFICES ASSUME NEW n \in Member
                 PROVE  entry'[n].expires <= held[n][entry'[n].role] + TTL
        OBVIOUS
    <2>1. CASE n = m /\ entry'[n] = stored
        <3>1. held[m][k.role] \in Nat
            BY <1>2, <1>3, RoleAndTimes
        <3> QED BY <1>3, <1>4, <2>1, <3>1
    <2>2. CASE entry'[n] = entry[n]
        BY <2>2 DEF RolesInv, EntriesHeld
    <2>3. CASE entry'[n] = NoEntry
        <3>1. held[n][NoEntry.role] \in Nat
            BY <1>5, RoleAndTimes
        <3> QED BY <1>5, <2>3, <3>1
    <2> QED BY <1>7, <2>1, <2>2, <2>3
<1> QED BY <1>1, <1>9, <1>10, IdleLookup, CacheStep

(* A lookup that fails leaves the cache as it was and keeps the invariant. *)
LEMMA UnansweredKeeps ==
    ASSUME RolesInv, NEW s \in Slot, Unanswered(s)
    PROVE  RolesInv'
<1>1. /\ UNCHANGED <<clock, role, held>> /\ entry' = entry
      /\ lookup' = [lookup EXCEPT ![s] = Idle]
    BY DEF Unanswered, cacheVars
<1>2. /\ entry \in [Member -> Entry]
      /\ \A m \in Member : entry[m].expires <= held[m][entry[m].role] + TTL
    BY DEF RolesInv, Shapes, EntriesHeld
<1> QED BY <1>1, <1>2, IdleLookup, CacheStep

-----------------------------------------------------------------------------
(* Decisions *)

(* The role is as recent as the kind of the event asks for. *)
Recent(e, r, asked) ==
    r # NoRole => IF e.kind = "message" THEN held[e.member][r] + TTL > asked
                                        ELSE held[e.member][r] >= asked

DecisionSound ==
    decision # NoDecision =>
        /\ decision.event \in Event /\ decision.role \in Role \cup {NoRole}
        /\ decision.set \in BOOLEAN /\ decision.asked \in Nat
        /\ decision.event.source = "nobody" => decision.role = NoRole
        /\ decision.outcome = IF decision.event.kind = "message"
                              THEN MessageOutcome(decision.set, decision.role)
                              ELSE CommandOutcome(decision.event, decision.set, decision.role)
        /\ Recent(decision.event, decision.role, decision.asked)

IInv == RolesInv /\ DecisionSound

(* A decision on a role that was held recently is sound. *)
LEMMA DecideSound ==
    ASSUME NEW e \in Event, NEW r \in Role \cup {NoRole}, NEW asked \in Nat,
           e.source = "nobody" => r = NoRole,
           Recent(e, r, asked)', Decide(e, r, asked)
    PROVE  DecisionSound'
<1>1. PICK set \in BOOLEAN :
          decision' = [event |-> e, role |-> r, asked |-> asked, set |-> set,
                       outcome |-> IF e.kind = "message" THEN MessageOutcome(set, r)
                                   ELSE CommandOutcome(e, set, r)]
    BY DEF Decide
<1>2. /\ decision'.event = e /\ decision'.role = r /\ decision'.asked = asked
      /\ decision'.set = set
      /\ decision'.outcome = IF e.kind = "message" THEN MessageOutcome(set, r)
                             ELSE CommandOutcome(e, set, r)
    BY <1>1
<1> QED BY <1>2 DEF DecisionSound, Recent

(* An event decided without asking the platform is decided soundly. *)
LEMMA HandleNowSound ==
    ASSUME RolesInv, NEW e \in Event, HandleNow(e)
    PROVE  RolesInv' /\ DecisionSound'
<1>1. PICK r \in Role \cup {NoRole} : ResolveNow(e, r) /\ Decide(e, r, clock)
    BY DEF HandleNow
<1>2. UNCHANGED rolesVars
    BY <1>1 DEF ResolveNow
<1>3. RolesInv'
    BY <1>2 DEF rolesVars, RolesInv, Shapes, LookupShape, HeldUpToNow, EntriesHeld, AnswersHeld
<1>4. e.member \in Member /\ clock \in Nat /\ NoRole \notin Role
    BY DEF RolesInv, Shapes, Role, NoRole
<1>5. e.source = "nobody" => r = NoRole
    BY <1>1 DEF ResolveNow
<1>6. Recent(e, r, clock)
    <2>1. CASE r = NoRole
        BY <2>1 DEF Recent
    <2>2. CASE e.source = "event" /\ r = role[e.member]
        <3>1. held[e.member][r] = clock
            BY <1>4, <2>2 DEF RolesInv, HeldUpToNow
        <3> QED BY <1>4, <3>1 DEF Recent
    <2>3. CASE Hit(e) /\ r = entry[e.member].role
        <3>1. /\ entry[e.member].expires > clock /\ entry[e.member].expires \in Nat
              /\ held[e.member][r] \in Nat
              /\ entry[e.member].expires <= held[e.member][r] + TTL
            BY <1>4, <2>3, RoleAndTimes DEF Hit, RolesInv, EntriesHeld
        <3>2. e.kind = "message"
            BY <2>3 DEF Hit
        <3> QED BY <1>4, <3>1, <3>2 DEF Recent
    <2> QED BY <1>1, <2>1, <2>2, <2>3 DEF ResolveNow
<1>7. Recent(e, r, clock)'
    BY <1>2, <1>6 DEF Recent, rolesVars
<1>8. DecisionSound'
    BY <1>1, <1>4, <1>5, <1>7, <1>2, DecideSound DEF rolesVars
<1> QED BY <1>3, <1>8

(* A lookup of somebody ends with an answer as recent as it must be, or with none. *)
LEMMA ConcludeSound ==
    ASSUME RolesInv, NEW s \in Slot, Conclude(s)
    PROVE  RolesInv' /\ DecisionSound'
<1> DEFINE k == lookup[s]
<1>1. CASE Answered(s) /\ Decide(k.event, k.role, k.asked)
    <2>1. k.pc = "answered" /\ held' = held
        BY <1>1 DEF Answered
    <2>2. k \in Lookup /\ k.event.source = "platform" /\ k.role \in Role
        BY <2>1 DEF RolesInv, Shapes, LookupShape, Idle
    <2>3. /\ k.event \in Event /\ k.asked \in Nat /\ k.event.member \in Member
          /\ k.asked <= held[k.event.member][k.role]
        BY <2>1, <2>2 DEF Lookup, RolesInv, AnswersHeld
    <2>4. held[k.event.member][k.role] \in Nat
        BY <2>2, <2>3, RoleAndTimes
    <2>5. Recent(k.event, k.role, k.asked)
        BY <2>3, <2>4 DEF Recent
    <2>6. PICK e \in Event, r \in Role, asked \in Nat :
              e = k.event /\ r = k.role /\ asked = k.asked
        BY <2>2, <2>3
    <2>7. Recent(e, r, asked)'
        BY <2>1, <2>5, <2>6 DEF Recent
    <2>8. Decide(e, r, asked) /\ e.source = "platform"
        BY <1>1, <2>2, <2>6
    <2>9. DecisionSound'
        BY <2>7, <2>8, DecideSound
    <2> QED BY <1>1, <2>9, AnsweredKeeps
<1>2. CASE Unanswered(s) /\ Decide(k.event, NoRole, k.asked)
    <2>1. k \in Lookup
        BY <1>2 DEF Unanswered, RolesInv, Shapes, LookupShape, Idle
    <2>2. PICK e \in Event, asked \in Nat : e = k.event /\ asked = k.asked
        BY <2>1 DEF Lookup
    <2>3. Recent(e, NoRole, asked)'
        BY DEF Recent
    <2>4. Decide(e, NoRole, asked)
        BY <1>2, <2>2
    <2>5. DecisionSound'
        BY <2>3, <2>4, DecideSound
    <2> QED BY <1>2, <2>5, UnansweredKeeps
<1> QED BY <1>1, <1>2 DEF Conclude

(* The inductive invariant holds at first. *)
LEMMA InitSound == Init => IInv
<1> SUFFICES ASSUME Init PROVE IInv
    OBVIOUS
<1>1. /\ clock = 1 /\ role \in [Member -> Role]
      /\ held = [m \in Member |-> [r \in Role |-> IF r = role[m] THEN 1 ELSE 0]]
      /\ entry = [m \in Member |-> NoEntry] /\ lookup = [s \in Slot |-> Idle]
    BY DEF Init, RolesInit
<1>2. NoEntry \in Entry /\ NoEntry.expires = 0 /\ NoEntry.role \in Role
    BY DEF NoEntry, Entry, Role
<1>3. Shapes
    BY <1>1, <1>2 DEF Shapes, LookupShape
<1>4. HeldUpToNow
    BY <1>1 DEF HeldUpToNow
<1>5. EntriesHeld
    BY <1>1, <1>2 DEF EntriesHeld
<1>6. AnswersHeld
    BY <1>1 DEF AnswersHeld, Idle
<1>7. DecisionSound
    BY DEF Init, DecisionSound
<1> QED BY <1>3, <1>4, <1>5, <1>6, <1>7 DEF IInv, RolesInv

(* Every step keeps the inductive invariant. *)
LEMMA NextSound == IInv /\ [Next]_entryVars => IInv'
<1> SUFFICES ASSUME IInv, [Next]_entryVars PROVE IInv'
    OBVIOUS
<1> USE DEF IInv
<1>1. CASE Platform
    <2>1. decision' = NoDecision
        BY <1>1 DEF Platform
    <2>2. DecisionSound'
        BY <2>1 DEF DecisionSound
    <2>3. CASE Tick
        <3>1. UNCHANGED <<cacheVars, lookup>>
            BY <2>3 DEF Tick
        <3> QED BY <2>2, <2>3, <3>1, TickGrows, GrowthKeeps
    <2>4. ASSUME NEW m \in Member, NEW r \in Role, ChangeRole(m, r)
          PROVE  IInv'
        <3>1. UNCHANGED <<cacheVars, lookup>> /\ clock' = clock /\ clock \in Nat
            BY <2>4 DEF ChangeRole, RolesInv, Shapes
        <3> QED BY <2>2, <2>4, <3>1, ChangeGrows, GrowthKeeps
    <2>5. ASSUME NEW s \in Slot, PlatformAnswers(s)
          PROVE  IInv'
        BY <2>2, <2>5, PlatformAnswersKeeps
    <2> QED BY <1>1, <2>3, <2>4, <2>5 DEF Platform
<1>2. ASSUME NEW e \in Event, HandleNow(e)
      PROVE  IInv'
    BY <1>2, HandleNowSound
<1>3. ASSUME NEW e \in Event, NEW s \in Slot, HandleLater(s, e)
      PROVE  IInv'
    <2>1. DecisionSound'
        BY <1>3 DEF HandleLater, DecisionSound
    <2> QED BY <1>3, <2>1, AskKeeps DEF HandleLater
<1>4. ASSUME NEW s \in Slot, Conclude(s)
      PROVE  IInv'
    BY <1>4, ConcludeSound
<1>5. CASE UNCHANGED entryVars
    BY <1>5 DEF entryVars, rolesVars, RolesInv, Shapes, LookupShape, HeldUpToNow, EntriesHeld,
               AnswersHeld, DecisionSound, Recent
<1> QED BY <1>1, <1>2, <1>3, <1>4, <1>5 DEF Next

(* The inductive invariant holds always. *)
LEMMA Sound == Spec => []IInv
<1>1. Init => IInv
    BY InitSound
<1>2. IInv /\ [Next]_entryVars => IInv'
    BY NextSound
<1> QED BY <1>1, <1>2, PTL DEF Spec

-----------------------------------------------------------------------------
(* Theorems *)

(* The role an event is judged by is recent, in whatever order the lookups of a
   member end and however small the cache is (RoleIsRecent).                 *)
THEOREM RolesAreRecent == Spec => []RoleIsRecent
<1>1. IInv => RoleIsRecent
    BY DEF IInv, DecisionSound, Recent, RoleIsRecent, Decided
<1> QED BY <1>1, Sound, PTL

(* What a decision says of its event, and what each of its outcomes needs. *)
LEMMA OutcomeKinds ==
    ASSUME IInv, Decided
    PROVE  /\ decision.event \in Event /\ decision.set \in BOOLEAN
           /\ decision.outcome = "exempt" =>
                  decision.event.kind = "message" /\ decision.set /\ decision.role = "manager"
           /\ decision.outcome \in {"run", "denied"} =>
                  /\ decision.event.kind = "command"
                  /\ decision.outcome =
                         CommandOutcome(decision.event, decision.set, decision.role)
<1>1. decision.event.kind \in {"message", "command"}
    BY DEF IInv, DecisionSound, Decided
<1>2. MessageOutcome(decision.set, decision.role) \in {"exempt", "checked"}
    BY DEF MessageOutcome
<1>3. CommandOutcome(decision.event, decision.set, decision.role) \in {"usage", "denied", "run"}
    BY DEF CommandOutcome
<1> QED BY <1>1, <1>2, <1>3 DEF IInv, DecisionSound, Decided, MessageOutcome

(* Nobody is exempt but a manager, and not for longer than the time to live after
   he was one (ExemptIsManager).                                             *)
THEOREM ExemptionIsRecent == Spec => []ExemptIsManager
<1>1. IInv => ExemptIsManager
    BY OutcomeKinds DEF ExemptIsManager, IInv, DecisionSound, Decided, Recent, NoRole
<1> QED BY <1>1, Sound, PTL

(* No command runs without the right to it (RunNeedsRight). *)
THEOREM CommandsNeedRights == Spec => []RunNeedsRight
<1>1. IInv => RunNeedsRight
    <2> SUFFICES ASSUME IInv, Decided, decision.outcome = "run", decision.set = FALSE
                 PROVE  LET e == decision.event
                        IN  /\ held[e.member]["manager"] >= decision.asked
                            /\ e.from = "group"
                            /\ e.command \notin DiagnosticCommands \cup ListCommands
                            /\ e.command \in ActionCommands \cup TargetCommands => OwnTarget(e)
        BY OutcomeKinds DEF RunNeedsRight
    <2> DEFINE e == decision.event
               r == decision.role
    <2>1. /\ e \in Event /\ e.kind = "command"
          /\ CommandOutcome(e, FALSE, r) = "run"
        BY OutcomeKinds
    <2>2. Allowed(e, FALSE, r)
        BY <2>1 DEF CommandOutcome
    <2>3. /\ e.command \notin DiagnosticCommands \cup ListCommands
          /\ e.command \in ActionCommands \cup TargetCommands => OwnTarget(e)
          /\ r = "manager"
        BY <2>2 DEF Allowed, MayTarget, CanUseCommand, DiagnosticCommands, ListCommands,
                    ActionCommands, TargetCommands
    <2>4. e.source # "nobody" /\ held[e.member]["manager"] >= decision.asked
        BY <2>1, <2>3 DEF IInv, DecisionSound, Decided, Recent, NoRole
    <2>5. e.from \in {"group", "private"} /\ (e.from = "private" => e.source = "nobody")
        BY <2>1, EntryAssumption DEF MessageEvent, CommandEvent
    <2> QED BY <2>3, <2>4, <2>5
<1> QED BY <1>1, Sound, PTL

(* No command is denied to somebody with the right to it (DenialIsJustified). *)
THEOREM DenialsAreJustified == Spec => []DenialIsJustified
<1>1. IInv => DenialIsJustified
    <2> SUFFICES ASSUME IInv, Decided, decision.outcome = "denied"
                 PROVE  LET e == decision.event
                        IN  /\ ~decision.set
                            /\ \/ e.command \in DiagnosticCommands \cup ListCommands
                               \/ e.command \in ActionCommands \cup TargetCommands /\ ~OwnTarget(e)
                               \/ decision.role = NoRole
                               \/ held[e.member]["member"] >= decision.asked
        BY DEF DenialIsJustified
    <2> DEFINE e == decision.event
               r == decision.role
               set == decision.set
    <2>1. /\ e \in Event /\ e.kind = "command" /\ set \in BOOLEAN
          /\ CommandOutcome(e, set, r) = "denied"
        BY OutcomeKinds
    <2>2. ~Allowed(e, set, r)
        BY <2>1 DEF CommandOutcome
    <2>3. /\ ~set
          /\ \/ e.command \in DiagnosticCommands \cup ListCommands
             \/ e.command \in ActionCommands \cup TargetCommands /\ ~OwnTarget(e)
             \/ r # "manager"
        BY <2>1, <2>2 DEF Allowed, MayTarget, CanUseCommand
    <2>4. r \in Role \cup {NoRole} /\ (r # NoRole => held[e.member][r] >= decision.asked)
        BY <2>1 DEF IInv, DecisionSound, Decided, Recent
    <2> QED BY <2>3, <2>4 DEF Role
<1> QED BY <1>1, Sound, PTL
=============================================================================
