-------------------------- MODULE GroupMemberRoles --------------------------
(***************************************************************************)
(* platform/group_member_role_resolver.py: the role of a sender in his     *)
(* group, from the event, from the cache or from a query of the platform.  *)
(* Messages may be answered from the cache, commands never are, but the    *)
(* answers of both go into it.                                             *)
(*                                                                         *)
(* A lookup reads the clock and the cache, awaits the query, and stores    *)
(* the answer.  In between other lookups of the same member start and end, *)
(* in any order, and the platform changes roles.  Owner and administrator  *)
(* are one role, and a member stands for its cache key.                    *)
(***************************************************************************)
EXTENDS Integers, SequencesExt

CONSTANTS
    Member,
    Slot,          \* lookups in flight
    Event,         \* what may arrive: records with a kind, a member and a source
    TTL,           \* cache_ttl_seconds
    MaxEntries,    \* cache_max_entries
    Horizon        \* bound: the last reading of the clock

Role == {"manager", "member"}
NoRole == "none"

(* Where the role is found: the event carries it, the platform can be asked, or
   neither, for lack of a client or of valid ids.                            *)
Source == {"event", "platform", "nobody"}

ASSUME RolesAssumption == /\ \A e \in Event : /\ e.kind \in {"message", "command"}
                                              /\ e.member \in Member
                                              /\ e.source \in Source
                          /\ TTL \in Nat \ {0}
                          /\ MaxEntries \in Nat \ {0}
                          /\ Horizon \in Nat

VARIABLES
    clock,     \* monotonic()
    role,      \* role[m]: the role of m on the platform
    held,      \* held[m][r]: the last time at which m had the role r, or 0
    order,     \* the members in the cache, in the order of the dict
    entry,     \* entry[m]: role and expiry
    lookup     \* lookup[s]: a lookup in flight

rolesVars == <<clock, role, held, order, entry, lookup>>
cacheVars == <<order, entry>>

Entry == [role: Role, expires: Nat]
NoEntry == [role |-> "member", expires |-> 0]

Lookup == [pc: {"asking", "answered"}, event: Event, asked: Nat, role: Role \cup {NoRole}]
Idle == [pc |-> "idle"]

RolesInit == /\ clock = 1
             /\ role \in [Member -> Role]
             /\ held = [m \in Member |-> [r \in Role |-> IF r = role[m] THEN 1 ELSE 0]]
             /\ order = << >>
             /\ entry = [m \in Member |-> NoEntry]
             /\ lookup = [s \in Slot |-> Idle]

-----------------------------------------------------------------------------
(* The platform and the clock. *)

Tick == /\ clock < Horizon
        /\ clock' = clock + 1
        /\ held' = [m \in Member |-> [held[m] EXCEPT ![role[m]] = clock']]
        /\ UNCHANGED <<role, cacheVars, lookup>>

ChangeRole(m, r) == /\ r # role[m]
                    /\ role' = [role EXCEPT ![m] = r]
                    /\ held' = [held EXCEPT ![m][r] = clock]
                    /\ UNCHANGED <<clock, cacheVars, lookup>>

-----------------------------------------------------------------------------
(* _store_cache_entry *)

(* _prune_cache *)
Unexpired(now) == SelectSeq(order, LAMBDA m : entry[m].expires > now)

(* The oldest entries leave until there is room for one more, even when the
   answer is for a member who has an entry already.                          *)
Kept(now) ==
    LET live == Unexpired(now)
    IN  SubSeq(live, IF Len(live) >= MaxEntries THEN Len(live) - MaxEntries + 2 ELSE 1, Len(live))

(* A member who is still in the cache keeps his place in the dict. *)
Put(kept, m, r, expires) ==
    /\ order' = IF Contains(kept, m) THEN kept ELSE Append(kept, m)
    /\ entry' = [n \in Member |->
                    CASE n = m             -> [role |-> r, expires |-> expires]
                      [] n # m /\ Contains(kept, n) -> entry[n]
                      [] OTHER             -> NoEntry]

(* Mutant: the time to live counts from the answer. *)
StoreLate(m, r, now) == Put(Kept(clock), m, r, clock + TTL)

(* now is the time at which the lookup began. *)
Store(m, r, now) == Put(Kept(now), m, r, now + TTL)

-----------------------------------------------------------------------------
(* _resolve_role *)

Hit(e) == e.kind = "message" /\ entry[e.member].expires > clock

ResolveNow(e, r) == /\ \/ e.source = "event" /\ r = role[e.member]
                       \/ e.source = "nobody" /\ r = NoRole
                       \/ e.source = "platform" /\ Hit(e) /\ r = entry[e.member].role
                    /\ UNCHANGED rolesVars

(* An entry of a message's sender that has expired is removed first. *)
Ask(s, e) ==
    /\ lookup[s] = Idle
    /\ e.source = "platform" /\ ~Hit(e)
    /\ lookup' = [lookup EXCEPT ![s] = [pc |-> "asking", event |-> e, asked |-> clock,
                                        role |-> NoRole]]
    /\ IF e.kind = "message"
       THEN /\ order' = Remove(order, e.member)
            /\ entry' = [entry EXCEPT ![e.member] = NoEntry]
       ELSE UNCHANGED cacheVars
    /\ UNCHANGED <<clock, role, held>>

(* The platform answers the query; the lookup goes on later. *)
PlatformAnswers(s) ==
    /\ lookup[s].pc = "asking"
    /\ lookup' = [lookup EXCEPT ![s].pc = "answered",
                                ![s].role = role[lookup[s].event.member]]
    /\ UNCHANGED <<clock, role, held, cacheVars>>

(* The lookup ends with the answer. *)
Answered(s) ==
    /\ lookup[s].pc = "answered"
    /\ Store(lookup[s].event.member, lookup[s].role, lookup[s].asked)
    /\ lookup' = [lookup EXCEPT ![s] = Idle]
    /\ UNCHANGED <<clock, role, held>>

(* The query fails or times out, even when the answer is on its way, or the answer
   holds no role.                                                            *)
Unanswered(s) ==
    /\ lookup[s].pc \in {"asking", "answered"}
    /\ lookup' = [lookup EXCEPT ![s] = Idle]
    /\ UNCHANGED <<clock, role, held, cacheVars>>
=============================================================================
