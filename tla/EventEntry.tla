----------------------------- MODULE EventEntry -----------------------------
(***************************************************************************)
(* The way of an event into the plugin: main.py resolves the role of the   *)
(* sender (GroupMemberRoles) and then decides, without another await, what *)
(* the role allows.  A message is checked or exempt (matcher.py); a        *)
(* command is run, denied or answered with its usage                       *)
(* (command_gateway.py, command_controller.py, command_auth.py).           *)
(*                                                                         *)
(* What a command does once it runs, and what becomes of a message, are    *)
(* other modules' matter; here an event ends with the decision.            *)
(***************************************************************************)
EXTENDS GroupMemberRoles

VARIABLE decision     \* what the step decides, if it decides something

entryVars == <<rolesVars, decision>>

NoDecision == [outcome |-> "none"]

-----------------------------------------------------------------------------
(* command_controller.py: which check a command makes first *)

ManagerCommands == {"bind", "mute", "mute-stack", "probe", "forward-probe", "report-dry-run",
                    "file-probe", "help", "status", "overview"}

OwnGroupCommands == {"group-status", "group-enable", "group-disable", "group-add",
                     "group-remove", "group-list", "group-admin-exempt", "action-overview"}

DiagnosticCommands == {"regex-skips", "metrics"}

ListCommands == {"group-add-to", "group-remove-to"}

ActionCommands == {"action-status", "action-toggle", "action-mode"}

TargetCommands == {"enable", "disable", "group-bypass-add", "group-bypass-remove",
                   "group-bypass-list"}

(* An event of a group or of a private chat, with the group it names: none, its
   own, another one, or something that is no group id.                       *)
CommandEvent == [kind: {"command"}, member: Member, source: Source, from: {"group", "private"},
                 target: {"none", "own", "other", "invalid"},
                 command: ManagerCommands \cup OwnGroupCommands \cup DiagnosticCommands
                          \cup ListCommands \cup ActionCommands \cup TargetCommands]

MessageEvent == [kind: {"message"}, member: Member, source: Source]

(* In a private chat there is no group to look the sender up in. *)
ASSUME EntryAssumption ==
    Event \subseteq MessageEvent \cup {e \in CommandEvent :
                        e.from = "private" => e.target # "own" /\ e.source = "nobody"}

OwnTarget(e) == e.target \in {"none", "own"}

(* resolve_target_group_id and resolve_target_group_key: None *)
NoTarget(e) == e.target = "invalid" \/ (e.target = "none" /\ e.from = "private")

-----------------------------------------------------------------------------
(* command_auth.py *)

(* Mutant: an administrator needs the role as well. *)
CanUseCommandBoth(admin, r) == admin /\ r = "manager"

CanUseCommand(admin, r) == admin \/ r = "manager"

(* Mutant: the target is compared with nothing. *)
MayTargetAny(e, admin, r) == CanUseCommand(admin, r)

(* _action_policy_denial and _target_group_permission_denial *)
MayTarget(e, admin, r) == IF OwnTarget(e) THEN CanUseCommand(admin, r) ELSE admin

Allowed(e, admin, r) ==
    CASE e.command \in DiagnosticCommands \cup ListCommands -> admin
      [] e.command \in ActionCommands \cup TargetCommands   -> MayTarget(e, admin, r)
      [] OTHER                                              -> CanUseCommand(admin, r)

(* The commands on a policy resolve their target before they check the sender,
   the others afterwards.                                                    *)
CommandOutcome(e, admin, r) ==
    CASE e.command \in ActionCommands /\ NoTarget(e)              -> "usage"
      [] ~Allowed(e, admin, r)                                    -> "denied"
      [] e.command \in ListCommands \cup TargetCommands
             /\ NoTarget(e)                                       -> "usage"
      [] e.command = "group-bypass-add" /\ e.target = "none"      -> "usage"
      [] e.command \in OwnGroupCommands \ {"action-overview"}
             /\ e.from = "private"                                -> "usage"
      [] OTHER                                                    -> "run"

(* Mutant: managers are exempt in every group. *)
MessageOutcomeAny(exempting, r) == IF r = "manager" THEN "exempt" ELSE "checked"

(* ChatFilterMatcher.detect *)
MessageOutcome(exempting, r) == IF exempting /\ r = "manager" THEN "exempt" ELSE "checked"

(* What is read at the decision: whether AstrBot's configuration can be read and
   has the sender among its administrators (check_global_permission), or
   admin_exempt_enabled of the group's policy.                               *)
Decide(e, r, asked) ==
    \E set \in BOOLEAN :
        decision' = [event |-> e, role |-> r, asked |-> asked, set |-> set,
                     outcome |-> IF e.kind = "message" THEN MessageOutcome(set, r)
                                 ELSE CommandOutcome(e, set, r)]

-----------------------------------------------------------------------------
Init == RolesInit /\ decision = NoDecision

HandleNow(e) == \E r \in Role \cup {NoRole} : ResolveNow(e, r) /\ Decide(e, r, clock)

HandleLater(s, e) == Ask(s, e) /\ decision' = NoDecision

Conclude(s) ==
    \/ Answered(s) /\ Decide(lookup[s].event, lookup[s].role, lookup[s].asked)
    \/ Unanswered(s) /\ Decide(lookup[s].event, NoRole, lookup[s].asked)

Platform == /\ \/ Tick
               \/ \E m \in Member, r \in Role : ChangeRole(m, r)
               \/ \E s \in Slot : PlatformAnswers(s)
            /\ decision' = NoDecision

Next == \/ Platform
        \/ \E e \in Event : HandleNow(e) \/ \E s \in Slot : HandleLater(s, e)
        \/ \E s \in Slot : Conclude(s)

Spec == Init /\ [][Next]_entryVars

-----------------------------------------------------------------------------
(* Properties *)

Decided == decision # NoDecision

(* A role that decides on a message was the sender's role less than the time to
   live before the message arrived; the role that decides on a command was his
   after the command arrived.  It does not matter in which order the lookups of
   a member end, and which of their answers stays in the cache.              *)
RoleIsRecent ==
    Decided /\ decision.role # NoRole =>
        LET last == held[decision.event.member][decision.role]
        IN  IF decision.event.kind = "message" THEN last + TTL > decision.asked
                                               ELSE last >= decision.asked

(* No command is run but for an administrator of AstrBot or for a sender who has
   been a manager of the group since it arrived; one that names another group, or
   that the documentation reserves to administrators, only for an administrator.
   bind, mute, mute-stack and the probes take a group too, and leave it to the
   role in the sender's own group.                                           *)
RunNeedsRight ==
    Decided /\ decision.outcome = "run" =>
        LET e == decision.event
        IN  \/ decision.set
            \/ /\ held[e.member]["manager"] >= decision.asked
               /\ e.from = "group"
               /\ e.command \notin DiagnosticCommands \cup ListCommands
               /\ e.command \in ActionCommands \cup TargetCommands => OwnTarget(e)

(* Nobody is denied who has the right: an administrator never while the list can
   be read, a manager not unless his role was not found out or has changed.  *)
DenialIsJustified ==
    Decided /\ decision.outcome = "denied" =>
        LET e == decision.event
        IN  /\ ~decision.set
            /\ \/ e.command \in DiagnosticCommands \cup ListCommands
               \/ e.command \in ActionCommands \cup TargetCommands /\ ~OwnTarget(e)
               \/ decision.role = NoRole
               \/ held[e.member]["member"] >= decision.asked

(* Only managers are exempt, only where the policy exempts them, and not for
   longer than the time to live after they have lost the role.               *)
ExemptIsManager ==
    Decided /\ decision.outcome = "exempt" =>
        /\ decision.set
        /\ held[decision.event.member]["manager"] + TTL > decision.asked
=============================================================================
