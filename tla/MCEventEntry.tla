---------------------------- MODULE MCEventEntry ----------------------------
(* Instances of EventEntry for TLC. *)
EXTENDS EventEntry, TLC

CONSTANTS m1, m2, s1, s2

Message(m) == [kind |-> "message", member |-> m, source |-> "platform"]

Command(source, from, command, target) ==
    [kind |-> "command", member |-> m1, source |-> source, from |-> from, command |-> command,
     target |-> target]

(* Messages of both members; commands of one, of every kind of check.  Those whose
   sender is looked up differ in nothing but the check.                      *)
MCEvent == {Message(m1), Message(m2),
            Command("platform", "group", "enable", "own"),
            Command("event", "group", "mute", "other"),
            Command("event", "group", "regex-skips", "none"),
            Command("event", "group", "action-mode", "other"),
            Command("nobody", "private", "group-add", "none")}

Slots == Permutations(Slot)
=============================================================================
