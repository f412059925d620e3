---------------------------- MODULE GroupPolicies ----------------------------
(***************************************************************************)
(* command_runtime.py and repository_runtime_state.py: the policies of the *)
(* groups, kept in the memory of a plugin instance, changed by commands    *)
(* under one lock, and written as a whole to the database by a thread      *)
(* while the command waits.  An instance loads them in its constructor     *)
(* with one SELECT per table.  Commands of the previous instance that a    *)
(* hot reload leaves behind go on with their own memory.                   *)
(*                                                                         *)
(* The two flags share the code of their commands, and so do the two lists *)
(* of words.  inherit_global and global_enabled only come from state.json  *)
(* and are left out.                                                       *)
(***************************************************************************)
EXTENDS WordLists, FiniteSets, SequencesExt

CONSTANTS
    Group, Word,
    WordLength,      \* the length of a word
    Settings,        \* possible [count, length]: max_word_count and max_word_length
    Requests,        \* the commands that may arrive
    Files,           \* what state.json may be
    Databases,       \* the policies that a database may hold at first
    Task,            \* commands in flight
    MaxInstance,     \* bound: plugin instances, one after the other
    MaxCommands,     \* bound: commands
    MaxErrors        \* bound: database calls that fail

Instance == 1 .. MaxInstance

Flag == {"enabled", "admin_exempt"}
Value == {"unset", "on", "off"}
List == {"custom", "bypass"}

Policy == [flags: [Flag -> Value], words: [List -> Seq(Word)]]

(* GroupPolicy() *)
NewPolicy == [flags |-> [enabled |-> "unset", admin_exempt |-> "on"],
              words |-> [custom |-> <<>>, bypass |-> <<>>]]

(* RuntimeState.groups and the rows of the three tables: a policy for some
   groups.                                                                   *)
IsPolicies(groups) == /\ DOMAIN groups \subseteq Group
                      /\ \A g \in DOMAIN groups : groups[g] \in Policy

NoPolicies == [g \in {} |-> NewPolicy]

ASSUME PolicyAssumption == /\ WordLength \in [Word -> Nat]
                           /\ Settings \subseteq [count: Nat \ {0}, length: Nat \ {0}]
                           /\ Settings # {}
                           /\ Requests \subseteq
                                 [op: {"set"}, group: Group, flag: Flag, value: {"on", "off"}]
                                 \cup [op: {"add", "remove"}, group: Group, list: List,
                                       words: Seq(Word)]
                           /\ \A d \in Databases : IsPolicies(d.rows) /\ d.written \in BOOLEAN
                           /\ \A f \in Files : /\ f.kind \in {"none", "unreadable", "policies"}
                                                /\ IsPolicies(f.groups)
                           /\ "free" \notin Task
                           /\ MaxInstance \in Nat \ {0}
                           /\ MaxCommands \in Nat
                           /\ MaxErrors \in Nat

VARIABLES
    stored,      \* group_policies, group_words and group_bypass_words
    written,     \* runtime_state has its row: some save has happened
    file,        \* state.json
    cur,         \* the instance that is loaded last
    phase,       \* of cur: "down", then what its constructor loads next, then "up"
    settings,    \* settings[i]: ChatFilterSettings of instance i
    memory,      \* memory[i]: RuntimeState.groups of instance i
    holder,      \* holder[i]: the task that holds _state_lock of instance i
    task,        \* task[t]: the command
    standing,    \* standing[i]: how memory[i] and stored differ
    promise,     \* what the answers so far say that the database holds
    commands, errors

policyVars == <<stored, written, file, cur, phase, settings, memory, holder, task,
                standing, promise, commands, errors>>

Phase == {"down", "import", "write", "policies", "custom", "bypass", "up"}

(* The values of standing are "same": between commands memory is what the database
   holds; "ahead": a save failed and the change is in memory only; "other": what was
   loaded is not what the database holds now.                                *)

Free == "free"
Idle == [pc |-> "idle"]

(* promise has for every flag a value and for every word "in" or "out", or nothing. *)
Nothing == [flags |-> [f \in Flag |-> "unsure"],
            words |-> [l \in List |-> [w \in Word |-> "unsure"]]]

PolicyOf(groups, g) == IF g \in DOMAIN groups THEN groups[g] ELSE NewPolicy

With(groups, g, policy) ==
    [h \in DOMAIN groups \cup {g} |-> IF h = g THEN policy ELSE groups[h]]

(* The event loop is not inside the constructor of a plugin. *)
LoopRuns == phase \in {"down", "up"}

Error == errors < MaxErrors /\ errors' = errors + 1

-----------------------------------------------------------------------------
(* domain/settings.py *)

(* Mutant: the list may grow one beyond its limit. *)
NormalizeWordsOneMore(words, limit) ==
    LET kept[n \in 0 .. Len(words)] ==
            IF n = 0 THEN <<>>
            ELSE IF \/ WordLength[words[n]] > limit.length
                    \/ words[n] \in ToSet(kept[n - 1])
                    \/ Len(kept[n - 1]) > limit.count
                 THEN kept[n - 1] ELSE Append(kept[n - 1], words[n])
    IN  kept[Len(words)]

NormalizeWords(words, limit) ==
    LET kept[n \in 0 .. Len(words)] ==
            IF n = 0 THEN <<>>
            ELSE IF \/ WordLength[words[n]] > limit.length
                    \/ words[n] \in ToSet(kept[n - 1])
                    \/ Len(kept[n - 1]) >= limit.count
                 THEN kept[n - 1] ELSE Append(kept[n - 1], words[n])
    IN  kept[Len(words)]

NormalizePolicy(policy, limit) ==
    [policy EXCEPT !.words = [l \in List |-> NormalizeWords(policy.words[l], limit)]]

NormalizeAll(groups, limit) == [g \in DOMAIN groups |-> NormalizePolicy(groups[g], limit)]

-----------------------------------------------------------------------------
(* What a database lets one rely on. *)

Certain(groups) ==
    [g \in Group |->
        [flags |-> PolicyOf(groups, g).flags,
         words |-> [l \in List |-> [w \in Word |->
                       IF w \in ToSet(PolicyOf(groups, g).words[l]) THEN "in" ELSE "out"]]]]

Unsure == [g \in Group |-> Nothing]

(* _has_database_state *)
HasState == written \/ DOMAIN stored # {}

Init == /\ \E d \in Databases : stored = d.rows /\ written = d.written
        /\ file \in Files
        /\ cur = 1
        /\ phase = "down"
        /\ settings \in [Instance -> Settings]
        /\ memory = [i \in Instance |-> NoPolicies]
        /\ holder = [i \in Instance |-> Free]
        /\ task = [t \in Task |-> Idle]
        /\ standing = [i \in Instance |-> "other"]
        /\ promise = IF HasState THEN Certain(stored) ELSE Unsure
        /\ commands = 0
        /\ errors = 0

-----------------------------------------------------------------------------
(* RuntimeStateRepositoryMixin.load, in the constructor of an instance *)

StartLoad == /\ phase = "down"
             /\ phase' = "import"
             /\ UNCHANGED <<stored, written, file, cur, settings, memory, holder, task,
                            standing, promise, commands, errors>>

(* _migrate_json_state_if_needed: its SELECT, then the save of what the file
   holds.                                                                    *)
SkipImport == /\ phase = "import"
              /\ file.kind = "none" \/ HasState
              /\ phase' = "policies"
              /\ UNCHANGED <<stored, written, file, cur, settings, memory, holder, task,
                             standing, promise, commands, errors>>

DecideImport == /\ phase = "import"
                /\ file.kind = "policies" /\ ~HasState
                /\ phase' = "write"
                /\ UNCHANGED <<stored, written, file, cur, settings, memory, holder, task,
                               standing, promise, commands, errors>>

Import == /\ phase = "write"
          /\ stored' = NormalizeAll(file.groups, settings[cur])
          /\ written' = TRUE
          /\ promise' = Certain(stored')
          /\ standing' = [i \in Instance |-> "other"]
          /\ phase' = "policies"
          /\ UNCHANGED <<file, cur, settings, memory, holder, task, commands, errors>>

(* _load_from_database, a SELECT of one table at a time *)
LoadFlags ==
    /\ phase = "policies"
    /\ memory' = [memory EXCEPT ![cur] =
                     [g \in DOMAIN stored |-> [NewPolicy EXCEPT !.flags = stored[g].flags]]]
    /\ standing' = [standing EXCEPT ![cur] =
                       IF stored = NormalizeAll(stored, settings[cur]) THEN "same" ELSE "other"]
    /\ phase' = "custom"
    /\ UNCHANGED <<stored, written, file, cur, settings, holder, task, promise, commands, errors>>

(* Mutant: the policy of a group with words is built anew and loses its flags. *)
LoadWordsOnly(l) ==
    /\ phase = l
    /\ memory' = [memory EXCEPT ![cur] =
          [g \in DOMAIN @ \cup {h \in DOMAIN stored : stored[h].words[l] # <<>>} |->
              IF g \in DOMAIN stored /\ stored[g].words[l] # <<>>
              THEN [NewPolicy EXCEPT !.words[l] = NormalizeWords(stored[g].words[l], settings[cur])]
              ELSE PolicyOf(@, g)]]
    /\ phase' = IF l = "custom" THEN "bypass" ELSE "up"
    /\ UNCHANGED <<stored, written, file, cur, settings, holder, task, standing, promise,
                   commands, errors>>

LoadWords(l) ==
    /\ phase = l
    /\ memory' = [memory EXCEPT ![cur] =
          [g \in DOMAIN @ \cup {h \in DOMAIN stored : stored[h].words[l] # <<>>} |->
              IF g \in DOMAIN stored /\ stored[g].words[l] # <<>>
              THEN [PolicyOf(@, g) EXCEPT
                       !.words[l] = NormalizeWords(stored[g].words[l], settings[cur])]
              ELSE PolicyOf(@, g)]]
    /\ phase' = IF l = "custom" THEN "bypass" ELSE "up"
    /\ UNCHANGED <<stored, written, file, cur, settings, holder, task, standing, promise,
                   commands, errors>>

(* load_runtime_state: any other exception than a refused schema leaves the
   instance with no policies at all.                                         *)
LoadFails ==
    /\ \/ phase \in Phase \ {"down", "up"} /\ Error
       \/ phase = "import" /\ file.kind = "unreadable" /\ ~HasState /\ UNCHANGED errors
    /\ memory' = [memory EXCEPT ![cur] = NoPolicies]
    /\ standing' = [standing EXCEPT ![cur] = "other"]
    /\ phase' = "up"
    /\ UNCHANGED <<stored, written, file, cur, settings, holder, task, promise, commands>>

Load == \/ StartLoad \/ SkipImport \/ DecideImport \/ Import \/ LoadFlags
        \/ \E l \in List : LoadWords(l)
        \/ LoadFails

-----------------------------------------------------------------------------
(* Commands *)

(* A word that is too long is reported and skipped before the lock. *)
Todo(r, i) == CASE r.op = "set" -> <<"flag">>
                [] r.op = "add" -> Only(r.words, {w \in Word : WordLength[w] <= settings[i].length})
                [] r.op = "remove" -> r.words

Arrive(t, r) ==
    /\ phase = "up"
    /\ task[t] = Idle
    /\ commands < MaxCommands
    /\ commands' = commands + 1
    /\ Todo(r, cur) # <<>>
    /\ task' = [task EXCEPT ![t] = [pc |-> "waiting", inst |-> cur, request |-> r,
                                    todo |-> Todo(r, cur)]]
    /\ UNCHANGED <<stored, written, file, cur, phase, settings, memory, holder, standing,
                   promise, errors>>

(* _add_group_words and _remove_group_words take the lock once for each word. *)
MovedOn(c) == IF Len(c.todo) = 1 THEN Idle
              ELSE [c EXCEPT !.pc = "waiting", !.todo = Tail(@)]

(* The policy after the change, the same one when there is nothing to change. *)
Changed(policy, r, item, limit) ==
    CASE r.op = "set" -> [policy EXCEPT !.flags[r.flag] = r.value]
      [] r.op = "add" ->
            IF item \in ToSet(policy.words[r.list]) \/ Len(policy.words[r.list]) >= limit
            THEN policy ELSE [policy EXCEPT !.words[r.list] = Append(@, item)]
      [] r.op = "remove" ->
            [policy EXCEPT !.words[r.list] = Only(@, Word \ {item})]

(* exists, limit, not_found: answered without a save.  A flag is always saved. *)
NoChange(t) ==
    LET c == task[t]  i == c.inst  r == c.request
        old == PolicyOf(memory[i], r.group)
    IN  /\ LoopRuns
        /\ c.pc = "waiting" /\ holder[i] = Free
        /\ r.op # "set"
        /\ Changed(old, r, Head(c.todo), settings[i].count) = old
        /\ task' = [task EXCEPT ![t] = MovedOn(c)]
        /\ UNCHANGED <<stored, written, file, cur, phase, settings, memory, holder, standing,
                       promise, commands, errors>>

(* The promise about what a command changes becomes v. *)
PromiseOf(r, item, v) ==
    IF r.op = "set" THEN [promise EXCEPT ![r.group].flags[r.flag] = v]
                    ELSE [promise EXCEPT ![r.group].words[r.list][item] = v]

(* Mutant: memory changes before the lock is taken. *)
ApplyUnlocked(t) ==
    LET c == task[t]  i == c.inst  r == c.request
        old == PolicyOf(memory[i], r.group)
        new == Changed(old, r, Head(c.todo), settings[i].count)
    IN  /\ LoopRuns
        /\ c.pc = "waiting"
        /\ r.op = "set" \/ new # old
        /\ holder' = [holder EXCEPT ![i] = t]
        /\ memory' = [memory EXCEPT ![i] = With(@, r.group, new)]
        /\ promise' = PromiseOf(r, Head(c.todo), "unsure")
        /\ task' = [task EXCEPT ![t].pc = "saving"]
        /\ UNCHANGED <<stored, written, file, cur, phase, settings, standing, commands, errors>>

(* Under the lock the policy is copied, changed and put back without an await;
   the save then runs in a thread.                                           *)
Apply(t) ==
    LET c == task[t]  i == c.inst  r == c.request
        old == PolicyOf(memory[i], r.group)
        new == Changed(old, r, Head(c.todo), settings[i].count)
    IN  /\ LoopRuns
        /\ c.pc = "waiting" /\ holder[i] = Free
        /\ r.op = "set" \/ new # old
        /\ holder' = [holder EXCEPT ![i] = t]
        /\ memory' = [memory EXCEPT ![i] = With(@, r.group, new)]
        /\ promise' = PromiseOf(r, Head(c.todo), "unsure")
        /\ task' = [task EXCEPT ![t].pc = "saving"]
        /\ UNCHANGED <<stored, written, file, cur, phase, settings, standing, commands, errors>>

(* Mutant: the save was not told of the bypass words. *)
SaveForgetsBypass(t) ==
    LET i == task[t].inst
    IN  /\ task[t].pc = "saving"
        /\ stored' = [g \in DOMAIN memory[i] |-> [memory[i][g] EXCEPT !.words["bypass"] = <<>>]]
        /\ written' = TRUE
        /\ promise' = IF standing[i] = "other" THEN Unsure ELSE promise
        /\ standing' = [j \in Instance |-> IF j = i THEN "same" ELSE "other"]
        /\ task' = [task EXCEPT ![t].pc = "saved"]
        /\ UNCHANGED <<file, cur, phase, settings, memory, holder, commands, errors>>

(* _save_to_database: one transaction replaces all rows by the memory of the
   instance: no other instance has in memory, or is reading, what the database
   holds now.  A thread also runs while the constructor blocks the loop.     *)
SaveCommits(t) ==
    LET i == task[t].inst
    IN  /\ task[t].pc = "saving"
        /\ stored' = memory[i]
        /\ written' = TRUE
        /\ promise' = IF standing[i] = "other" THEN Unsure ELSE promise
        /\ standing' = [j \in Instance |-> IF j = i THEN "same" ELSE "other"]
        /\ task' = [task EXCEPT ![t].pc = "saved"]
        /\ UNCHANGED <<file, cur, phase, settings, memory, holder, commands, errors>>

(* The change stays in memory. *)
SaveFails(t) ==
    LET i == task[t].inst
    IN  /\ task[t].pc = "saving"
        /\ Error
        /\ standing' = [standing EXCEPT ![i] = IF @ = "other" THEN @ ELSE "ahead"]
        /\ task' = [task EXCEPT ![t].pc = "failed"]
        /\ UNCHANGED <<stored, written, file, cur, phase, settings, memory, holder, promise,
                       commands>>

(* The value that the answer of a successful command promises. *)
Answered(r) == CASE r.op = "set" -> r.value
                 [] r.op = "add" -> "in"
                 [] r.op = "remove" -> "out"

Answer(t) ==
    LET c == task[t]
    IN  /\ LoopRuns
        /\ c.pc \in {"saved", "failed"}
        /\ holder' = [holder EXCEPT ![c.inst] = Free]
        /\ promise' = IF c.pc = "saved" /\ c.inst = cur /\ standing[cur] = "same"
                      THEN PromiseOf(c.request, Head(c.todo), Answered(c.request)) ELSE promise
        /\ task' = [task EXCEPT ![t] = MovedOn(c)]
        /\ UNCHANGED <<stored, written, file, cur, phase, settings, memory, standing, commands,
                       errors>>

Command(t) == \/ \E r \in Requests : Arrive(t, r)
              \/ NoChange(t) \/ Apply(t) \/ SaveCommits(t) \/ SaveFails(t) \/ Answer(t)

-----------------------------------------------------------------------------
(* The plugin is unloaded, with its commands still in flight, or the process
   dies with them.                                                           *)

Reload == /\ phase = "up"
          /\ cur < MaxInstance
          /\ cur' = cur + 1
          /\ phase' = "down"
          /\ UNCHANGED <<stored, written, file, settings, memory, holder, task, standing, promise,
                         commands, errors>>

Crash == /\ phase # "down"
         /\ cur < MaxInstance
         /\ cur' = cur + 1
         /\ phase' = "down"
         /\ memory' = [i \in Instance |-> NoPolicies]
         /\ holder' = [i \in Instance |-> Free]
         /\ task' = [t \in Task |-> Idle]
         /\ standing' = [i \in Instance |-> "other"]
         /\ UNCHANGED <<stored, written, file, settings, promise, commands, errors>>

Next == \/ Load \/ Reload \/ Crash
        \/ \E t \in Task : Command(t)

Spec == Init /\ [][Next]_policyVars

-----------------------------------------------------------------------------
(* Properties *)

(* What is in memory keeps the limits of the instance, whatever the database
   and state.json held and whichever commands ran at once.                   *)
WordsWithinLimit ==
    \A i \in 1 .. cur : \A g \in DOMAIN memory[i] : \A l \in List :
        LET words == memory[i][g].words[l]
        IN  /\ IsInjective(words)
            /\ Len(words) <= settings[i].count
            /\ \A n \in 1 .. Len(words) : WordLength[words[n]] <= settings[i].length

(* Between commands the database holds exactly the memory of the instance,
   unless a save failed, the load was not complete, or the commands of an
   unloaded instance have saved since.                                       *)
QuiescentMeansSaved ==
    phase = "up" /\ holder[cur] = Free /\ standing[cur] = "same" => stored = memory[cur]

(* What was answered stays true of the database through crashes, reloads, failed
   saves and failed loads, until an instance whose memory is not what the
   database holds saves over it.                                             *)
AnsweredIsStored ==
    \A g \in Group :
        /\ \A f \in Flag : \/ promise[g].flags[f] = "unsure"
                           \/ PolicyOf(stored, g).flags[f] = promise[g].flags[f]
        /\ \A l \in List, w \in Word :
              CASE promise[g].words[l][w] = "in" -> w \in ToSet(PolicyOf(stored, g).words[l])
                [] promise[g].words[l][w] = "out" -> w \notin ToSet(PolicyOf(stored, g).words[l])
                [] OTHER -> TRUE

(* The thread of a save iterates over the policies: no command of the instance
   changes them meanwhile, nor does a second save run.                       *)
SaveIsAlone ==
    [][\A i \in Instance, t \in Task :
          task[t].pc = "saving" /\ task[t].inst = i /\ task'[t] = task[t]
             => /\ memory'[i] = memory[i]
                /\ \A u \in Task \ {t} : task[u] # Idle /\ task[u].inst = i
                                            => task'[u].pc \notin {"saving"}]_policyVars
=============================================================================
