----------------------------- MODULE PolicyStore -----------------------------
(***************************************************************************)
(* The database of the policies over the lives of the plugin:              *)
(* build_chat_filter_runtime first opens the repository, which migrates    *)
(* the schema (DatabaseSchema), and then loads the policies, which         *)
(* commands change and save (GroupPolicies).  Both happen in one call of   *)
(* the constructor, so the event loop stands still between them.           *)
(***************************************************************************)
EXTENDS DatabaseSchema, GroupPolicies

storeVars == <<schemaVars, policyVars>>

(* A file that was never used holds no policies, and the tables of a version
   hold what that version could save.                                        *)
StoreInit == /\ SchemaInit
             /\ Init
             /\ version = 0 => ~HasState
             /\ version < 3 => \A g \in DOMAIN stored : stored[g].flags.admin_exempt = "on"
             /\ version < 6 => \A g \in DOMAIN stored : stored[g].words.bypass = <<>>

(* The first connection: RuleSnapshot.from_repository *)
Migrate == /\ phase = "down"
           /\ EnsureSchema
           /\ UNCHANGED policyVars

LoadPolicies == /\ opening = "ready"
                /\ Load
                /\ UNCHANGED schemaVars

Commands == /\ phase = "down" => opening \in {"closed", "refused"}
            /\ \E t \in Task : Command(t)
            /\ UNCHANGED schemaVars

(* A thread of the previous instance does not wait. *)
Threads == /\ phase = "down" /\ opening \notin {"closed", "refused"}
           /\ \E t \in Task : SaveCommits(t) \/ SaveFails(t)
           /\ UNCHANGED schemaVars

Unload == /\ Reload \/ Crash
          /\ opening' = "closed"
          /\ UNCHANGED <<database, interrupts>>

StoreNext == Migrate \/ LoadPolicies \/ Commands \/ Threads \/ Unload

StoreSpec == StoreInit /\ [][StoreNext]_storeVars

=============================================================================
