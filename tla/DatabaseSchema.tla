---------------------------- MODULE DatabaseSchema ----------------------------
(***************************************************************************)
(* repository_schema.py and RepositoryBase._connection: the first          *)
(* connection of a plugin instance brings the database to the current      *)
(* schema.  The constructor opens it (RuleSnapshot.from_repository) before *)
(* any other thread of the instance exists, so one migration runs at a     *)
(* time.  Outside a transaction every CREATE, the ALTER and the PRAGMA     *)
(* commits by itself: the instance may stop after any of them.             *)
(*                                                                         *)
(* A table is its name; of the columns the module keeps the one a          *)
(* migration adds and which tables lack some other required column.        *)
(* Indexes are left out, and so are databases whose tables lack columns    *)
(* that an index needs.                                                    *)
(***************************************************************************)
EXTENDS Naturals, Sequences, FiniteSets

CONSTANT MaxInterrupts    \* bound: openings that stop half way

ASSUME SchemaAssumption == MaxInterrupts \in Nat

CurrentVersion == 6

(* The order of the script of _create_schema_objects. *)
Script == << "runtime_state", "group_policies", "group_words", "group_bypass_words",
             "group_push_bindings", "group_report_policies", "group_mute_policies",
             "group_mute_escalation_policies", "group_action_policies",
             "user_mute_escalation_states", "violation_batches", "violation_events",
             "violation_push_deliveries", "violation_outbox", "global_rules",
             "legacy_import_meta" >>

Table == {Script[i] : i \in 1 .. Len(Script)}

(* V2_ to V5_REQUIRED_TABLE_COLUMNS and REQUIRED_TABLE_COLUMNS, each without
   the tables that a later version adds.                                     *)
AddedAfter(v) ==
    (IF v < 2 THEN {"global_rules", "legacy_import_meta"} ELSE {})
    \cup (IF v < 4 THEN {"group_action_policies"} ELSE {})
    \cup (IF v < 5 THEN {"violation_outbox"} ELSE {})
    \cup (IF v < 6 THEN {"group_bypass_words"} ELSE {})

Required(v) == Table \ AddedAfter(v)

VARIABLES
    version,        \* PRAGMA user_version
    tables,         \* the tables that exist
    exempt,         \* group_policies has the column admin_exempt_enabled
    broken,         \* tables of a damaged file that lack another column
    opening,        \* where ensure_schema is; "ready" is _schema_ready
    interrupts

schemaVars == <<version, tables, exempt, broken, opening, interrupts>>
database == <<version, tables, exempt, broken>>

(* Before and after the steps of ensure_schema: closed, ready, refused. *)
InProgress == opening \in {"check", "create", "alter", "validate", "bump"}

(* _validate_required_schema with the requirement of version v *)
Fits(v) == /\ Required(v) \subseteq tables
           /\ broken \cap Required(v) = {}
           /\ v >= 3 => exempt

-----------------------------------------------------------------------------
(* The files that an instance may find: none or one whose installation stopped
   (by this version or an older one), one of every released version, one that
   lost a table or a column, one of a later version.                         *)

Unversioned == /\ version = 0
               /\ \E n \in 0 .. Len(Script) : tables = {Script[i] : i \in 1 .. n} \ AddedAfter(1)
               /\ exempt = FALSE
               /\ broken = {}

Released == /\ version \in 1 .. CurrentVersion
            /\ tables = Required(version)
            /\ exempt = (version >= 3)
            /\ broken = {}

Damaged == /\ version \in 0 .. CurrentVersion
           /\ exempt = (version >= 3)
           /\ \E t \in Required(version) \ {"global_rules"} :
                 \/ tables = Required(version) \ {t} /\ broken = {} /\ version > 0
                 \/ tables = Required(version) /\ broken = {t}

Later == version = CurrentVersion + 1 /\ tables = Table /\ exempt = TRUE /\ broken = {}

SchemaInit == /\ Unversioned \/ Released \/ Damaged \/ Later
              /\ opening = "closed"
              /\ interrupts = 0

-----------------------------------------------------------------------------
(* ensure_schema *)

Open == /\ opening = "closed"
        /\ opening' = "check"
        /\ UNCHANGED <<database, interrupts>>

(* Mutant: an older database is held to the current requirement. *)
CheckVersionAsCurrent ==
    /\ opening = "check"
    /\ opening' = IF /\ version <= CurrentVersion
                     /\ version = 0 \/ Fits(CurrentVersion)
                  THEN "create" ELSE "refused"
    /\ UNCHANGED <<database, interrupts>>

(* Mutant: a database of the current version is repaired, not validated. *)
CheckVersionRepairs ==
    /\ opening = "check"
    /\ opening' = IF /\ version <= CurrentVersion
                     /\ version \in {0, CurrentVersion} \/ Fits(version)
                  THEN "create" ELSE "refused"
    /\ UNCHANGED <<database, interrupts>>

(* A database without a version is not validated, a later one is refused. *)
CheckVersion ==
    /\ opening = "check"
    /\ opening' = IF /\ version <= CurrentVersion
                     /\ version = 0 \/ Fits(version)
                  THEN "create" ELSE "refused"
    /\ UNCHANGED <<database, interrupts>>

(* The statements of the script run in order; one whose table exists does
   nothing.  A new group_policies has all columns.                           *)
CreateNext ==
    /\ opening = "create"
    /\ \E i \in 1 .. Len(Script) :
          /\ Script[i] \notin tables
          /\ \A j \in 1 .. i - 1 : Script[j] \in tables
          /\ tables' = tables \cup {Script[i]}
          /\ exempt' = (exempt \/ Script[i] = "group_policies")
    /\ UNCHANGED <<version, broken, opening, interrupts>>

Created ==
    /\ opening = "create"
    /\ Table \subseteq tables
    /\ opening' = IF version = CurrentVersion THEN "validate" ELSE "alter"
    /\ UNCHANGED <<database, interrupts>>

(* _migrate_schema_objects *)
Alter == /\ opening = "alter"
         /\ exempt' = TRUE
         /\ opening' = "validate"
         /\ UNCHANGED <<version, tables, broken, interrupts>>

Validate == /\ opening = "validate"
            /\ opening' = CASE ~Fits(CurrentVersion) -> "refused"
                            [] version = CurrentVersion -> "ready"
                            [] OTHER -> "bump"
            /\ UNCHANGED <<database, interrupts>>

Bump == /\ opening = "bump"
        /\ version' = CurrentVersion
        /\ opening' = "ready"
        /\ UNCHANGED <<tables, exempt, broken, interrupts>>

(* The process ends or a statement fails: the plugin is not loaded, and what
   was committed stays.                                                      *)
Interrupt == /\ InProgress
             /\ interrupts < MaxInterrupts
             /\ interrupts' = interrupts + 1
             /\ opening' = "closed"
             /\ UNCHANGED database

EnsureSchema == Open \/ CheckVersion \/ CreateNext \/ Created \/ Alter \/ Validate \/ Bump
                \/ Interrupt

-----------------------------------------------------------------------------
(* Properties *)

(* A file that some version has written is never refused, wherever earlier
   openings of it have stopped: a migration resumes.                         *)
Sound == broken = {} /\ version <= CurrentVersion /\ (version > 0 => Fits(version))

MigrationResumes == [][Sound => opening' # "refused" /\ Sound']_schemaVars

(* A file that does not fit its version, or comes from a later one, is left
   as it is.                                                                 *)
MisfitIsLeftAlone ==
    [][version > 0 /\ (version > CurrentVersion \/ ~Fits(version))
          => UNCHANGED database]_schemaVars
=============================================================================
