------------------------------- MODULE Upgrade -------------------------------
(***************************************************************************)
(* A database of an earlier version on its way to the current one: every    *)
(* command of ssh-exam-admin that opens it first runs Db::initialize, one    *)
(* immediate transaction that applies the migrations that are missing, and  *)
(* only then does a start carry the passes over (LegacySeed).               *)
(*                                                                         *)
(* Versions before 5 say per key who may use which account (login_bindings); *)
(* version 5 gives a person one account (persons.unix_username).            *)
(***************************************************************************)
EXTENDS LegacySeed, Naturals

CONSTANTS
    Accounts, Scopes,   \* a key of the person, or any of them
    Modes, Shell,       \* access_mode, of versions 1 and 2
    Current             \* CURRENT_SCHEMA_VERSION

ASSUME UpgradeAssumption ==
    /\ None \notin Accounts
    /\ Current = 5
    /\ \A m, n \in Modes \ {Shell} : m = n

VARIABLES
    version,    \* the newest row of schema_migrations
    bindings,   \* login_bindings
    account,    \* persons.unix_username
    refused     \* history: a command could not open the database

upgradeVars == <<version, bindings, account, refused>>

Binding == [person : Persons, scope : Scopes, account : Accounts, mode : Modes,
            enabled : BOOLEAN]

SameScope(a, b) == a.person = b.person /\ a.scope = b.scope /\ a.account = b.account

\* login_binding_unique_scope
OnePerScope(rows) == \A a, b \in rows : SameScope(a, b) => a = b

UpgradeInit ==
    /\ Init
    /\ version \in 0 .. Current + 1
    /\ bindings \in SUBSET Binding
    /\ account = [p \in Persons |-> None]
    /\ version \in {0, Current, Current + 1} => bindings = {}
    /\ version = 0 => passedAt = {}
    /\ version >= 3 => OnePerScope(bindings)
    /\ refused = FALSE

-----------------------------------------------------------------------------
(* The migrations.                                                         *)

\* Slip: the former shell row first, whether it is enabled or not.
ShellFirst(a, b) ==
    \/ a.mode = Shell /\ b.mode # Shell
    \/ a.mode = b.mode /\ a.enabled /\ ~b.enabled

\* 0003, ORDER BY: an enabled row first, then the former shell row.
Before(a, b) ==
    \/ a.enabled /\ ~b.enabled
    \/ a.enabled = b.enabled /\ a.mode = Shell /\ b.mode # Shell

Unified(rows) ==
    {b \in rows : \A a \in rows : SameScope(a, b) => ~Before(a, b)}

\* 0005
AccountsOf(rows, p) == {b.account : b \in {x \in rows : x.person = p /\ x.enabled}}
OwnersOf(rows, u) == {b.person : b \in {x \in rows : x.account = u /\ x.enabled}}

\* Slip: the account need not be of one person only.
AssignedShared(rows) ==
    [p \in Persons |-> IF \E u \in Accounts : AccountsOf(rows, p) = {u}
                         THEN CHOOSE u \in Accounts : AccountsOf(rows, p) = {u}
                         ELSE None]

Assigned(rows) ==
    [p \in Persons |->
       IF \E u \in Accounts : AccountsOf(rows, p) = {u} /\ OwnersOf(rows, u) = {p}
         THEN CHOOSE u \in Accounts : AccountsOf(rows, p) = {u}
         ELSE None]

\* person_unix_username
OneOwner(owned) ==
    \A p, q \in Persons : owned[p] = owned[q] => p = q \/ owned[p] = None

RowsAt5(rows) == IF version < 3 THEN Unified(rows) ELSE rows

Upgraded(rows) == OnePerScope(RowsAt5(rows)) /\ OneOwner(Assigned(RowsAt5(rows)))

\* Db::initialize, committed.
Initialize ==
    /\ version <= Current
    /\ version < Current => Upgraded(bindings)
    /\ version' = Current
    /\ account' = IF version < Current THEN Assigned(RowsAt5(bindings)) ELSE account
    /\ bindings' = {}
    /\ UNCHANGED <<vars, refused>>

\* Rolled back: the database is newer than this program, or a unique index
\* cannot be made.
Refuse ==
    /\ \/ version > Current
       \/ version < Current /\ ~Upgraded(bindings)
    /\ refused' = TRUE
    /\ UNCHANGED <<vars, version, bindings, account>>

-----------------------------------------------------------------------------
\* Nothing but the bank file changes until a command has upgraded the database.
UpgradeNext ==
    \/ Initialize
    \/ Refuse
    \/ version = Current /\ Next /\ UNCHANGED upgradeVars
    \/ version # Current /\ UNCHANGED upgradeVars /\ \E c \in Content : EditQuiz(c)

UpgradeSpec == UpgradeInit /\ [][UpgradeNext]_<<vars, upgradeVars>>

-----------------------------------------------------------------------------
(* Properties.                                                             *)

MayUse(p, u) == \E b \in bindings : b.person = p /\ b.account = u /\ b.enabled

\* README, schema v5: "a person is assigned an old Unix account only when
\* exactly one enabled account is present and that account is not shared with
\* another person" - of what the bindings said before the first migration ran,
\* whichever of two rows of one scope migration 0003 keeps.
AccountsCertain ==
    [][version < Current /\ version' = Current =>
         \A p \in Persons, u \in Accounts :
           account'[p] = u <=> /\ MayUse(p, u)
                               /\ \A v \in Accounts : MayUse(p, v) => v = u
                               /\ \A q \in Persons : MayUse(q, u) => q = p]_version

\* No database of an earlier version is stuck there: both unique indexes can be
\* made of whatever that version let in.
UpgradeSucceeds == refused => version > Current
=============================================================================
