--------------------------- MODULE Upgrade_proofs ---------------------------
(***************************************************************************)
(* Whatever an earlier version let into login_bindings, the migrations go   *)
(* through and give every person the account it must have, or none.         *)
(***************************************************************************)
EXTENDS Upgrade, LegacySeed_proofs

\* Some row of a scope comes before all the others of it, and it is enabled
\* when one of them is.
LEMMA UnifiedKeepsEnabled ==
    ASSUME NEW rows \in SUBSET Binding, NEW b \in rows, b.enabled
    PROVE  \E a \in Unified(rows) : SameScope(a, b) /\ a.enabled
<1>0. \A x \in rows : x.enabled \in BOOLEAN /\ x.mode \in Modes
  BY DEF Binding
<1>1. CASE \E a \in rows : SameScope(a, b) /\ a.enabled /\ a.mode = Shell
  <2>1. PICK a \in rows : SameScope(a, b) /\ a.enabled /\ a.mode = Shell
    BY <1>1
  <2>2. \A x \in rows : ~Before(x, a)
    BY <1>0, <2>1 DEF Before
  <2> QED
    BY <2>1, <2>2 DEF Unified
<1>2. CASE \A a \in rows : SameScope(a, b) /\ a.enabled => a.mode # Shell
  <2>1. \A x \in rows : SameScope(x, b) => ~Before(x, b)
    BY <1>0, <1>2 DEF Before
  <2> QED
    BY <2>1 DEF Unified, SameScope
<1> QED
  BY <1>1, <1>2

LEMMA UnifiedOnePerScope ==
    ASSUME NEW rows \in SUBSET Binding
    PROVE  OnePerScope(Unified(rows)) /\ Unified(rows) \in SUBSET rows
<1> SUFFICES ASSUME NEW a \in Unified(rows), NEW b \in Unified(rows), SameScope(a, b)
             PROVE  a = b
  BY DEF OnePerScope, Unified
<1>1. a \in Binding /\ b \in Binding /\ a \in rows /\ b \in rows
  BY DEF Unified
<1>2. ~Before(a, b) /\ ~Before(b, a)
  BY <1>1 DEF Unified, SameScope
<1>3. a.enabled \in BOOLEAN /\ b.enabled \in BOOLEAN /\ a.mode \in Modes /\ b.mode \in Modes
  BY <1>1 DEF Binding
<1>4. a.enabled = b.enabled
  BY <1>2, <1>3 DEF Before
<1>5. a.mode = b.mode
  BY <1>2, <1>3, <1>4, UpgradeAssumption DEF Before
<1> QED
  BY <1>1, <1>4, <1>5 DEF SameScope, Binding

\* Both indexes of the new tables can be made.
LEMMA AssignedOneOwner ==
    ASSUME NEW rows
    PROVE  OneOwner(Assigned(rows))
<1> SUFFICES ASSUME NEW p \in Persons, NEW q \in Persons,
                    Assigned(rows)[p] = Assigned(rows)[q], Assigned(rows)[p] # None
             PROVE  p = q
  BY DEF OneOwner
<1>1. ASSUME NEW r \in Persons, Assigned(rows)[r] # None
      PROVE  OwnersOf(rows, Assigned(rows)[r]) = {r}
  <2>1. PICK u \in Accounts : AccountsOf(rows, r) = {u} /\ OwnersOf(rows, u) = {r}
    BY <1>1 DEF Assigned
  <2>2. \A v \in Accounts : AccountsOf(rows, r) = {v} => v = u
    BY <2>1
  <2>3. Assigned(rows)[r] = CHOOSE v \in Accounts : AccountsOf(rows, r) = {v}
    BY <2>1 DEF Assigned
  <2>4. Assigned(rows)[r] = u
    BY <2>1, <2>2, <2>3
  <2> QED
    BY <2>1, <2>4
<1>2. OwnersOf(rows, Assigned(rows)[p]) = {p} /\ OwnersOf(rows, Assigned(rows)[q]) = {q}
  BY <1>1
<1> QED
  BY <1>2

\* Who gets which account, of rows that were not unified yet.
LEMMA AssignedCertain ==
    ASSUME NEW rows \in SUBSET Binding, NEW p \in Persons, NEW u \in Accounts
    PROVE  Assigned(rows)[p] = u <=>
             /\ \E b \in rows : b.person = p /\ b.account = u /\ b.enabled
             /\ \A b \in rows : b.person = p /\ b.enabled => b.account = u
             /\ \A b \in rows : b.account = u /\ b.enabled => b.person = p
<1>1. AccountsOf(rows, p) = {u} <=>
        /\ \E b \in rows : b.person = p /\ b.account = u /\ b.enabled
        /\ \A b \in rows : b.person = p /\ b.enabled => b.account = u
  BY DEF AccountsOf
<1>2. (\E b \in rows : b.person = p /\ b.account = u /\ b.enabled) =>
        (OwnersOf(rows, u) = {p} <=>
           \A b \in rows : b.account = u /\ b.enabled => b.person = p)
  BY DEF OwnersOf
<1>3. Assigned(rows)[p] = u <=> AccountsOf(rows, p) = {u} /\ OwnersOf(rows, u) = {p}
  <2>1. CASE \E v \in Accounts : AccountsOf(rows, p) = {v} /\ OwnersOf(rows, v) = {p}
    <3>1. PICK v \in Accounts : AccountsOf(rows, p) = {v} /\ OwnersOf(rows, v) = {p}
      BY <2>1
    <3>2. \A w \in Accounts : AccountsOf(rows, p) = {w} => w = v
      BY <3>1
    <3>3. Assigned(rows)[p] = CHOOSE w \in Accounts : AccountsOf(rows, p) = {w}
      BY <3>1 DEF Assigned
    <3>4. Assigned(rows)[p] = v
      BY <3>1, <3>2, <3>3
    <3> QED
      BY <3>1, <3>2, <3>4
  <2>2. CASE ~ \E v \in Accounts : AccountsOf(rows, p) = {v} /\ OwnersOf(rows, v) = {p}
    <3>1. Assigned(rows)[p] = None
      BY <2>2 DEF Assigned
    <3> QED
      BY <2>2, <3>1, UpgradeAssumption
  <2> QED
    BY <2>1, <2>2
<1> QED
  BY <1>1, <1>2, <1>3

-----------------------------------------------------------------------------
UpgradeInv ==
    /\ version \in 0 .. Current + 1
    /\ bindings \in SUBSET Binding
    /\ version >= 3 => OnePerScope(bindings)
    /\ refused => version > Current

\* A command can always upgrade a database of an earlier version.
LEMMA UpgradeGoesThrough == UpgradeInv => Upgraded(bindings)
<1> SUFFICES ASSUME UpgradeInv PROVE Upgraded(bindings)
  OBVIOUS
<1>1. OnePerScope(RowsAt5(bindings))
  <2>1. version \in Nat
    BY UpgradeAssumption DEF UpgradeInv
  <2> QED
    BY <2>1, UnifiedOnePerScope DEF UpgradeInv, RowsAt5
<1> QED
  BY <1>1, AssignedOneOwner DEF Upgraded

LEMMA UpgradeInvInit == UpgradeInit => UpgradeInv
  BY DEF UpgradeInit, UpgradeInv

LEMMA UpgradeInvStep == UpgradeInv /\ [UpgradeNext]_<<vars, upgradeVars>> => UpgradeInv'
<1> SUFFICES ASSUME UpgradeInv, [UpgradeNext]_<<vars, upgradeVars>> PROVE UpgradeInv'
  OBVIOUS
<1>1. CASE Initialize
  <2>1. version' = Current /\ bindings' = {} /\ refused' = refused /\ version <= Current
    BY <1>1 DEF Initialize
  <2>2. ~refused
    BY <2>1, UpgradeAssumption DEF UpgradeInv
  <2> QED
    BY <2>1, <2>2, UpgradeAssumption DEF UpgradeInv, OnePerScope
<1>2. CASE Refuse
  <2>1. version > Current
    BY <1>2, UpgradeGoesThrough DEF Refuse
  <2>2. version' = version /\ bindings' = bindings
    BY <1>2 DEF Refuse
  <2> QED
    BY <2>1, <2>2 DEF UpgradeInv, OnePerScope
<1>3. CASE UNCHANGED upgradeVars
  BY <1>3 DEF upgradeVars, UpgradeInv, OnePerScope
<1> QED
  BY <1>1, <1>2, <1>3 DEF UpgradeNext

LEMMA UpgradeInvariant == UpgradeSpec => []UpgradeInv
  BY UpgradeInvInit, UpgradeInvStep, PTL DEF UpgradeSpec

\* Only a database of a later version is refused.
THEOREM UpgradeSucceedsHolds == UpgradeSpec => []UpgradeSucceeds
<1>1. UpgradeInv => UpgradeSucceeds
  BY DEF UpgradeInv, UpgradeSucceeds
<1> QED
  BY <1>1, UpgradeInvariant, PTL

\* Unifying the rows of a scope changes nobody's account.
LEMMA RowsSay ==
    ASSUME UpgradeInv, NEW p \in Persons, NEW u \in Accounts
    PROVE  (\E b \in RowsAt5(bindings) : b.person = p /\ b.account = u /\ b.enabled)
             <=> MayUse(p, u)
<1>1. RowsAt5(bindings) \subseteq bindings
  BY UnifiedOnePerScope DEF RowsAt5, UpgradeInv
<1>2. ASSUME NEW b \in bindings, b.person = p, b.account = u, b.enabled
      PROVE  \E a \in RowsAt5(bindings) : a.person = p /\ a.account = u /\ a.enabled
  <2>1. CASE version < 3
    <3>1. PICK a \in Unified(bindings) : SameScope(a, b) /\ a.enabled
      BY <1>2, UnifiedKeepsEnabled DEF UpgradeInv
    <3> QED
      BY <1>2, <2>1, <3>1 DEF RowsAt5, SameScope
  <2>2. CASE ~(version < 3)
    BY <1>2, <2>2 DEF RowsAt5
  <2> QED
    BY <2>1, <2>2
<1> QED
  BY <1>1, <1>2 DEF MayUse

LEMMA UpgradeCertain ==
    ASSUME UpgradeInv, Initialize, version < Current, NEW p \in Persons, NEW u \in Accounts
    PROVE  account'[p] = u <=> /\ MayUse(p, u)
                               /\ \A v \in Accounts : MayUse(p, v) => v = u
                               /\ \A q \in Persons : MayUse(q, u) => q = p
<1> DEFINE rows == RowsAt5(bindings)
<1>1. rows \in SUBSET Binding
  BY UnifiedOnePerScope DEF RowsAt5, UpgradeInv
<1>2. account' = Assigned(rows)
  BY DEF Initialize
<1>3. \A q \in Persons, v \in Accounts :
        (\E b \in rows : b.person = q /\ b.account = v /\ b.enabled) <=> MayUse(q, v)
  BY RowsSay
<1>4. \A b \in rows : b.person \in Persons /\ b.account \in Accounts
  BY <1>1 DEF Binding
<1> HIDE DEF rows
<1>5. account'[p] = u <=>
             /\ \E b \in rows : b.person = p /\ b.account = u /\ b.enabled
             /\ \A b \in rows : b.person = p /\ b.enabled => b.account = u
             /\ \A b \in rows : b.account = u /\ b.enabled => b.person = p
  BY <1>1, <1>2, AssignedCertain
<1>6. (\A b \in rows : b.person = p /\ b.enabled => b.account = u)
        <=> \A v \in Accounts : MayUse(p, v) => v = u
  BY <1>3, <1>4
<1>7. (\A b \in rows : b.account = u /\ b.enabled => b.person = p)
        <=> \A q \in Persons : MayUse(q, u) => q = p
  BY <1>3, <1>4
<1> QED
  BY <1>3, <1>5, <1>6, <1>7

\* The upgrade assigns an account exactly when it is certain whose it is.
THEOREM AccountsCertainHolds == UpgradeSpec => AccountsCertain
<1> DEFINE Certain ==
      version < Current /\ version' = Current =>
         \A p \in Persons, u \in Accounts :
           account'[p] = u <=> /\ MayUse(p, u)
                               /\ \A v \in Accounts : MayUse(p, v) => v = u
                               /\ \A q \in Persons : MayUse(q, u) => q = p
<1>1. UpgradeInv /\ [UpgradeNext]_<<vars, upgradeVars>> => [Certain]_version
  <2> SUFFICES ASSUME UpgradeInv, UpgradeNext, version < Current, version' = Current
               PROVE  Certain
    BY DEF upgradeVars
  <2>1. version' # version
    BY UpgradeAssumption DEF UpgradeInv
  <2>2. Initialize
    BY <2>1 DEF UpgradeNext, Refuse, upgradeVars
  <2> QED
    BY <2>2, UpgradeCertain
<1> HIDE DEF Certain
<1>2. UpgradeSpec => [][Certain]_version
  BY <1>1, UpgradeInvariant, PTL DEF UpgradeSpec
<1> QED
  BY <1>2 DEF Certain, AccountsCertain

\* An upgrade changes nothing that a start works with: what the commands do
\* with the database, seen without the tables of before, is LegacySeed.
THEOREM UpgradeIsSeed == UpgradeSpec => Spec
<1>1. UpgradeInit => Init
  BY DEF UpgradeInit
<1>2. [UpgradeNext]_<<vars, upgradeVars>> => [Next]_vars
  <2>1. Initialize => UNCHANGED vars
    BY DEF Initialize
  <2>2. Refuse => UNCHANGED vars
    BY DEF Refuse
  <2>3. (\E c \in Content : EditQuiz(c)) => Next
    BY DEF Next
  <2> QED
    BY <2>1, <2>2, <2>3 DEF UpgradeNext
<1> QED
  BY <1>1, <1>2, PTL DEF UpgradeSpec, Spec

\* No pass of an earlier version is lost on the whole way: from the database
\* it was made in, through every migration, to the publication it counts for.
THEOREM PassesSurviveUpgrade == UpgradeSpec => []LegacyPassKept
BY UpgradeIsSeed, LegacyPassKeptHolds

\* A reset is final for the whole way as well.
THEOREM ResetSurvivesUpgrade == UpgradeSpec => ResetIsFinal
BY UpgradeIsSeed, ResetIsFinalHolds
=============================================================================
