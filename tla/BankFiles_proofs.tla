--------------------------- MODULE BankFiles_proofs ---------------------------
(***************************************************************************)
(* Proofs about BankFiles, for any number of banks, processes and pages.    *)
(* The argument: a file is renamed only by the one process that made it     *)
(* (create_new), after it was written and synced; so the names of banks,    *)
(* and what the disk holds under them, lead to synced whole files only.     *)
(***************************************************************************)
EXTENDS BankFiles, TLAPS

Saved == {NoFile} \cup {Bank(c) : c \in Contents}

\* The names of banks, now and after a power failure.
NamesSaved ==
    /\ \A b \in Banks : dir[b] \in Saved /\ disk[b] \in Saved
    /\ There(LegacyBank) /\ disk[LegacyBank].data # "absent"

\* What a process has in its temporary file so far.
Prepared ==
    \A p \in Processes :
        /\ proc[p].pc = "sync" =>
             dir[proc[p].temp].data = "whole" /\ dir[proc[p].temp].of = proc[p].of
        /\ proc[p].pc = "rename" => dir[proc[p].temp] = Bank(proc[p].of)

\* No two of them share it.
OneWriter ==
    \A p, q \in Processes :
        proc[p].temp \in Temps /\ proc[p].temp = proc[q].temp => p = q

\* A temporary file that is written is in the directory.
WrittenThere ==
    \A p \in Processes : proc[p].temp \in Temps => dir[proc[p].temp].data # "absent"

\* One that is in the directory is written, or was by a process that is gone.
NoLeftovers ==
    \A t \in Temps : dir[t].data # "absent" =>
                        broken \/ \E p \in Processes : proc[p].temp = t

\* settled never runs ahead of the disk, nor the disk of the directory.
TurnsOrdered ==
    /\ \A b \in Banks : settled[b] <= diskTurn[b] /\ diskTurn[b] <= turn[b]
    /\ \A p \in Processes : proc[p].pc = "settle" => proc[p].turn <= turn[proc[p].bank]

\* Only files with a bank's name are ever loaded.
BanksListed == \A r \in Pages : page[r].todo \subseteq Banks

LEMMA TempsApart == \A b \in Banks : b \notin Temps
BY FileNamesAssumption

-----------------------------------------------------------------------------
\* What TypeOK says of one process.
Fits(x) ==
    /\ x \in Process
    /\ x.pc \in {"open", "write", "sync", "rename", "settle"} => x.bank \in Banks
    /\ x.pc \in {"open", "write", "sync", "rename"} => x.of \in Contents
    /\ x.temp \in Temps <=> x.pc \in {"write", "sync", "rename", "drop"}

LEMMA TypeIsFits ==
    TypeOK <=> /\ dir \in [Files -> File]
               /\ disk \in [Banks -> File]
               /\ turn \in [Banks -> Nat]
               /\ diskTurn \in [Banks -> Nat]
               /\ settled \in [Banks -> Nat]
               /\ broken \in BOOLEAN
               /\ proc \in [Processes -> Process]
               /\ page \in [Pages -> Page]
               /\ \A p \in Processes : Fits(proc[p])
BY DEF TypeOK, Fits

LEMMA FitsGoto ==
    ASSUME TypeOK, NEW p \in Processes, NEW x, Goto(p, x), Fits(x)
    PROVE  proc' \in [Processes -> Process] /\ \A q \in Processes : Fits(proc'[q])
BY DEF TypeOK, Fits, Goto

LEMMA IdleFits == Fits(Idle)
BY NoContentAssumption DEF Fits, Idle, Process

LEMMA TypeInit == Init => TypeOK
<1> SUFFICES ASSUME Init PROVE TypeOK
  OBVIOUS
<1>1. NoFile \in File /\ \A c \in Contents : Bank(c) \in File
  BY DEF NoFile, Bank, File
<1>2. disk \in [Banks -> File]
  BY <1>1 DEF Init
<1>3. dir \in [Files -> File]
  BY <1>1, <1>2 DEF Init, Files
<1>4. proc \in [Processes -> Process] /\ \A p \in Processes : Fits(proc[p])
  BY IdleFits DEF Init, Fits
<1>5. page \in [Pages -> Page]
  BY DEF Init, Page, Closed
<1> QED BY <1>2, <1>3, <1>4, <1>5, TypeIsFits DEF Init

LEMMA TypeWork ==
    ASSUME TypeOK, NEW p \in Processes, Working(p)
    PROVE  TypeOK'
<1> USE DEF history
<1>0. Fits(proc[p]) /\ proc[p] \in Process
  BY TypeIsFits DEF Fits
<1>1. ASSUME NEW b \in Banks, NEW c \in Contents, Save(p, b, c)
      PROVE  TypeOK'
  <2> DEFINE x == [Idle EXCEPT !.pc = "open", !.bank = b, !.of = c]
  <2>1. Goto(p, x)
    BY <1>1 DEF Save
  <2>2. Fits(x)
    BY <1>0, <1>1, NoContentAssumption DEF Save, At, Fits, Process, Idle, TypeOK
  <2>4. proc' \in [Processes -> Process] /\ \A q \in Processes : Fits(proc'[q])
    BY <2>1, <2>2, FitsGoto
  <2> QED BY <1>1, <2>4, TypeIsFits DEF Save, TypeOK, Fits
<1>2. ASSUME NEW t \in Temps, CreateTemporary(p, t)
      PROVE  TypeOK'
  <2> DEFINE x == [proc[p] EXCEPT !.pc = "write", !.temp = t]
  <2>1. Goto(p, x)
    BY <1>2 DEF CreateTemporary
  <2>2. Fits(x)
    BY <1>0, <1>2, NoContentAssumption DEF CreateTemporary, At, Fits, Process, Idle, TypeOK
  <2>3. dir' \in [Files -> File]
    BY <1>0, <1>2 DEF CreateTemporary, At, Fits, TypeOK, File, NewFile, NoFile, Files
  <2>4. proc' \in [Processes -> Process] /\ \A q \in Processes : Fits(proc'[q])
    BY <2>1, <2>2, FitsGoto
  <2> QED BY <1>2, <2>3, <2>4, TypeIsFits DEF CreateTemporary, TypeOK, Fits
<1>3. ASSUME NEW t \in Temps, CreateProbe(p, t)
      PROVE  TypeOK'
  <2> DEFINE x == [proc[p] EXCEPT !.pc = "drop", !.temp = t]
  <2>1. Goto(p, x)
    BY <1>3 DEF CreateProbe
  <2>2. Fits(x)
    BY <1>0, <1>3, NoContentAssumption DEF CreateProbe, At, Fits, Process, Idle, TypeOK
  <2>3. dir' \in [Files -> File]
    BY <1>0, <1>3 DEF CreateProbe, At, Fits, TypeOK, File, NewFile, NoFile, Files
  <2>4. proc' \in [Processes -> Process] /\ \A q \in Processes : Fits(proc'[q])
    BY <2>1, <2>2, FitsGoto
  <2> QED BY <1>3, <2>3, <2>4, TypeIsFits DEF CreateProbe, TypeOK, Fits
<1>4. CASE Write(p)
  <2> DEFINE x == [proc[p] EXCEPT !.pc = "sync"]
  <2>1. Goto(p, x)
    BY <1>4 DEF Write
  <2>2. Fits(x)
    BY <1>0, <1>4, NoContentAssumption DEF Write, At, Fits, Process, Idle, TypeOK
  <2>3. dir' \in [Files -> File]
    BY <1>0, <1>4 DEF Write, At, Fits, TypeOK, File, NewFile, NoFile, Files
  <2>4. proc' \in [Processes -> Process] /\ \A q \in Processes : Fits(proc'[q])
    BY <2>1, <2>2, FitsGoto
  <2> QED BY <1>4, <2>3, <2>4, TypeIsFits DEF Write, TypeOK, Fits
<1>5. CASE Sync(p)
  <2> DEFINE x == [proc[p] EXCEPT !.pc = "rename"]
  <2>1. Goto(p, x)
    BY <1>5 DEF Sync
  <2>2. Fits(x)
    BY <1>0, <1>5, NoContentAssumption DEF Sync, At, Fits, Process, Idle, TypeOK
  <2>3. dir' \in [Files -> File]
    BY <1>0, <1>5 DEF Sync, At, Fits, TypeOK, File, NewFile, NoFile, Files
  <2>4. proc' \in [Processes -> Process] /\ \A q \in Processes : Fits(proc'[q])
    BY <2>1, <2>2, FitsGoto
  <2> QED BY <1>5, <2>3, <2>4, TypeIsFits DEF Sync, TypeOK, Fits
<1>6. CASE Rename(p)
  <2> DEFINE x == [proc[p] EXCEPT !.pc = "settle", !.temp = None, !.turn = turn[proc[p].bank] + 1]
  <2>1. Goto(p, x)
    BY <1>6 DEF Rename
  <2>2. Fits(x)
    <3>1. proc[p].bank \in Banks
      BY <1>0, <1>6 DEF Rename, At, Fits
    <3>2. turn[proc[p].bank] + 1 \in Nat
      BY <3>1 DEF TypeOK
    <3> QED BY <1>0, <3>1, <3>2, NoContentAssumption DEF Fits, Process
  <2>3. dir' \in [Files -> File] /\ turn' \in [Banks -> Nat]
    BY <1>0, <1>6 DEF Rename, At, Fits, TypeOK, File, NoFile, Files
  <2>4. proc' \in [Processes -> Process] /\ \A q \in Processes : Fits(proc'[q])
    BY <2>1, <2>2, FitsGoto
  <2> QED BY <1>6, <2>3, <2>4, TypeIsFits DEF Rename, TypeOK, Fits
<1>7. CASE SyncDirectory(p)
  <2> DEFINE x == Idle
  <2>1. Goto(p, x)
    BY <1>7 DEF SyncDirectory
  <2>2. Fits(x)
    BY IdleFits
  <2>3. /\ disk' \in [Banks -> File] /\ diskTurn' \in [Banks -> Nat]
        /\ settled' \in [Banks -> Nat]
    BY <1>0, <1>7 DEF SyncDirectory, At, Fits, Process, TypeOK, Files
  <2>4. proc' \in [Processes -> Process] /\ \A q \in Processes : Fits(proc'[q])
    BY <2>1, <2>2, FitsGoto
  <2> QED BY <1>7, <2>3, <2>4, TypeIsFits DEF SyncDirectory, TypeOK, Fits
<1>8. CASE SyncIgnored(p) \/ GiveUp(p) \/ Kill(p)
  <2> DEFINE x == Idle
  <2>1. Goto(p, x)
    BY <1>8 DEF SyncIgnored, GiveUp, Kill
  <2>2. Fits(x)
    BY IdleFits
  <2>4. proc' \in [Processes -> Process] /\ \A q \in Processes : Fits(proc'[q])
    BY <2>1, <2>2, FitsGoto
  <2> QED BY <1>8, <2>4, TypeIsFits DEF SyncIgnored, GiveUp, Kill, TypeOK, Fits
<1>9. CASE RemoveTemporary(p) \/ DropProbe(p)
  <2> DEFINE x == Idle
  <2>1. Goto(p, x)
    BY <1>9 DEF RemoveTemporary, DropProbe
  <2>2. Fits(x)
    BY IdleFits
  <2>3. dir' \in [Files -> File]
    <3>1. proc[p].temp \in Temps
      BY <1>0, <1>9 DEF RemoveTemporary, DropProbe, At, Fits
    <3>2. dir' = [dir EXCEPT ![proc[p].temp] = NoFile] /\ NoFile \in File
      BY <1>9 DEF RemoveTemporary, DropProbe, NoFile, File
    <3> QED BY <3>1, <3>2 DEF TypeOK, Files
  <2>4. proc' \in [Processes -> Process] /\ \A q \in Processes : Fits(proc'[q])
    BY <2>1, <2>2, FitsGoto
  <2> QED BY <1>9, <2>3, <2>4, TypeIsFits DEF RemoveTemporary, DropProbe, TypeOK, Fits
<1>10. CASE Probe(p)
  <2> DEFINE x == [Idle EXCEPT !.pc = "probe"]
  <2>1. Goto(p, x)
    BY <1>10 DEF Probe
  <2>2. Fits(x)
    BY <1>0, <1>10, NoContentAssumption DEF Probe, At, Fits, Process, Idle, TypeOK
  <2>4. proc' \in [Processes -> Process] /\ \A q \in Processes : Fits(proc'[q])
    BY <2>1, <2>2, FitsGoto
  <2> QED BY <1>10, <2>4, TypeIsFits DEF Probe, TypeOK, Fits
<1>11. ASSUME NEW b \in Banks, Delete(p, b)
       PROVE  TypeOK'
  BY <1>11 DEF Delete, TypeOK, File, Files, NoFile
<1> QED
  BY <1>1, <1>2, <1>3, <1>4, <1>5, <1>6, <1>7, <1>8, <1>9, <1>10, <1>11
  DEF Working

LEMMA TypeStep == TypeOK /\ [Next]_vars => TypeOK'
<1> SUFFICES ASSUME TypeOK, [Next]_vars PROVE TypeOK'
  OBVIOUS
<1>1. ASSUME NEW r \in Pages, Listing(r)
      PROVE  TypeOK'
  <2> USE DEF Page, Closed, Files, history
  <2>1. CASE Discover(r)
    BY <1>1, <2>1 DEF Discover, TypeOK
  <2>2. CASE ListDirectory(r)
    BY <1>1, <2>2 DEF ListDirectory, TypeOK
  <2>3. CASE Show(r) \/ Complain(r)
    BY <1>1, <2>3 DEF Show, Complain, TypeOK
  <2>4. ASSUME NEW f \in Files, LoadNext(r, f)
        PROVE  TypeOK'
    BY <2>4 DEF LoadNext, TypeOK
  <2>5. ASSUME NEW f \in Files, FailListing(r, f)
        PROVE  TypeOK'
    BY <2>5 DEF FailListing, TypeOK
  <2> QED BY <1>1, <2>1, <2>2, <2>3, <2>4, <2>5 DEF Listing
<1>2. ASSUME NEW b \in Banks, WriteBack(b)
      PROVE  TypeOK'
  BY <1>2 DEF WriteBack, TypeOK, Files
<1>3. CASE PowerFailure
  BY <1>3, NoContentAssumption
  DEF PowerFailure, TypeOK, Files, Torn, File, NewFile, NoFile, Process, Idle,
      Page, Closed
<1>4. CASE UNCHANGED vars
  BY <1>4 DEF TypeOK, vars, history
<1> QED BY <1>1, <1>2, <1>3, <1>4, TypeWork DEF Next

\* Every field holds a value of its kind.
THEOREM TypeCorrect == Spec => []TypeOK
BY TypeInit, TypeStep, PTL DEF Spec

-----------------------------------------------------------------------------
(* The inductive invariant.                                                *)

IInv == NamesSaved /\ Prepared /\ OneWriter /\ WrittenThere /\ NoLeftovers

LEMMA IInvInit == Init => IInv
<1> SUFFICES ASSUME Init PROVE IInv
  OBVIOUS
<1>1. \A b \in Banks : disk[b] \in Saved /\ dir[b] = disk[b]
  BY DEF Init, Saved, Files
<1>2. \A x \in Saved : x # NoFile => x.data = "whole"
  BY DEF Saved, Bank
<1>3. NamesSaved
  BY <1>1, <1>2, LegacyFileAssumption DEF Init, NamesSaved, There
<1>4. Prepared /\ OneWriter
  BY NoContentAssumption DEF Init, Idle, Prepared, OneWriter
<1>5. WrittenThere /\ NoLeftovers
  BY NoContentAssumption, TempsApart
  DEF Init, Idle, NoFile, Files, WrittenThere, NoLeftovers
<1> QED BY <1>3, <1>4, <1>5 DEF IInv

\* A step that leaves the files alone and puts one process back, or to a step
\* before its file is opened, without a temporary file left behind.
LEMMA QuietStep ==
    ASSUME TypeOK, IInv, NEW p \in Processes, NEW x, Goto(p, x),
           x.pc \notin {"sync", "rename"}, x.temp = None,
           UNCHANGED <<dir, disk>>,
           broken' \/ (broken' = broken /\ proc[p].temp \notin Temps)
    PROVE  IInv'
<1>1. proc' = [proc EXCEPT ![p] = x]
  BY DEF Goto
<1>2. \A q \in Processes : q # p => proc'[q] = proc[q]
  BY <1>1 DEF TypeOK
<1>3. proc'[p] = x
  BY <1>1 DEF TypeOK
<1>4. NamesSaved'
  BY DEF IInv, NamesSaved, There
<1>5. Prepared'
  BY <1>2, <1>3 DEF IInv, Prepared
<1>6. OneWriter'
  BY <1>2, <1>3, NoContentAssumption DEF IInv, OneWriter
<1>7. WrittenThere'
  BY <1>2, <1>3, NoContentAssumption DEF IInv, WrittenThere
<1>8. NoLeftovers'
  <2> SUFFICES ASSUME NEW t \in Temps, dir'[t].data # "absent", ~broken'
               PROVE  \E q \in Processes : proc'[q].temp = t
    BY DEF NoLeftovers
  <2>1. PICK q \in Processes : proc[q].temp = t
    BY DEF IInv, NoLeftovers
  <2>2. q # p
    BY <2>1
  <2> QED BY <1>2, <2>1, <2>2
<1> QED BY <1>4, <1>5, <1>6, <1>7, <1>8 DEF IInv

\* A step that changes one temporary file, its writer's.
LEMMA WriterStep ==
    ASSUME TypeOK, IInv, NEW p \in Processes, NEW t \in Temps, NEW x, NEW y \in File,
           Goto(p, x), dir' = [dir EXCEPT ![t] = y], UNCHANGED <<disk, broken>>,
           \A q \in Processes : q # p => proc[q].temp # t,
           proc[p].temp \in {None, t},
           \/ x.temp = t /\ y.data # "absent"
           \/ x.temp = None /\ y.data = "absent" /\ x.pc \notin {"sync", "rename"},
           x.pc = "sync" => y.data = "whole" /\ y.of = x.of,
           x.pc = "rename" => y = Bank(x.of)
    PROVE  IInv'
<1>1. proc' = [proc EXCEPT ![p] = x]
  BY DEF Goto
<1>2. \A q \in Processes : q # p => proc'[q] = proc[q]
  BY <1>1 DEF TypeOK
<1>3. proc'[p] = x
  BY <1>1 DEF TypeOK
<1>4. dir'[t] = y /\ \A f \in Files : f # t => dir'[f] = dir[f]
  BY DEF TypeOK, Files
<1>5. NamesSaved'
  BY <1>4, TempsApart, LegacyFileAssumption DEF IInv, NamesSaved, There, Files
<1>6. \A q \in Processes : q # p /\ proc[q].temp \in Temps =>
                            dir'[proc[q].temp] = dir[proc[q].temp]
  BY <1>4 DEF Files
<1>7. Prepared'
  <2>1. \A q \in Processes : proc[q].pc \in {"sync", "rename"} => proc[q].temp \in Temps
    BY DEF TypeOK
  <2> QED BY <1>2, <1>3, <1>4, <1>6, <2>1 DEF IInv, Prepared
<1>8. OneWriter'
  BY <1>2, <1>3, NoContentAssumption DEF IInv, OneWriter
<1>9. WrittenThere'
  BY <1>2, <1>3, <1>4, <1>6, NoContentAssumption DEF IInv, WrittenThere
<1>10. NoLeftovers'
  <2> SUFFICES ASSUME NEW u \in Temps, dir'[u].data # "absent", ~broken'
               PROVE  \E q \in Processes : proc'[q].temp = u
    BY DEF NoLeftovers
  <2>1. CASE u = t
    BY <1>3, <1>4, <2>1
  <2>2. CASE u # t
    <3>1. dir[u].data # "absent"
      BY <1>4, <2>2 DEF Files
    <3>2. PICK q \in Processes : proc[q].temp = u
      BY <3>1 DEF IInv, NoLeftovers
    <3>3. q # p
      BY <2>2, <3>2, NoContentAssumption
    <3> QED BY <1>2, <3>2, <3>3
  <2> QED BY <2>1, <2>2
<1> QED BY <1>5, <1>7, <1>8, <1>9, <1>10 DEF IInv

\* Every file operation of a process keeps it.
LEMMA IInvWork ==
    ASSUME TypeOK, IInv, NEW p \in Processes, Working(p)
    PROVE  IInv'
<1> USE DEF history
<1>0. Fits(proc[p])
  BY TypeIsFits
<1>1. ASSUME NEW b \in Banks, NEW c \in Contents, Save(p, b, c)
      PROVE  IInv'
  <2> DEFINE x == [Idle EXCEPT !.pc = "open", !.bank = b, !.of = c]
  <2>1. x.pc \notin {"sync", "rename"} /\ x.temp = None
    BY DEF Idle
  <2> QED BY <1>0, <1>1, <2>1, QuietStep DEF Save, At, Fits
<1>2. ASSUME NEW t \in Temps, CreateTemporary(p, t)
      PROVE  IInv'
  <2> DEFINE x == [proc[p] EXCEPT !.pc = "write", !.temp = t]
  <2>1. x.pc = "write" /\ x.temp = t
    BY <1>0 DEF Fits, Process
  <2>2. \A q \in Processes : q # p => proc[q].temp # t
    BY <1>2 DEF CreateTemporary, FreeTemporaryName, There, IInv, WrittenThere
  <2>3. proc[p].temp = None
    BY <1>0, <1>2 DEF CreateTemporary, At, Fits, Process
  <2>4. NewFile \in File /\ NewFile.data # "absent"
    BY DEF NewFile, File
  <2> QED BY <1>2, <2>1, <2>2, <2>3, <2>4, WriterStep DEF CreateTemporary
<1>3. ASSUME NEW t \in Temps, CreateProbe(p, t)
      PROVE  IInv'
  <2> DEFINE x == [proc[p] EXCEPT !.pc = "drop", !.temp = t]
  <2>1. x.pc = "drop" /\ x.temp = t
    BY <1>0 DEF Fits, Process
  <2>2. \A q \in Processes : q # p => proc[q].temp # t
    BY <1>3 DEF CreateProbe, FreeTemporaryName, There, IInv, WrittenThere
  <2>3. proc[p].temp = None
    BY <1>0, <1>3 DEF CreateProbe, At, Fits, Process
  <2>4. NewFile \in File /\ NewFile.data # "absent"
    BY DEF NewFile, File
  <2> QED BY <1>3, <2>1, <2>2, <2>3, <2>4, WriterStep DEF CreateProbe
<1>4. CASE Write(p)
  <2> DEFINE t == proc[p].temp
             x == [proc[p] EXCEPT !.pc = "sync"]
             y == [dir[t] EXCEPT !.data = "whole", !.of = proc[p].of]
  <2>1. t \in Temps /\ proc[p].of \in Contents
    BY <1>0, <1>4 DEF Write, At, Fits
  <2>2. x.pc = "sync" /\ x.temp = t /\ x.of = proc[p].of
    BY <1>0 DEF Fits, Process
  <2>3. dir[t] \in File
    BY <2>1 DEF TypeOK, Files
  <2>4. y \in File /\ y.data = "whole" /\ y.of = proc[p].of
    BY <2>1, <2>3 DEF File
  <2>5. \A q \in Processes : q # p => proc[q].temp # t
    BY <2>1 DEF IInv, OneWriter
  <2>6. Goto(p, x) /\ dir' = [dir EXCEPT ![t] = y]
    BY <1>4 DEF Write
  <2> HIDE DEF t, x, y
  <2>7. proc[p].temp = t
    BY DEF t
  <2>8. UNCHANGED <<disk, broken>>
    BY <1>4 DEF Write
  <2> QED BY <2>1, <2>2, <2>4, <2>5, <2>6, <2>7, <2>8, WriterStep
<1>5. CASE Sync(p)
  <2> DEFINE t == proc[p].temp
             x == [proc[p] EXCEPT !.pc = "rename"]
             y == [data |-> dir[t].data, of |-> dir[t].of, synced |-> TRUE]
  <2>1. t \in Temps /\ proc[p].of \in Contents
    BY <1>0, <1>5 DEF Sync, At, Fits
  <2>2. x.pc = "rename" /\ x.temp = t /\ x.of = proc[p].of
    BY <1>0 DEF Fits, Process
  <2>3. dir[t] \in File
    BY <2>1 DEF TypeOK, Files
  <2>4. dir[t].data = "whole" /\ dir[t].of = proc[p].of
    BY <1>5 DEF Sync, At, IInv, Prepared
  <2>5. y \in File /\ y = Bank(proc[p].of)
    BY <2>1, <2>4 DEF File, Bank
  <2>6. \A q \in Processes : q # p => proc[q].temp # t
    BY <2>1 DEF IInv, OneWriter
  <2>7. Goto(p, x) /\ dir' = [dir EXCEPT ![t] = y] /\ UNCHANGED <<disk, broken>>
    BY <1>5 DEF Sync
  <2>8. y.data # "absent"
    BY <2>5 DEF Bank
  <2> HIDE DEF t, x, y
  <2>9. proc[p].temp = t
    BY DEF t
  <2> QED BY <2>1, <2>2, <2>5, <2>6, <2>7, <2>8, <2>9, WriterStep
<1>6. CASE Rename(p)
  <2> DEFINE b == proc[p].bank
             t == proc[p].temp
             x == [proc[p] EXCEPT !.pc = "settle", !.temp = None, !.turn = turn[b] + 1]
  <2>1. t \in Temps /\ b \in Banks /\ proc[p].of \in Contents /\ b # t
    BY <1>0, <1>6, TempsApart DEF Rename, At, Fits
  <2>2. dir[t] = Bank(proc[p].of)
    BY <1>6 DEF Rename, At, IInv, Prepared
  <2>3. /\ dir'[b] = Bank(proc[p].of)
        /\ dir'[t] = NoFile
        /\ \A f \in Files : f # b /\ f # t => dir'[f] = dir[f]
    BY <1>6, <2>1, <2>2 DEF Rename, TypeOK, Files
  <2>4. proc'[p] = x /\ \A q \in Processes : q # p => proc'[q] = proc[q]
    BY <1>6 DEF Rename, Goto, TypeOK
  <2>5. x.pc = "settle" /\ x.temp = None
    BY <1>0 DEF Fits, Process
  <2>6. UNCHANGED <<disk, broken>>
    BY <1>6 DEF Rename
  <2>7. \A q \in Processes : q # p => proc[q].temp # t
    BY <2>1 DEF IInv, OneWriter
  <2> HIDE DEF x
  <2>8. NamesSaved'
    <3>1. Bank(proc[p].of) \in Saved /\ Bank(proc[p].of).data # "absent"
      BY <2>1 DEF Saved, Bank
    <3> QED BY <2>1, <2>3, <2>6, <3>1, TempsApart, LegacyFileAssumption
            DEF IInv, NamesSaved, There, Files
  <2>9. \A q \in Processes : q # p /\ proc[q].temp \in Temps =>
                              dir'[proc[q].temp] = dir[proc[q].temp]
    BY <2>1, <2>3, <2>7, TempsApart DEF Files
  <2>10. Prepared'
    <3>1. \A q \in Processes : proc[q].pc \in {"sync", "rename"} => proc[q].temp \in Temps
      BY DEF TypeOK
    <3> QED BY <2>4, <2>5, <2>9, <3>1 DEF IInv, Prepared
  <2>11. OneWriter'
    BY <2>4, <2>5, NoContentAssumption DEF IInv, OneWriter
  <2>12. WrittenThere'
    BY <2>4, <2>5, <2>9, NoContentAssumption DEF IInv, WrittenThere
  <2>13. NoLeftovers'
    <3> SUFFICES ASSUME NEW u \in Temps, dir'[u].data # "absent", ~broken'
                 PROVE  \E q \in Processes : proc'[q].temp = u
      BY DEF NoLeftovers
    <3>1. u # t /\ dir'[u] = dir[u]
      BY <2>1, <2>3, TempsApart DEF NoFile, Files
    <3>2. PICK q \in Processes : proc[q].temp = u
      BY <2>6, <3>1 DEF IInv, NoLeftovers
    <3> QED BY <2>4, <3>1, <3>2
  <2> QED BY <2>8, <2>10, <2>11, <2>12, <2>13 DEF IInv
<1>7. CASE SyncDirectory(p)
  <2> DEFINE b == proc[p].bank
  <2>1. b \in Banks /\ proc[p].temp \notin Temps
    BY <1>0, <1>7 DEF SyncDirectory, At, Fits
  <2>2. dir' = dir /\ broken' = broken /\ Goto(p, Idle)
    BY <1>7 DEF SyncDirectory
  <2>3. disk'[b] = dir[b] /\ \A a \in Banks : a # b => disk'[a] = disk[a]
    BY <1>7, <2>1 DEF SyncDirectory, TypeOK
  <2>4. NamesSaved'
    BY <2>1, <2>2, <2>3, LegacyFileAssumption DEF IInv, NamesSaved, There
  <2>5. proc'[p] = Idle /\ \A q \in Processes : q # p => proc'[q] = proc[q]
    BY <2>2 DEF Goto, TypeOK
  <2>6. Prepared' /\ OneWriter' /\ WrittenThere'
    BY <2>2, <2>5, NoContentAssumption DEF Idle, IInv, Prepared, OneWriter, WrittenThere
  <2>7. NoLeftovers'
    BY <2>1, <2>2, <2>5 DEF IInv, NoLeftovers
  <2> QED BY <2>4, <2>6, <2>7 DEF IInv
<1>8. CASE SyncIgnored(p) \/ GiveUp(p) \/ Kill(p)
  <2>1. Goto(p, Idle) /\ UNCHANGED <<dir, disk>>
    BY <1>8 DEF SyncIgnored, GiveUp, Kill
  <2>2. broken' \/ (broken' = broken /\ proc[p].temp \notin Temps)
    BY <1>0, <1>8 DEF SyncIgnored, GiveUp, Kill, At, Fits
  <2>3. Idle.pc \notin {"sync", "rename"} /\ Idle.temp = None
    BY DEF Idle
  <2> QED BY <2>1, <2>2, <2>3, QuietStep
<1>9. CASE RemoveTemporary(p) \/ DropProbe(p)
  <2>1. proc[p].temp \in Temps
    BY <1>0, <1>9 DEF RemoveTemporary, DropProbe, At, Fits
  <2>2. Goto(p, Idle) /\ dir' = [dir EXCEPT ![proc[p].temp] = NoFile]
    BY <1>9 DEF RemoveTemporary, DropProbe
  <2>3. UNCHANGED <<disk, broken>>
    BY <1>9 DEF RemoveTemporary, DropProbe
  <2>4. NoFile \in File /\ NoFile.data = "absent"
    BY DEF NoFile, File
  <2>5. Idle.pc = "idle" /\ Idle.temp = None
    BY DEF Idle
  <2>6. \A q \in Processes : q # p => proc[q].temp # proc[p].temp
    BY <2>1 DEF IInv, OneWriter
  <2> QED BY <2>1, <2>2, <2>3, <2>4, <2>5, <2>6, WriterStep
<1>10. CASE Probe(p)
  <2> DEFINE x == [Idle EXCEPT !.pc = "probe"]
  <2>1. x.pc \notin {"sync", "rename"} /\ x.temp = None
    BY DEF Idle
  <2> QED BY <1>0, <1>10, <2>1, QuietStep DEF Probe, At, Fits
<1>11. ASSUME NEW b \in Banks, Delete(p, b)
       PROVE  IInv'
  <2>1. dir'[b] = NoFile /\ b # LegacyBank /\ \A f \in Files : f # b => dir'[f] = dir[f]
    BY <1>11 DEF Delete, TypeOK, Files
  <2>2. UNCHANGED <<disk, broken, proc>>
    BY <1>11 DEF Delete
  <2>3. NamesSaved'
    BY <2>1, <2>2, LegacyFileAssumption DEF IInv, NamesSaved, Saved, There, Files
  <2>4. \A t \in Temps : dir'[t] = dir[t]
    BY <2>1, TempsApart DEF Files
  <2>5. \A q \in Processes : proc[q].pc \in {"sync", "rename"} => proc[q].temp \in Temps
    BY DEF TypeOK
  <2>6. Prepared' /\ OneWriter' /\ WrittenThere' /\ NoLeftovers'
    BY <2>2, <2>4, <2>5 DEF IInv, Prepared, OneWriter, WrittenThere, NoLeftovers
  <2> QED BY <2>3, <2>6 DEF IInv
<1> QED
  BY <1>1, <1>2, <1>3, <1>4, <1>5, <1>6, <1>7, <1>8, <1>9, <1>10, <1>11
  DEF Working

LEMMA SavedIsUntorn == \A x \in Saved : Torn(x) = x
BY DEF Saved, Torn, Bank, NoFile

LEMMA IInvStep == TypeOK /\ IInv /\ [Next]_vars => IInv'
<1> SUFFICES ASSUME TypeOK, IInv, [Next]_vars PROVE IInv'
  OBVIOUS
<1>1. ASSUME UNCHANGED <<dir, disk, broken, proc>>
      PROVE  IInv'
  BY <1>1
  DEF IInv, NamesSaved, Prepared, OneWriter, WrittenThere, NoLeftovers, There
<1>2. ASSUME NEW r \in Pages, Listing(r)
      PROVE  UNCHANGED <<dir, disk, broken, proc>>
  BY <1>2 DEF Listing, Discover, ListDirectory, LoadNext, FailListing, Show, Complain,
              history
<1>3. ASSUME NEW b \in Banks, WriteBack(b)
      PROVE  IInv'
  <2>1. disk'[b] = dir[b] /\ \A a \in Banks : a # b => disk'[a] = disk[a]
    BY <1>3 DEF WriteBack, TypeOK
  <2>2. UNCHANGED <<dir, broken, proc>>
    BY <1>3 DEF WriteBack
  <2>3. NamesSaved'
    BY <2>1, <2>2, LegacyFileAssumption DEF IInv, NamesSaved, There
  <2> QED BY <2>2, <2>3 DEF IInv, Prepared, OneWriter, WrittenThere, NoLeftovers
<1>4. CASE PowerFailure
  <2>1. \A b \in Banks : dir'[b] = disk[b]
    BY <1>4, SavedIsUntorn DEF PowerFailure, IInv, NamesSaved, Files
  <2>2. disk' = disk /\ broken' /\ proc' = [p \in Processes |-> Idle]
    BY <1>4 DEF PowerFailure
  <2>3. NamesSaved'
    BY <2>1, <2>2, LegacyFileAssumption DEF IInv, NamesSaved, There
  <2>4. Prepared' /\ OneWriter' /\ WrittenThere' /\ NoLeftovers'
    BY <2>2, NoContentAssumption
    DEF Idle, Prepared, OneWriter, WrittenThere, NoLeftovers
  <2> QED BY <2>3, <2>4 DEF IInv
<1>5. CASE UNCHANGED vars
  BY <1>1, <1>5 DEF vars, history
<1> QED BY <1>1, <1>2, <1>3, <1>4, <1>5, IInvWork DEF Next

LEMMA IInvAlways == Spec => []IInv
BY TypeInit, TypeStep, IInvInit, IInvStep, PTL DEF Spec

\* The name of a bank never leads to less than a whole bank.
THEOREM NeverPartialHolds == Spec => []NeverPartial
<1>1. \A x \in Saved : x.data \in {"absent", "whole"}
  BY DEF Saved, Bank, NoFile
<1>2. IInv => NeverPartial
  BY <1>1 DEF IInv, NamesSaved, NeverPartial
<1> QED BY <1>2, IInvAlways, PTL

\* Every temporary file has one writer, and only killed ones leave any.
THEOREM TemporariesOwnedHolds == Spec => []TemporariesOwned
<1>1. TypeOK /\ IInv => TemporariesOwned
  <2> SUFFICES ASSUME TypeOK, IInv PROVE TemporariesOwned
    OBVIOUS
  <2>1. \A p \in Processes : proc[p].temp \in Temps \cup {None}
    BY DEF TypeOK, Process
  <2> QED BY <2>1 DEF IInv, OneWriter, NoLeftovers, There, TemporariesOwned
<1> QED BY <1>1, IInvAlways, TypeCorrect, PTL

-----------------------------------------------------------------------------
(* Turns.                                                                  *)

LEMMA TurnsInit == Init => TurnsOrdered
BY DEF Init, Idle, TurnsOrdered

LEMMA TurnsStep == TypeOK /\ TurnsOrdered /\ [Next]_vars => TurnsOrdered'
<1> SUFFICES ASSUME TypeOK, TurnsOrdered, [Next]_vars PROVE TurnsOrdered'
  OBVIOUS
<1> USE DEF history
<1>1. ASSUME UNCHANGED <<turn, diskTurn, settled>>,
             \A q \in Processes : proc'[q].pc = "settle" => proc'[q] = proc[q]
      PROVE  TurnsOrdered'
  BY <1>1 DEF TurnsOrdered
<1>2. ASSUME NEW p \in Processes, NEW x, Goto(p, x), x.pc # "settle",
             UNCHANGED <<turn, diskTurn, settled>>
      PROVE  TurnsOrdered'
  <2>1. \A q \in Processes : proc'[q].pc = "settle" => proc'[q] = proc[q]
    BY <1>2 DEF Goto, TypeOK
  <2> QED BY <1>1, <1>2, <2>1
<1>3. ASSUME NEW p \in Processes, Rename(p)
      PROVE  TurnsOrdered'
  <2> DEFINE b == proc[p].bank
             x == [proc[p] EXCEPT !.pc = "settle", !.temp = None, !.turn = turn[b] + 1]
  <2>1. b \in Banks
    BY <1>3 DEF Rename, At, TypeOK
  <2>2. turn' = [turn EXCEPT ![b] = @ + 1] /\ UNCHANGED <<diskTurn, settled>>
    BY <1>3 DEF Rename
  <2>3. turn'[b] = turn[b] + 1 /\ \A a \in Banks : turn'[a] >= turn[a] /\ turn[a] \in Nat
    BY <2>1, <2>2 DEF TypeOK
  <2>4. \A a \in Banks : settled'[a] <= diskTurn'[a] /\ diskTurn'[a] <= turn'[a]
    BY <2>2, <2>3 DEF TurnsOrdered, TypeOK
  <2>5. proc'[p] = x /\ \A q \in Processes : q # p => proc'[q] = proc[q]
    BY <1>3 DEF Rename, Goto, TypeOK
  <2>6. x.turn = turn[b] + 1 /\ x.bank = b
    BY DEF TypeOK, Process
  <2>7. ASSUME NEW q \in Processes, proc'[q].pc = "settle"
        PROVE  proc'[q].turn <= turn'[proc'[q].bank]
    <3>1. CASE q = p
      <4>1. proc'[q].turn = turn[b] + 1 /\ proc'[q].bank = b
        BY <2>5, <2>6, <3>1
      <4>2. turn'[b] = turn[b] + 1 /\ turn[b] \in Nat
        BY <2>1, <2>3
      <4> HIDE DEF b, x
      <4> QED BY <4>1, <4>2
    <3>2. CASE q # p
      <4>1. proc'[q] = proc[q] /\ proc[q].bank \in Banks /\ proc[q].turn \in Nat
        BY <2>5, <2>7, <3>2 DEF TypeOK, Process
      <4>2. proc[q].turn <= turn[proc[q].bank]
        BY <2>7, <4>1 DEF TurnsOrdered
      <4>3. turn'[proc[q].bank] >= turn[proc[q].bank] /\ turn[proc[q].bank] \in Nat
        BY <2>3, <4>1
      <4>4. turn'[proc[q].bank] \in Nat
        BY <2>1, <2>2, <4>1 DEF TypeOK
      <4> QED BY <4>1, <4>2, <4>3, <4>4
    <3> QED BY <3>1, <3>2
  <2> QED BY <2>4, <2>7 DEF TurnsOrdered
<1>4. ASSUME NEW p \in Processes, SyncDirectory(p)
      PROVE  TurnsOrdered'
  <2> DEFINE b == proc[p].bank
  <2>1. b \in Banks /\ proc[p].turn \in Nat /\ proc[p].turn <= turn[b]
    BY <1>4 DEF SyncDirectory, At, TypeOK, Process, TurnsOrdered
  <2>2. turn' = turn /\ diskTurn' = [diskTurn EXCEPT ![b] = turn[b]]
    BY <1>4 DEF SyncDirectory
  <2>3. /\ settled'[b] \in {settled[b], proc[p].turn}
        /\ \A a \in Banks : a # b => settled'[a] = settled[a]
    BY <1>4, <2>1 DEF SyncDirectory, TypeOK
  <2>4. /\ settled[b] \in Nat /\ diskTurn[b] \in Nat /\ turn[b] \in Nat
        /\ settled[b] <= diskTurn[b] /\ diskTurn[b] <= turn[b]
    BY <2>1 DEF TypeOK, TurnsOrdered
  <2>5. settled'[b] <= turn[b]
    BY <2>1, <2>3, <2>4
  <2>6. \A a \in Banks : settled'[a] <= diskTurn'[a] /\ diskTurn'[a] <= turn'[a]
    BY <2>1, <2>2, <2>3, <2>4, <2>5 DEF TypeOK, TurnsOrdered
  <2>7. \A q \in Processes : proc'[q].pc = "settle" => proc'[q] = proc[q]
    BY <1>4 DEF SyncDirectory, Goto, TypeOK, Idle
  <2> QED BY <2>2, <2>6, <2>7 DEF TurnsOrdered
<1>5. ASSUME NEW p \in Processes, NEW b \in Banks, Delete(p, b)
      PROVE  TurnsOrdered'
  <2>1. turn' = [turn EXCEPT ![b] = @ + 1] /\ UNCHANGED <<diskTurn, settled, proc>>
    BY <1>5 DEF Delete
  <2>2. \A a \in Banks : turn'[a] >= turn[a] /\ turn[a] \in Nat /\ turn'[a] \in Nat
    BY <2>1 DEF TypeOK
  <2>3. \A q \in Processes : proc[q].pc = "settle" =>
                              proc[q].bank \in Banks /\ proc[q].turn \in Nat
    BY DEF TypeOK, Process
  <2>4. \A a \in Banks : settled[a] \in Nat /\ diskTurn[a] \in Nat
    BY DEF TypeOK
  <2> QED BY <2>1, <2>2, <2>3, <2>4 DEF TurnsOrdered
<1>6. ASSUME NEW b \in Banks, WriteBack(b)
      PROVE  TurnsOrdered'
  <2>1. UNCHANGED <<turn, settled, proc>> /\ diskTurn' = [diskTurn EXCEPT ![b] = turn[b]]
    BY <1>6 DEF WriteBack
  <2>2. \A a \in Banks : settled[a] \in Nat /\ diskTurn[a] \in Nat /\ turn[a] \in Nat
    BY DEF TypeOK
  <2> QED BY <2>1, <2>2 DEF TurnsOrdered, TypeOK
<1>7. CASE PowerFailure
  <2>1. UNCHANGED <<diskTurn, settled>> /\ turn' = diskTurn
    BY <1>7 DEF PowerFailure
  <2>2. \A q \in Processes : proc'[q].pc = "idle"
    BY <1>7 DEF PowerFailure, Idle
  <2> QED BY <2>1, <2>2 DEF TurnsOrdered, TypeOK
<1>8. ASSUME NEW r \in Pages, Listing(r)
      PROVE  TurnsOrdered'
  <2>1. UNCHANGED <<turn, diskTurn, settled, proc>>
    BY <1>8 DEF Listing, Discover, ListDirectory, LoadNext, FailListing, Show, Complain
  <2> QED BY <2>1 DEF TurnsOrdered
<1>9. CASE UNCHANGED vars
  BY <1>9 DEF vars, TurnsOrdered
<1>10. ASSUME NEW p \in Processes, Working(p)
       PROVE  TurnsOrdered'
  <2>1. ASSUME NEW b \in Banks, NEW c \in Contents, Save(p, b, c)
        PROVE  TurnsOrdered'
    <3> DEFINE x == [Idle EXCEPT !.pc = "open", !.bank = b, !.of = c]
    <3>1. x.pc # "settle"
      BY DEF Idle
    <3> QED BY <1>2, <2>1, <3>1 DEF Save
  <2>2. ASSUME NEW t \in Temps, CreateTemporary(p, t) \/ CreateProbe(p, t)
        PROVE  TurnsOrdered'
    <3>1. \A q \in Processes : proc'[q].pc = "settle" => proc'[q] = proc[q]
      BY <2>2 DEF CreateTemporary, CreateProbe, Goto, TypeOK, Process
    <3> QED BY <1>1, <2>2, <3>1 DEF CreateTemporary, CreateProbe
  <2>3. CASE Write(p) \/ Sync(p)
    <3>1. \A q \in Processes : proc'[q].pc = "settle" => proc'[q] = proc[q]
      BY <2>3 DEF Write, Sync, Goto, TypeOK, Process
    <3> QED BY <1>1, <2>3, <3>1 DEF Write, Sync
  <2>4. CASE SyncIgnored(p) \/ RemoveTemporary(p) \/ GiveUp(p) \/ DropProbe(p) \/ Kill(p)
    <3>1. Goto(p, Idle) /\ UNCHANGED <<turn, diskTurn, settled>>
      BY <2>4 DEF SyncIgnored, RemoveTemporary, GiveUp, DropProbe, Kill
    <3>2. Idle.pc # "settle"
      BY DEF Idle
    <3> QED BY <1>2, <3>1, <3>2
  <2>5. CASE Probe(p)
    <3> DEFINE x == [Idle EXCEPT !.pc = "probe"]
    <3>1. x.pc # "settle"
      BY DEF Idle
    <3> QED BY <1>2, <2>5, <3>1 DEF Probe
  <2> QED BY <1>3, <1>4, <1>5, <1>10, <2>1, <2>2, <2>3, <2>4, <2>5 DEF Working
<1> QED BY <1>6, <1>7, <1>8, <1>9, <1>10 DEF Next

\* A save that has synced the directory and returned is never undone.
THEOREM SavedStaysSavedHolds == Spec => []SavedStaysSaved
<1>1. TypeOK /\ TurnsOrdered => SavedStaysSaved
  <2> SUFFICES ASSUME TypeOK, TurnsOrdered, NEW b \in Banks
               PROVE  settled[b] <= turn[b]
    BY DEF SavedStaysSaved
  <2>1. settled[b] \in Nat /\ diskTurn[b] \in Nat /\ turn[b] \in Nat
    BY DEF TypeOK
  <2> QED BY <2>1 DEF TurnsOrdered
<1> QED BY <1>1, TypeInit, TypeStep, TurnsInit, TurnsStep, PTL DEF Spec

-----------------------------------------------------------------------------
(* Listing.                                                                *)

LEMMA BanksListedAlways == Spec => []BanksListed
<1>1. Init => BanksListed
  BY DEF Init, Closed, BanksListed
<1>2. TypeOK /\ BanksListed /\ [Next]_vars => BanksListed'
  <2> SUFFICES ASSUME TypeOK, BanksListed, [Next]_vars PROVE BanksListed'
    OBVIOUS
  <2>1. ASSUME NEW r \in Pages, Listing(r)
        PROVE  BanksListed'
    <3>1. CASE Discover(r) \/ Show(r) \/ Complain(r)
      BY <3>1 DEF Discover, Show, Complain, Closed, BanksListed, TypeOK, Page
    <3>2. CASE ListDirectory(r)
      BY <3>2 DEF ListDirectory, JsonExtension, BanksListed, TypeOK, Page
    <3>3. ASSUME NEW f \in Files, LoadNext(r, f) \/ FailListing(r, f)
          PROVE  BanksListed'
      BY <3>3 DEF LoadNext, FailListing, BanksListed, TypeOK, Page
    <3> QED BY <2>1, <3>1, <3>2, <3>3 DEF Listing
  <2>2. CASE PowerFailure
    BY <2>2 DEF PowerFailure, Closed, BanksListed
  <2>3. CASE UNCHANGED page
    BY <2>3 DEF BanksListed
  <2> QED
    BY <2>1, <2>2, <2>3
    DEF Next, Working, Save, CreateTemporary, CreateProbe, Write, Sync, Rename,
        SyncDirectory, SyncIgnored, RemoveTemporary, GiveUp, Probe, DropProbe, Delete,
        Kill, WriteBack, vars
<1> QED BY <1>1, <1>2, TypeCorrect, PTL DEF Spec

\* The listing fails over nothing but a bank that was listed and is gone.
THEOREM ListingHolds == Spec => ListingFailsOnlyOverDeleted
<1> DEFINE Excused == \A r \in Pages : page[r].pc # "failed" /\ page'[r].pc = "failed" =>
                        \E b \in page[r].todo \cap Banks : ~There(b)
<1>1. TypeOK /\ IInv /\ BanksListed /\ [Next]_vars => [Excused]_vars
  <2> SUFFICES ASSUME TypeOK, IInv, BanksListed, [Next]_vars, NEW r \in Pages,
                      page[r].pc # "failed", page'[r].pc = "failed"
               PROVE  \E b \in page[r].todo \cap Banks : ~There(b)
    OBVIOUS
  <2>1. \A b \in Banks : There(b) => Loads(b)
    BY DEF IInv, NamesSaved, Saved, Bank, NoFile, There, Loads
  <2>2. ~PowerFailure /\ page' # page
    BY DEF PowerFailure, Closed
  <2>3. PICK q \in Pages : Listing(q)
    BY <2>2 DEF Next, Working, Save, CreateTemporary, CreateProbe, Write, Sync, Rename,
           SyncDirectory, SyncIgnored, RemoveTemporary, GiveUp, Probe, DropProbe, Delete,
           Kill, WriteBack, vars
  <2>4. ASSUME NEW f \in Files, FailListing(q, f)
        PROVE  \E b \in page[r].todo \cap Banks : ~There(b)
    <3>1. q = r
      BY <2>4 DEF FailListing, TypeOK
    <3>2. f \in page[r].todo /\ f \in Banks
      BY <2>4, <3>1 DEF FailListing, BanksListed
    <3>3. ~There(f)
      BY <2>1, <2>4, <3>2 DEF FailListing
    <3> QED BY <3>2, <3>3
  <2>5. Loads(LegacyBank)
    BY <2>1, LegacyFileAssumption DEF IInv, NamesSaved
  <2>6. ~Discover(q)
    BY <2>5 DEF Discover, TypeOK, Page
  <2>7. ~ListDirectory(q) /\ ~Show(q) /\ ~Complain(q)
    BY DEF ListDirectory, Show, Complain, Closed, TypeOK, Page
  <2>8. \A f \in Files : ~LoadNext(q, f)
    BY DEF LoadNext, TypeOK, Page
  <2> QED BY <2>3, <2>4, <2>6, <2>7, <2>8 DEF Listing
<1>2. Spec => [][Excused]_vars
  BY <1>1, TypeCorrect, IInvAlways, BanksListedAlways, PTL DEF Spec
<1> QED BY <1>2 DEF ListingFailsOnlyOverDeleted

-----------------------------------------------------------------------------
(* BankFiles implements BankStore.                                         *)

View == [b \in Banks |-> Content(dir[b])]
Kept == [b \in Banks |-> Content(disk[b])]

LEMMA ContentOfSaved ==
    /\ Content(NoFile) = None
    /\ \A c \in Contents : Content(Bank(c)) = c
BY DEF Content, NoFile, Bank

\* A step that leaves the names of banks alone is none of BankStore's.
LEMMA NamesStutter ==
    ASSUME \A b \in Banks : dir'[b] = dir[b], disk' = disk
    PROVE  UNCHANGED Store!vars
<1>1. View' = View /\ Kept' = Kept
  BY DEF View, Kept
<1> QED BY <1>1 DEF View, Kept, Store!vars

LEMMA SettleMapped ==
    ASSUME TypeOK, NEW b \in Banks, dir' = dir, disk' = [disk EXCEPT ![b] = dir[b]]
    PROVE  Store!Settle(b)
<1>1. View' = View
  BY DEF View
<1>2. \A a \in Banks : disk'[a] = IF a = b THEN dir[b] ELSE disk[a]
  BY DEF TypeOK
<1>3. Kept' = [Kept EXCEPT ![b] = View[b]]
  <2>1. \A a \in Banks : Kept'[a] = IF a = b THEN View[b] ELSE Kept[a]
    BY <1>2 DEF Kept, View
  <2> QED BY <2>1 DEF Kept
<1> QED BY <1>1, <1>3 DEF View, Kept, Store!Settle

\* Every file operation is a step of BankStore or none.
LEMMA WorkMapped ==
    ASSUME TypeOK, IInv, NEW p \in Processes, Working(p)
    PROVE  Store!Next \/ UNCHANGED Store!vars
<1> USE DEF history
<1>0. Fits(proc[p])
  BY TypeIsFits
<1>1. CASE Rename(p)
  <2> DEFINE b == proc[p].bank
             c == proc[p].of
  <2>1. b \in Banks /\ c \in Contents /\ proc[p].temp \in Temps
    BY <1>0, <1>1 DEF Rename, At, Fits
  <2>2. dir[proc[p].temp] = Bank(c)
    BY <1>1 DEF Rename, At, IInv, Prepared
  <2>3. \A a \in Banks : dir'[a] = IF a = b THEN Bank(c) ELSE dir[a]
    BY <1>1, <2>1, <2>2, TempsApart DEF Rename, TypeOK, Files
  <2>4. View' = [View EXCEPT ![b] = c]
    <3>1. \A a \in Banks : View'[a] = IF a = b THEN c ELSE View[a]
      BY <2>1, <2>3, ContentOfSaved DEF View
    <3> QED BY <3>1 DEF View
  <2>5. Kept' = Kept
    BY <1>1 DEF Rename, Kept
  <2>6. Store!Save(b, c)
    BY <2>4, <2>5 DEF View, Kept, Store!Save
  <2> QED BY <2>1, <2>6 DEF Store!Next
<1>2. ASSUME NEW b \in Banks, Delete(p, b)
      PROVE  Store!Next
  <2>1. \A a \in Banks : dir'[a] = IF a = b THEN NoFile ELSE dir[a]
    BY <1>2 DEF Delete, TypeOK, Files
  <2>2. View' = [View EXCEPT ![b] = None]
    <3>1. \A a \in Banks : View'[a] = IF a = b THEN None ELSE View[a]
      BY <2>1, ContentOfSaved DEF View
    <3> QED BY <3>1 DEF View
  <2>3. Kept' = Kept
    BY <1>2 DEF Delete, Kept
  <2>4. Store!Delete(b)
    BY <2>2, <2>3 DEF View, Kept, Store!Delete
  <2> QED BY <2>4 DEF Store!Next
<1>3. CASE SyncDirectory(p)
  <2>1. proc[p].bank \in Banks
    BY <1>0, <1>3 DEF SyncDirectory, At, Fits
  <2>2. Store!Settle(proc[p].bank)
    BY <1>3, <2>1, SettleMapped DEF SyncDirectory
  <2> QED BY <2>1, <2>2 DEF Store!Next
<1>4. ASSUME NEW t \in Temps, CreateTemporary(p, t) \/ CreateProbe(p, t)
      PROVE  UNCHANGED Store!vars
  <2>1. \A b \in Banks : dir'[b] = dir[b]
    BY <1>4, TempsApart DEF CreateTemporary, CreateProbe, TypeOK, Files
  <2> QED BY <1>4, <2>1, NamesStutter DEF CreateTemporary, CreateProbe
<1>5. CASE Write(p) \/ Sync(p) \/ RemoveTemporary(p) \/ DropProbe(p)
  <2>1. proc[p].temp \in Temps
    BY <1>0, <1>5 DEF Write, Sync, RemoveTemporary, DropProbe, At, Fits
  <2>2. \A b \in Banks : dir'[b] = dir[b]
    BY <1>5, <2>1, TempsApart DEF Write, Sync, RemoveTemporary, DropProbe, TypeOK, Files
  <2> QED BY <1>5, <2>2, NamesStutter DEF Write, Sync, RemoveTemporary, DropProbe
<1>6. ASSUME UNCHANGED <<dir, disk>>
      PROVE  UNCHANGED Store!vars
  BY <1>6, NamesStutter
<1> QED
  BY <1>1, <1>2, <1>3, <1>4, <1>5, <1>6
  DEF Working, Save, SyncIgnored, GiveUp, Probe, Kill

\* For any number of banks, processes and pages, whatever is killed, fails or
\* loses power: readers of banks see BankStore.
THEOREM StoreImplemented == Spec => KeepsStore
<1>1. Init => Store!Init
  <2> SUFFICES ASSUME Init PROVE Store!Init
    OBVIOUS
  <2>1. \A b \in Banks : dir[b] = disk[b] /\ disk[b] \in Saved
    BY DEF Init, Saved, Files
  <2>2. \A x \in Saved : Content(x) \in Contents \cup {None}
    BY ContentOfSaved DEF Saved
  <2>3. View \in [Banks -> Contents \cup {None}] /\ Kept = View
    BY <2>1, <2>2 DEF View, Kept
  <2> QED BY <2>3 DEF View, Kept, Store!Init
<1>2. TypeOK /\ IInv /\ [Next]_vars => [Store!Next]_(Store!vars)
  <2> SUFFICES ASSUME TypeOK, IInv, [Next]_vars
               PROVE  Store!Next \/ UNCHANGED Store!vars
    OBVIOUS
  <2>1. ASSUME NEW r \in Pages, Listing(r)
        PROVE  UNCHANGED Store!vars
    <3>1. UNCHANGED <<dir, disk>>
      BY <2>1 DEF Listing, Discover, ListDirectory, LoadNext, FailListing, Show, Complain
    <3> QED BY <3>1, NamesStutter
  <2>2. ASSUME NEW b \in Banks, WriteBack(b)
        PROVE  Store!Next
    <3>1. Store!Settle(b)
      BY <2>2, SettleMapped DEF WriteBack
    <3> QED BY <3>1 DEF Store!Next
  <2>3. CASE PowerFailure
    <3>1. \A b \in Banks : dir'[b] = disk[b]
      BY <2>3, SavedIsUntorn DEF PowerFailure, IInv, NamesSaved, Files
    <3>2. View' = Kept /\ Kept' = Kept
      BY <2>3, <3>1 DEF PowerFailure, View, Kept
    <3>3. Store!PowerFailure
      BY <3>2 DEF View, Kept, Store!PowerFailure
    <3> QED BY <3>3 DEF Store!Next
  <2>4. CASE UNCHANGED vars
    BY <2>4, NamesStutter DEF vars
  <2> QED BY <2>1, <2>2, <2>3, <2>4, WorkMapped DEF Next
<1> QED
  BY <1>1, <1>2, TypeCorrect, IInvAlways, PTL DEF Spec, KeepsStore, Store!Spec
=============================================================================
