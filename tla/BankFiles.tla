------------------------------ MODULE BankFiles ------------------------------
(***************************************************************************)
(* How question banks are kept in files (src/quiz.rs): Quiz::save_atomic    *)
(* with its temporary file, the removal of a bank, the probe of             *)
(* ensure_writable, and QuizCatalog::discover, which lists the directory    *)
(* without any lock while all this goes on.  One action is one file         *)
(* operation.  A process may get an error from any of them (but the unlink  *)
(* of a file it has just made succeeds), may be killed between any two, and *)
(* the power may fail.                                                     *)
(*                                                                         *)
(* The web administration is one process here: quiz_lock lets one of its    *)
(* handlers write at a time.  Each ssh-exam-admin command is another.       *)
(***************************************************************************)
EXTENDS Naturals

CONSTANTS
    Banks,        \* names <id>.json in quiz_directory, and quiz_path
    LegacyBank,   \* the one that stands for quiz_path
    Temps,        \* names .<id>.json.tmp.<random>
    Contents,     \* valid banks
    Processes,    \* processes that write
    Pages,        \* calls of discover at one time
    MaxTurn,      \* bound on the changes of each name
    None

ASSUME LegacyFileAssumption == LegacyBank \in Banks
ASSUME FileNamesAssumption == Banks \cap Temps = {}
ASSUME NoContentAssumption == None \notin Contents \cup Banks \cup Temps

Files == Banks \cup Temps

VARIABLES
    dir,      \* the file each name leads to
    disk,     \* the file each bank name leads to if the power fails now
    turn,     \* history: how often the name in dir has changed
    diskTurn, \* history: the same for the name on disk
    settled,  \* history: the last turn of a save that has synced and returned
    broken,   \* history: some process was killed or the power failed
    proc,     \* the write each process is at
    page      \* the listing each discover is at

history == <<turn, diskTurn, settled, broken>>
vars == <<dir, disk, history, proc, page>>

\* part: less than the bank was written; synced: the bytes are on disk.
File == [data : {"absent", "part", "whole"}, of : Contents \cup {None}, synced : BOOLEAN]

NoFile == [data |-> "absent", of |-> None, synced |-> FALSE]
NewFile == [data |-> "part", of |-> None, synced |-> FALSE]
Bank(c) == [data |-> "whole", of |-> c, synced |-> TRUE]

There(f) == dir[f].data # "absent"

Process == [pc   : {"idle", "open", "write", "sync", "rename", "settle", "probe", "drop"},
            bank : Banks \cup {None},
            of   : Contents \cup {None},
            temp : Temps \cup {None},
            turn : Nat]

Idle == [pc |-> "idle", bank |-> None, of |-> None, temp |-> None, turn |-> 0]

Page == [pc : {"idle", "list", "load", "failed"}, todo : SUBSET Files]

Closed == [pc |-> "idle", todo |-> {}]

Init ==
    /\ disk \in [Banks -> {NoFile} \cup {Bank(c) : c \in Contents}]
    /\ disk[LegacyBank] # NoFile
    /\ dir = [f \in Files |-> IF f \in Banks THEN disk[f] ELSE NoFile]
    /\ turn = [b \in Banks |-> 0]
    /\ diskTurn = [b \in Banks |-> 0]
    /\ settled = [b \in Banks |-> 0]
    /\ broken = FALSE
    /\ proc = [p \in Processes |-> Idle]
    /\ page = [r \in Pages |-> Closed]

At(p, point) == proc[p].pc = point

Goto(p, x) == proc' = [proc EXCEPT ![p] = x]

-----------------------------------------------------------------------------
(* save_atomic.  What create and update look at before is Publishing's.     *)

Save(p, b, c) ==
    /\ At(p, "idle")
    /\ turn[b] < MaxTurn[b]
    /\ Goto(p, [Idle EXCEPT !.pc = "open", !.bank = b, !.of = c])
    /\ UNCHANGED <<dir, disk, history, page>>

\* Slip: opened with create and truncate instead of create_new.
AnyTemporaryName(t) == TRUE

\* create_new refuses a name that is there, and another one is drawn.
FreeTemporaryName(t) == ~There(t)

CreateTemporary(p, t) ==
    /\ At(p, "open")
    /\ FreeTemporaryName(t)
    /\ dir' = [dir EXCEPT ![t] = NewFile]
    /\ Goto(p, [proc[p] EXCEPT !.pc = "write", !.temp = t])
    /\ UNCHANGED <<disk, history, page>>

Write(p) ==
    /\ At(p, "write")
    /\ dir' = [dir EXCEPT ![proc[p].temp] = [@ EXCEPT !.data = "whole", !.of = proc[p].of]]
    /\ Goto(p, [proc[p] EXCEPT !.pc = "sync"])
    /\ UNCHANGED <<disk, history, page>>

\* Slip: sync_all is left out.
Unsynced(p) ==
    /\ At(p, "sync")
    /\ Goto(p, [proc[p] EXCEPT !.pc = "rename"])
    /\ UNCHANGED <<dir, disk, history, page>>

Sync(p) ==
    /\ At(p, "sync")
    /\ dir' = [dir EXCEPT ![proc[p].temp] = [data |-> @.data, of |-> @.of, synced |-> TRUE]]
    /\ Goto(p, [proc[p] EXCEPT !.pc = "rename"])
    /\ UNCHANGED <<disk, history, page>>

Rename(p) ==
    /\ At(p, "rename")
    /\ LET b == proc[p].bank
           t == proc[p].temp
       IN  /\ turn[b] < MaxTurn[b]
           /\ dir' = [dir EXCEPT ![b] = dir[t], ![t] = NoFile]
           /\ turn' = [turn EXCEPT ![b] = @ + 1]
           /\ Goto(p, [proc[p] EXCEPT !.pc = "settle", !.temp = None, !.turn = turn[b] + 1])
    /\ UNCHANGED <<disk, diskTurn, settled, broken, page>>

\* Slip: save_atomic returns without sync_parent_directory.
ReturnUnsettled(p) ==
    /\ At(p, "settle")
    /\ LET b == proc[p].bank
       IN  settled' = [settled EXCEPT ![b] = IF @ < proc[p].turn THEN proc[p].turn ELSE @]
    /\ Goto(p, Idle)
    /\ UNCHANGED <<dir, disk, turn, diskTurn, broken, page>>

\* sync_parent_directory: the names as they are now are on disk.
SyncDirectory(p) ==
    /\ At(p, "settle")
    /\ LET b == proc[p].bank
       IN  /\ disk' = [disk EXCEPT ![b] = dir[b]]
           /\ diskTurn' = [diskTurn EXCEPT ![b] = turn[b]]
           /\ settled' = [settled EXCEPT ![b] = IF @ < proc[p].turn THEN proc[p].turn ELSE @]
    /\ Goto(p, Idle)
    /\ UNCHANGED <<dir, turn, broken, page>>

\* Its error is ignored: save_atomic returns Ok all the same.
SyncIgnored(p) ==
    /\ At(p, "settle")
    /\ Goto(p, Idle)
    /\ UNCHANGED <<dir, disk, history, page>>

\* Slip: the temporary file is not removed when a step fails.
LeaveTemporary(p) ==
    /\ proc[p].pc \in {"write", "sync", "rename"}
    /\ Goto(p, Idle)
    /\ UNCHANGED <<dir, disk, history, page>>

\* A step between open and rename returns an error.
RemoveTemporary(p) ==
    /\ proc[p].pc \in {"write", "sync", "rename"}
    /\ dir' = [dir EXCEPT ![proc[p].temp] = NoFile]
    /\ Goto(p, Idle)
    /\ UNCHANGED <<disk, history, page>>

\* No temporary file could be opened: nothing to remove.
GiveUp(p) ==
    /\ proc[p].pc \in {"open", "probe"}
    /\ Goto(p, Idle)
    /\ UNCHANGED <<dir, disk, history, page>>

\* ensure_writable, when the web administration starts.
Probe(p) ==
    /\ At(p, "idle")
    /\ Goto(p, [Idle EXCEPT !.pc = "probe"])
    /\ UNCHANGED <<dir, disk, history, page>>

CreateProbe(p, t) ==
    /\ At(p, "probe")
    /\ FreeTemporaryName(t)
    /\ dir' = [dir EXCEPT ![t] = NewFile]
    /\ Goto(p, [proc[p] EXCEPT !.pc = "drop", !.temp = t])
    /\ UNCHANGED <<disk, history, page>>

DropProbe(p) ==
    /\ At(p, "drop")
    /\ dir' = [dir EXCEPT ![proc[p].temp] = NoFile]
    /\ Goto(p, Idle)
    /\ UNCHANGED <<disk, history, page>>

\* QuizCatalog::delete: remove_file, and no sync of the directory.
Delete(p, b) ==
    /\ At(p, "idle")
    /\ b # LegacyBank
    /\ There(b)
    /\ turn[b] < MaxTurn[b]
    /\ dir' = [dir EXCEPT ![b] = NoFile]
    /\ turn' = [turn EXCEPT ![b] = @ + 1]
    /\ UNCHANGED <<disk, diskTurn, settled, broken, proc, page>>

-----------------------------------------------------------------------------
(* discover.                                                               *)

\* What Quiz::load takes: a regular file with a valid bank in it.
Loads(f) == f \in Banks /\ dir[f].data = "whole"

\* The legacy bank comes first; without it there is no catalog.
Discover(r) ==
    /\ page[r].pc = "idle"
    /\ page' = [page EXCEPT ![r].pc = IF Loads(LegacyBank) THEN "list" ELSE "failed"]
    /\ UNCHANGED <<dir, disk, history, proc>>

\* Slip: every entry of the directory is taken for a bank.
AnyEntry(f) == TRUE

\* The extension of <id>.json is json, that of a temporary file is its number.
JsonExtension(f) == f \in Banks

ListDirectory(r) ==
    /\ page[r].pc = "list"
    /\ page' = [page EXCEPT ![r] =
                  [pc |-> "load",
                   todo |-> {f \in Files \ {LegacyBank} : There(f) /\ JsonExtension(f)}]]
    /\ UNCHANGED <<dir, disk, history, proc>>

LoadNext(r, f) ==
    /\ page[r].pc = "load"
    /\ f \in page[r].todo
    /\ Loads(f)
    /\ page' = [page EXCEPT ![r].todo = @ \ {f}]
    /\ UNCHANGED <<dir, disk, history, proc>>

\* One that does not load takes the whole listing down.
FailListing(r, f) ==
    /\ page[r].pc = "load"
    /\ f \in page[r].todo
    /\ ~Loads(f)
    /\ page' = [page EXCEPT ![r] = [pc |-> "failed", todo |-> {}]]
    /\ UNCHANGED <<dir, disk, history, proc>>

Show(r) ==
    /\ page[r].pc = "load" /\ page[r].todo = {}
    /\ page' = [page EXCEPT ![r] = Closed]
    /\ UNCHANGED <<dir, disk, history, proc>>

Complain(r) ==
    /\ page[r].pc = "failed"
    /\ page' = [page EXCEPT ![r] = Closed]
    /\ UNCHANGED <<dir, disk, history, proc>>

-----------------------------------------------------------------------------
(* The host.                                                               *)

Kill(p) ==
    /\ ~At(p, "idle")
    /\ Goto(p, Idle)
    /\ broken' = TRUE
    /\ UNCHANGED <<dir, disk, turn, diskTurn, settled, page>>

\* The kernel writes a name back when it likes.
WriteBack(b) ==
    /\ disk' = [disk EXCEPT ![b] = dir[b]]
    /\ diskTurn' = [diskTurn EXCEPT ![b] = turn[b]]
    /\ UNCHANGED <<dir, turn, settled, broken, proc, page>>

\* What was not synced is cut short; a temporary name may stay or go.
Torn(x) == IF x.data = "whole" /\ ~x.synced THEN NewFile ELSE x

PowerFailure ==
    /\ \E left \in SUBSET {t \in Temps : There(t)} :
         dir' = [f \in Files |-> IF f \in Banks THEN Torn(disk[f])
                                 ELSE IF f \in left THEN Torn(dir[f]) ELSE NoFile]
    /\ turn' = diskTurn
    /\ broken' = TRUE
    /\ proc' = [p \in Processes |-> Idle]
    /\ page' = [r \in Pages |-> Closed]
    /\ UNCHANGED <<disk, diskTurn, settled>>

-----------------------------------------------------------------------------
Working(p) ==
    \/ \E b \in Banks, c \in Contents : Save(p, b, c)
    \/ \E t \in Temps : CreateTemporary(p, t) \/ CreateProbe(p, t)
    \/ Write(p) \/ Sync(p) \/ Rename(p) \/ SyncDirectory(p) \/ SyncIgnored(p)
    \/ RemoveTemporary(p) \/ GiveUp(p)
    \/ Probe(p) \/ DropProbe(p)
    \/ \E b \in Banks : Delete(p, b)
    \/ Kill(p)

Listing(r) ==
    \/ Discover(r) \/ ListDirectory(r) \/ Show(r) \/ Complain(r)
    \/ \E f \in Files : LoadNext(r, f) \/ FailListing(r, f)

Next ==
    \/ \E p \in Processes : Working(p)
    \/ \E r \in Pages : Listing(r)
    \/ \E b \in Banks : WriteBack(b)
    \/ PowerFailure

Spec == Init /\ [][Next]_vars

-----------------------------------------------------------------------------
(* Properties.                                                             *)

\* Every field holds a value of its kind, a process that writes has a bank
\* to write and, where it has opened one, a temporary file (save_atomic).
TypeOK ==
    /\ dir \in [Files -> File]
    /\ disk \in [Banks -> File]
    /\ turn \in [Banks -> Nat]
    /\ diskTurn \in [Banks -> Nat]
    /\ settled \in [Banks -> Nat]
    /\ broken \in BOOLEAN
    /\ proc \in [Processes -> Process]
    /\ page \in [Pages -> Page]
    /\ \A p \in Processes :
         /\ proc[p].pc \in {"open", "write", "sync", "rename", "settle"} =>
              proc[p].bank \in Banks
         /\ proc[p].pc \in {"open", "write", "sync", "rename"} => proc[p].of \in Contents
         /\ proc[p].temp \in Temps <=> proc[p].pc \in {"write", "sync", "rename", "drop"}

\* No name of a bank ever leads to less than a whole bank that somebody
\* saved, whoever writes at the same time, is killed or loses power: the
\* temporary file is new, complete and synced before it takes the name.
NeverPartial == \A b \in Banks : dir[b].data \in {"absent", "whole"}

\* Once save_atomic has returned and its sync of the directory succeeded, no
\* power failure takes the name back to what it was before.
SavedStaysSaved == \A b \in Banks : settled[b] <= turn[b]

\* Two processes never write one temporary file, and as long as nothing is
\* killed, no temporary file outlives the write it was made for, failed or
\* not (quiz.rs tests: mutations must not leave temporary files).
TemporariesOwned ==
    /\ \A p, q \in Processes :
         proc[p].temp # None /\ proc[p].temp = proc[q].temp => p = q
    /\ \A t \in Temps :
         There(t) => broken \/ \E p \in Processes : proc[p].temp = t

\* Listing the banks takes no lock and may run into anything: saves, probes
\* and what killed processes left.  It fails only over a bank that was listed
\* and then deleted (discover passes such an error on to the page).
ListingFailsOnlyOverDeleted ==
    [][\A r \in Pages : page[r].pc # "failed" /\ page'[r].pc = "failed" =>
         \E b \in page[r].todo \cap Banks : ~There(b)]_vars

\* The refinement: what each bank name leads to, now and after a power failure.
Content(x) ==
    CASE x.data = "absent" -> None
      [] x.data = "whole" -> x.of
      [] x.data = "part" -> "part"

Store == INSTANCE BankStore WITH
    view <- [b \in Banks |-> Content(dir[b])],
    kept <- [b \in Banks |-> Content(disk[b])]

\* For whoever reads banks, all of this is BankStore: each save and deletion
\* is one step, and everything else is none (src/quiz.rs, save_atomic).
KeepsStore == Store!Spec
=============================================================================
