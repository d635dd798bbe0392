------------------------------ MODULE Catalogue ------------------------------
(***************************************************************************)
(* What the web administration promises of question banks and tests:       *)
(* whatever is asked of it happens at once, at some moment between the     *)
(* request and its answer, or not at all.  There is no lock here, no file  *)
(* that is read before it is written, and no test that is read twice;      *)
(* Publishing says how the code keeps this.                                *)
(***************************************************************************)
CONSTANTS
    Banks,
    LegacyBank,   \* never imported and never deleted
    Contents,
    Tests,
    Settings,
    Jobs,         \* requests at one time
    None

VARIABLES
    file,         \* the content of each bank, None if there is none
    banksOf,      \* the banks of each saved test, {} for any other
    settingsOf,
    published,    \* tests that were published
    snapshot,     \* what was published last
    asked         \* what each request asks for, until it is answered

vars == <<file, banksOf, settingsOf, published, snapshot, asked>>

\* A request is about one bank or one test; a test is saved with some banks.
Request ==
    {x \in [op       : {"import", "edit", "delete", "create", "update", "publish"},
           bank     : Banks \cup {None},
           test     : Tests \cup {None},
           banks    : SUBSET Banks,
           settings : Settings \cup {None}] :
       /\ x.op \in {"import", "edit", "delete"} => x.bank # None
       /\ x.op \in {"import", "delete"} => x.bank # LegacyBank
       /\ x.op \in {"create", "update", "publish"} => x.test # None
       /\ x.op \in {"create", "update"} => x.banks # {}}

NoRequest == [op |-> "none", bank |-> None, test |-> None, banks |-> {}, settings |-> None]

Init ==
    /\ file \in [Banks -> Contents \cup {None}]
    /\ file[LegacyBank] # None
    /\ banksOf = [t \in Tests |-> {}]
    /\ settingsOf = [t \in Tests |-> None]
    /\ published = {}
    /\ snapshot = None
    /\ asked = [j \in Jobs |-> NoRequest]

Ask(j) ==
    /\ asked[j] = NoRequest
    /\ asked'[j] \in Request
    /\ asked' = [asked EXCEPT ![j] = asked'[j]]
    /\ UNCHANGED <<file, banksOf, settingsOf, published, snapshot>>

Answer(j) == asked' = [asked EXCEPT ![j] = NoRequest]

\* The request is refused, and nothing of it is done.
Refuse(j) ==
    /\ asked[j] # NoRequest
    /\ Answer(j)
    /\ UNCHANGED <<file, banksOf, settingsOf, published, snapshot>>

\* A new bank replaces none; an edit is of a bank that is there.
Save(j, c) ==
    LET b == asked[j].bank IN
    /\ asked[j].op \in {"import", "edit"}
    /\ asked[j].op = "import" <=> file[b] = None
    /\ file' = [file EXCEPT ![b] = c]
    /\ Answer(j)
    /\ UNCHANGED <<banksOf, settingsOf, published, snapshot>>

\* A bank that some test uses is not deleted.
Delete(j) ==
    LET b == asked[j].bank IN
    /\ asked[j].op = "delete"
    /\ file[b] # None
    /\ \A t \in Tests : b \notin banksOf[t]
    /\ file' = [file EXCEPT ![b] = None]
    /\ Answer(j)
    /\ UNCHANGED <<banksOf, settingsOf, published, snapshot>>

\* A test is saved when all of its banks are there; a new one replaces none.
Store(j) ==
    LET x == asked[j] IN
    /\ x.op \in {"create", "update"}
    /\ x.op = "create" <=> banksOf[x.test] = {}
    /\ \A b \in x.banks : file[b] # None
    /\ banksOf' = [banksOf EXCEPT ![x.test] = x.banks]
    /\ settingsOf' = [settingsOf EXCEPT ![x.test] = x.settings]
    /\ Answer(j)
    /\ UNCHANGED <<file, published, snapshot>>

\* What is published is the test as it is saved, with its banks as they are.
Publish(j) ==
    LET t == asked[j].test IN
    /\ asked[j].op = "publish"
    /\ banksOf[t] # {}
    /\ published' = published \cup {t}
    /\ snapshot' = [test |-> t, banks |-> banksOf[t], settings |-> settingsOf[t],
                    quiz |-> [b \in Banks |-> IF b \in banksOf[t] THEN file[b] ELSE None]]
    /\ Answer(j)
    /\ UNCHANGED <<file, banksOf, settingsOf>>

\* A test that was never published is deleted.
DeleteTest(t) ==
    /\ banksOf[t] # {}
    /\ t \notin published
    /\ banksOf' = [banksOf EXCEPT ![t] = {}]
    /\ settingsOf' = [settingsOf EXCEPT ![t] = None]
    /\ UNCHANGED <<file, published, snapshot, asked>>

Next ==
    \/ \E j \in Jobs : Ask(j) \/ Delete(j) \/ Store(j) \/ Publish(j) \/ Refuse(j)
    \/ \E j \in Jobs, c \in Contents : Save(j, c)
    \/ \E t \in Tests : DeleteTest(t)

Spec == Init /\ [][Next]_vars
=============================================================================
