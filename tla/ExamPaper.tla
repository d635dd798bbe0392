------------------------------ MODULE ExamPaper ------------------------------
(***************************************************************************)
(* From a question bank to a mark: the administrator edits a bank          *)
(* (src/quiz.rs, Quiz), an exam draws a paper from what is in it by then    *)
(* (Quiz::prepare), the candidate moves over the choices and enters one     *)
(* after the other (src/bin/ssh-exam-tui.rs), and the last one is scored    *)
(* (PreparedQuiz::score).                                                  *)
(*                                                                         *)
(* Indices of choices start at 1 here and at 0 in the code.                *)
(***************************************************************************)
EXTENDS Integers, SequencesExt

CONSTANTS
    Questions,      \* what a form or a file may hold, well formed or not
    Trim(_),        \* str::trim on the text of a choice
    Thresholds,     \* values of pass_threshold_percent in a form or file
    Shuffles,       \* values of shuffle_questions and shuffle_choices
    MaxQuestions,   \* 200
    MaxChoices,     \* 20
    None

ASSUME MaxQuestionsAssumption == MaxQuestions \in Nat /\ MaxChoices \in Nat
ASSUME QuestionsAssumption == \A q \in Questions : DOMAIN q.choices = 1..Len(q.choices)

VARIABLES
    bank,      \* the quiz that the administrator edits
    basis,     \* the quiz the open exam was prepared from
    paper,     \* its PreparedQuiz, questions only; empty if no exam is open
    selected,  \* ExamApp.selected
    answers,   \* ExamApp.answers; question_index is their number
    result     \* ExamApp.result, None until the last answer

exam == <<basis, paper, selected, answers, result>>
vars == <<bank, exam>>

-----------------------------------------------------------------------------
(* What a bank may hold.                                                   *)

\* Slip: the choices are compared as they are.
ValidAsWritten(q) ==
    /\ Len(q.choices) \in 2..MaxChoices
    /\ q.correct \in DOMAIN q.choices
    /\ \A i, j \in DOMAIN q.choices : i # j => q.choices[i] # q.choices[j]

ValidQuestion(q) ==
    /\ Len(q.choices) \in 2..MaxChoices
    /\ q.correct \in DOMAIN q.choices
    /\ \A i, j \in DOMAIN q.choices : i # j => Trim(q.choices[i]) # Trim(q.choices[j])

\* Quiz::validate.  A limit of None asks every question.
Valid(quiz) ==
    /\ quiz.threshold \in 1..100
    /\ Len(quiz.questions) \in 1..MaxQuestions
    /\ quiz.limit # None => quiz.limit \in 1..Len(quiz.questions)
    /\ \A i \in DOMAIN quiz.questions : ValidQuestion(quiz.questions[i])

Quiz == [threshold : Thresholds, limit : (0..MaxQuestions) \cup {None},
         shuffle_questions : Shuffles, shuffle_choices : Shuffles,
         questions : BoundedSeq(Questions, MaxQuestions)]

\* ScoreResult
Mark == [correct : Nat, total : Nat, percent : Nat, passed : BOOLEAN]

ASSUME NoExamAssumption == None \notin Quiz /\ None \notin Mark

Init ==
    /\ bank \in {quiz \in Quiz : Valid(quiz)}
    /\ basis = None
    /\ paper = <<>>
    /\ selected = 1
    /\ answers = <<>>
    /\ result = None

\* Quiz::update: the change is validated before it is saved.
Save(quiz) ==
    /\ Valid(quiz)
    /\ bank' = quiz
    /\ UNCHANGED exam

UpdateSettings(t) == Save([bank EXCEPT !.threshold = t])

AddQuestion(q) == Save([bank EXCEPT !.questions = Append(@, q)])

EditQuestion(i, q) == Save([bank EXCEPT !.questions = ReplaceAt(@, i, q)])

\* Slip: a deletion is saved without a look at the rest of the quiz.
DeleteAndWrite(i) ==
    /\ Len(bank.questions) > 1
    /\ bank' = [bank EXCEPT !.questions = RemoveAt(@, i)]
    /\ UNCHANGED exam

DeleteQuestion(i) ==
    /\ Len(bank.questions) > 1
    /\ Save([bank EXCEPT !.questions = RemoveAt(@, i)])

-----------------------------------------------------------------------------
(* Quiz::prepare.                                                          *)

\* The orders a shuffle may give n things.
Orders(shuffled, n) ==
    IF shuffled THEN Bijection(1..n, 1..n) ELSE {[i \in 1..n |-> i]}

\* Slip: the index is kept while the choices move.
PresentKeepingIndex(q, order) ==
    [prompt |-> q.prompt,
     choices |-> [i \in DOMAIN q.choices |-> q.choices[order[i]]],
     correct |-> q.correct]

\* The correct choice is found again by its text.
Present(q, order) ==
    LET choices == [i \in DOMAIN q.choices |-> q.choices[order[i]]] IN
    [prompt |-> q.prompt,
     choices |-> choices,
     correct |-> CHOOSE i \in DOMAIN choices :
                   /\ choices[i] = q.choices[q.correct]
                   /\ \A j \in 1..(i - 1) : choices[j] # q.choices[q.correct]]

\* How many questions truncate leaves.
Asked(quiz) == IF quiz.limit = None THEN Len(quiz.questions) ELSE quiz.limit

Presentations(quiz, i) ==
    {Present(quiz.questions[i], order) :
       order \in Orders(quiz.shuffle_choices, Len(quiz.questions[i].choices))}

Papers(quiz) ==
    {p \in [1..Asked(quiz) -> UNION {Presentations(quiz, i) : i \in DOMAIN quiz.questions}] :
       \E drawn \in Orders(quiz.shuffle_questions, Len(quiz.questions)) :
         \A k \in 1..Asked(quiz) : p[k] \in Presentations(quiz, drawn[k])}

Open == paper # <<>> /\ result = None

\* ExamApp::new on a fresh paper.
BeginExam ==
    /\ paper = <<>>
    /\ paper' \in Papers(bank)
    /\ basis' = bank
    /\ UNCHANGED <<bank, selected, answers, result>>

-----------------------------------------------------------------------------
(* The candidate.                                                          *)

Shown == paper[Len(answers) + 1].choices

\* Up, down, or the digit of a choice; other digits leave it.
Select(i) ==
    /\ Open
    /\ i \in DOMAIN Shown
    /\ selected' = i
    /\ UNCHANGED <<bank, basis, paper, answers, result>>

\* Slip: the selection stays where it was on the question before.
EnterAndStay ==
    /\ Open
    /\ Len(answers) + 1 < Len(paper)
    /\ answers' = Append(answers, selected)
    /\ UNCHANGED <<bank, basis, paper, selected, result>>

\* submit_answer, not the last one.
Enter ==
    /\ Open
    /\ Len(answers) + 1 < Len(paper)
    /\ answers' = Append(answers, selected)
    /\ selected' = 1
    /\ UNCHANGED <<bank, basis, paper, result>>

\* Slip: the number of answers needed is rounded down.
ScoreRoundedDown(p, given, threshold) ==
    LET correct == Cardinality({i \in DOMAIN p : given[i] = p[i].correct})
        total == Len(p)
    IN  [correct |-> correct, total |-> total,
         percent |-> (correct * 100) \div total,
         passed  |-> correct >= (threshold * total) \div 100]

\* PreparedQuiz::score
Score(p, given, threshold) ==
    LET correct == Cardinality({i \in DOMAIN p : given[i] = p[i].correct})
        total == Len(p)
    IN  [correct |-> correct, total |-> total,
         percent |-> (correct * 100) \div total,
         passed  |-> correct * 100 >= threshold * total]

\* submit_answer, the last one.
EnterLast ==
    /\ Open
    /\ Len(answers) + 1 = Len(paper)
    /\ answers' = Append(answers, selected)
    /\ result' = Score(paper, answers', basis.threshold)
    /\ UNCHANGED <<bank, basis, paper, selected>>

\* Esc, q, the end of the result screen, or a connection that is gone.
Quit ==
    /\ paper # <<>>
    /\ basis' = None
    /\ paper' = <<>>
    /\ selected' = 1
    /\ answers' = <<>>
    /\ result' = None
    /\ UNCHANGED bank

Edit ==
    \/ \E t \in Thresholds : UpdateSettings(t)
    \/ \E q \in Questions : AddQuestion(q)
    \/ \E i \in DOMAIN bank.questions, q \in Questions : EditQuestion(i, q)
    \/ \E i \in DOMAIN bank.questions : DeleteQuestion(i)

Next ==
    \/ Edit
    \/ BeginExam
    \/ \E i \in 1..MaxChoices : Select(i)
    \/ Enter
    \/ EnterLast
    \/ Quit

Spec == Init /\ [][Next]_vars

-----------------------------------------------------------------------------
(* Properties.                                                             *)

\* What is saved is a valid quiz, and an open exam stands on one of its
\* questions.
TypeOK ==
    /\ bank \in Quiz /\ Valid(bank)
    /\ paper = <<>> <=> basis = None
    /\ paper # <<>> => Valid(basis) /\ Len(paper) = Asked(basis)
    /\ Open => Len(answers) < Len(paper)
    /\ result # None => result \in Mark

\* Every answer is one of the choices that were on the screen when it was
\* given, and so is what an Enter would give now (run and submit_answer in
\* ssh-exam-tui.rs: the questions differ in how many choices they have).
AnswersOnScreen ==
    /\ paper # <<>> =>
         \A i \in DOMAIN answers : answers[i] \in DOMAIN paper[i].choices
    /\ Open => selected \in DOMAIN Shown

SameQuestion(q, p) ==
    /\ p.prompt = q.prompt
    /\ ToSet(p.choices) = ToSet(q.choices)
    /\ p.choices[p.correct] = q.choices[q.correct]

\* Whatever was shuffled, a paper asks questions of the bank, each with its own
\* choices and its own right answer, and none twice (Quiz::prepare).
PaperIsFair ==
    paper # <<>> =>
      \E f \in [DOMAIN paper -> DOMAIN basis.questions] :
        /\ IsInjective(f)
        /\ \A k \in DOMAIN paper : SameQuestion(basis.questions[f[k]], paper[k])

\* Whoever enters a choice that reads like the right one has it counted, and
\* nobody else has: no choice looks the same and is wrong (Quiz::validate and
\* PreparedQuiz::score).
MarkedByText ==
    result # None =>
      result.correct = Cardinality({i \in DOMAIN paper :
        Trim(paper[i].choices[answers[i]]) = Trim(paper[i].choices[paper[i].correct])})

\* What the candidate is told: the percentage on the result screen, rounded
\* down, reaches the threshold exactly if the exam is passed
\* (PreparedQuiz::score; the test threshold_is_inclusive_and_integer_safe).
PassedIffPercent ==
    result # None => (result.passed <=> result.percent >= basis.threshold)
=============================================================================
