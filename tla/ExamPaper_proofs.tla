-------------------------- MODULE ExamPaper_proofs --------------------------
(***************************************************************************)
(* The mark and the percentage beside it agree, for any bank, any paper    *)
(* and any threshold.                                                      *)
(***************************************************************************)
EXTENDS ExamPaper, FiniteSetTheorems, TLAPS

\* Dividing rounds down, so a whole number is reached by the quotient exactly
\* if its multiple is reached by the dividend.
LEMMA QuotientReaches ==
    ASSUME NEW a \in Nat, NEW b \in Nat \ {0}, NEW t \in Nat
    PROVE  a \div b >= t <=> a >= t * b
<1> DEFINE q == a \div b
           r == a % b
<1>1. q \in Int /\ r \in Int /\ a = b * q + r /\ 0 <= r /\ r < b
  OBVIOUS
<1> HIDE DEF q, r
<1>2. ASSUME q >= t PROVE a >= t * b
  <2>1. b * q >= b * t
    BY <1>1, <1>2
  <2> QED BY <1>1, <2>1
<1>3. ASSUME ~(q >= t) PROVE ~(a >= t * b)
  <2>1. q + 1 <= t
    BY <1>1, <1>3
  <2>2. b * (q + 1) <= b * t
    BY <1>1, <2>1
  <2> QED BY <1>1, <2>2
<1>4. q >= t <=> a >= t * b
  BY <1>2, <1>3
<1> QED BY <1>4 DEF q

\* PreparedQuiz::score on any paper that is not empty.
LEMMA ScoreAgrees ==
    ASSUME NEW n \in Nat \ {0}, NEW p, DOMAIN p = 1..n, Len(p) = n, NEW given,
           NEW t \in Nat
    PROVE  Score(p, given, t).passed <=> Score(p, given, t).percent >= t
<1> DEFINE right == {i \in DOMAIN p : given[i] = p[i].correct}
           c == Cardinality(right)
<1>1. c \in Nat
  <2>1. IsFiniteSet(1..n)
    BY FS_Interval
  <2>2. right \subseteq 1..n
    OBVIOUS
  <2> QED BY <2>1, <2>2, FS_Subset, FS_CardinalityType
<1>2. Score(p, given, t).percent = (c * 100) \div n /\ Score(p, given, t).passed = (c * 100 >= t * n)
  BY DEF Score
<1> HIDE DEF c
<1>3. c * 100 \in Nat
  BY <1>1
<1>4. (c * 100) \div n >= t <=> c * 100 >= t * n
  BY <1>3, QuotientReaches
<1> QED BY <1>2, <1>4

-----------------------------------------------------------------------------
\* What an open exam stands on.
PaperInv ==
    /\ Valid(bank)
    /\ paper # <<>> => Valid(basis) /\ paper \in Papers(basis)
    /\ result # None => paper # <<>>
    /\ PassedIffPercent

LEMMA PaperLength ==
    ASSUME NEW quiz, Valid(quiz), NEW p \in Papers(quiz)
    PROVE  Asked(quiz) \in Nat \ {0} /\ DOMAIN p = 1..Asked(quiz) /\ Len(p) = Asked(quiz)
<1>1. Asked(quiz) \in Nat \ {0}
  BY MaxQuestionsAssumption DEF Valid, Asked
<1>2. PICK S : p \in [1..Asked(quiz) -> S]
  BY DEF Papers
<1> HIDE DEF Asked
<1>3. p \in Seq(S)
  BY <1>1, <1>2
<1> QED BY <1>1, <1>2, <1>3

LEMMA PaperStep == PaperInv /\ [Next]_vars => PaperInv'
<1> SUFFICES ASSUME PaperInv, [Next]_vars PROVE PaperInv'
  OBVIOUS
<1>1. ASSUME NEW quiz, Save(quiz) PROVE PaperInv'
  BY <1>1 DEF Save, PaperInv, PassedIffPercent, exam
<1>2. CASE Edit
  BY <1>1, <1>2 DEF Edit, UpdateSettings, AddQuestion, EditQuestion, DeleteQuestion
<1>3. CASE BeginExam
  BY <1>3 DEF BeginExam, PaperInv, PassedIffPercent
<1>4. ASSUME NEW i, Select(i) PROVE PaperInv'
  BY <1>4 DEF Select, PaperInv, PassedIffPercent
<1>5. CASE Enter
  BY <1>5 DEF Enter, PaperInv, PassedIffPercent
<1>6. CASE EnterLast
  <2>1. Valid(basis) /\ paper \in Papers(basis) /\ basis.threshold \in Nat
    <3>1. Valid(basis) /\ paper \in Papers(basis)
      BY <1>6 DEF EnterLast, Open, PaperInv
    <3>2. basis.threshold \in 1..100
      BY <3>1 DEF Valid
    <3> QED BY <3>1, <3>2
  <2>2. result' = Score(paper, answers', basis.threshold)
    BY <1>6 DEF EnterLast
  <2>3. result'.passed <=> result'.percent >= basis.threshold
    BY <2>1, <2>2, PaperLength, ScoreAgrees
  <2>4. paper # <<>> /\ UNCHANGED <<bank, basis, paper>>
    BY <1>6 DEF EnterLast, Open
  <2> QED BY <2>1, <2>3, <2>4 DEF PaperInv, PassedIffPercent
<1>7. CASE Quit
  BY <1>7 DEF Quit, PaperInv, PassedIffPercent
<1>8. CASE UNCHANGED vars
  BY <1>8 DEF vars, exam, PaperInv, PassedIffPercent
<1> QED BY <1>2, <1>3, <1>4, <1>5, <1>6, <1>7, <1>8 DEF Next

\* The percentage that the candidate is shown reaches the threshold exactly
\* when the attempt is stored as passed (PreparedQuiz::score).
THEOREM PassedIffPercentHolds == Spec => []PassedIffPercent
<1>1. Init => PaperInv
  BY DEF Init, PaperInv, PassedIffPercent
<1>2. PaperInv => PassedIffPercent
  BY DEF PaperInv
<1> QED BY <1>1, <1>2, PaperStep, PTL DEF Spec

-----------------------------------------------------------------------------
(* The bank stays a quiz, whatever is edited.                              *)

LEMMA QuizQuestions ==
    ASSUME NEW quiz \in Quiz
    PROVE  /\ quiz.questions \in Seq(Questions)
           /\ Len(quiz.questions) \in 0..MaxQuestions
<1>1. PICK n \in 0..MaxQuestions : quiz.questions \in [1..n -> Questions]
  BY DEF Quiz, BoundedSeq, SeqOf
<1> QED BY <1>1, MaxQuestionsAssumption

LEMMA WithQuestions ==
    ASSUME NEW quiz \in Quiz, NEW seq \in Seq(Questions), Len(seq) \in 0..MaxQuestions
    PROVE  [quiz EXCEPT !.questions = seq] \in Quiz
<1>1. seq \in [1..Len(seq) -> Questions]
  OBVIOUS
<1>2. seq \in BoundedSeq(Questions, MaxQuestions)
  BY <1>1 DEF BoundedSeq, SeqOf
<1> QED BY <1>2 DEF Quiz

LEMMA EditKeepsQuiz ==
    ASSUME bank \in Quiz, Edit
    PROVE  bank' \in Quiz /\ Valid(bank') /\ UNCHANGED exam
<1> DEFINE qs == bank.questions
<1>0. qs \in Seq(Questions) /\ Len(qs) \in 0..MaxQuestions
  BY QuizQuestions
<1>1. ASSUME NEW t \in Thresholds, UpdateSettings(t) PROVE bank' \in Quiz
  BY <1>1 DEF UpdateSettings, Save, Quiz
<1>2. ASSUME NEW q \in Questions, AddQuestion(q) PROVE bank' \in Quiz
  <2> DEFINE seq == Append(qs, q)
             new == [bank EXCEPT !.questions = seq]
  <2>1. bank' = new /\ Valid(new)
    BY <1>2 DEF AddQuestion, Save
  <2>2. seq \in Seq(Questions)
    BY <1>0
  <2>3. new.questions = seq
    BY DEF Quiz
  <2> HIDE DEF seq
  <2>4. Len(seq) \in 0..MaxQuestions
    BY <2>1, <2>3, MaxQuestionsAssumption DEF Valid
  <2> QED BY <2>1, <2>2, <2>4, WithQuestions
<1>3. ASSUME NEW i \in DOMAIN qs, NEW q \in Questions, EditQuestion(i, q)
      PROVE  bank' \in Quiz
  <2> DEFINE seq == [qs EXCEPT ![i] = q]
  <2>1. seq \in Seq(Questions) /\ Len(seq) = Len(qs)
    BY <1>0
  <2> QED BY <1>0, <1>3, <2>1, WithQuestions DEF EditQuestion, Save, ReplaceAt
<1>4. ASSUME NEW i \in DOMAIN qs, DeleteQuestion(i) PROVE bank' \in Quiz
  <2> DEFINE seq == SubSeq(qs, 1, i - 1) \o SubSeq(qs, i + 1, Len(qs))
             new == [bank EXCEPT !.questions = seq]
  <2>1. bank' = new /\ Valid(new)
    BY <1>4 DEF DeleteQuestion, Save, RemoveAt
  <2>2. seq \in Seq(Questions)
    BY <1>0
  <2>3. new.questions = seq
    BY DEF Quiz
  <2> HIDE DEF seq
  <2>4. Len(seq) \in 0..MaxQuestions
    BY <2>1, <2>3, MaxQuestionsAssumption DEF Valid
  <2> QED BY <2>1, <2>2, <2>4, WithQuestions
<1>5. Valid(bank') /\ UNCHANGED exam
  BY DEF Edit, UpdateSettings, AddQuestion, EditQuestion, DeleteQuestion, Save
<1> QED BY <1>1, <1>2, <1>3, <1>4, <1>5 DEF Edit

-----------------------------------------------------------------------------
(* What a question looks like on the paper.                                *)

\* The choices of a question of the bank differ, and one of them is right.
LEMMA WellFormed ==
    ASSUME NEW quiz \in Quiz, Valid(quiz), NEW i \in DOMAIN quiz.questions
    PROVE  LET q == quiz.questions[i] IN
           /\ Len(q.choices) \in Nat /\ Len(q.choices) >= 2
           /\ DOMAIN q.choices = 1..Len(q.choices)
           /\ q.correct \in DOMAIN q.choices
           /\ \A j, k \in DOMAIN q.choices :
                j # k => Trim(q.choices[j]) # Trim(q.choices[k])
<1>1. quiz.questions[i] \in Questions
  BY QuizQuestions
<1>2. ValidQuestion(quiz.questions[i])
  BY DEF Valid
<1> QED BY <1>1, <1>2, QuestionsAssumption, MaxQuestionsAssumption DEF ValidQuestion

\* A question that may be asked: on screen as many choices as the bank has,
\* all different, the right one among them.
LEMMA PresentedQuestion ==
    ASSUME NEW quiz \in Quiz, Valid(quiz), NEW i \in DOMAIN quiz.questions,
           NEW p \in Presentations(quiz, i)
    PROVE  /\ 1 \in DOMAIN p.choices
           /\ p.correct \in DOMAIN p.choices
           /\ \A j, k \in DOMAIN p.choices :
                j # k => Trim(p.choices[j]) # Trim(p.choices[k])
           /\ SameQuestion(quiz.questions[i], p)
<1> DEFINE q == quiz.questions[i]
           n == Len(q.choices)
<1>1. /\ n \in Nat /\ n >= 2
      /\ DOMAIN q.choices = 1..n
      /\ q.correct \in 1..n
      /\ \A j, k \in 1..n : j # k => Trim(q.choices[j]) # Trim(q.choices[k])
  BY WellFormed
<1>2. PICK order \in Orders(quiz.shuffle_choices, n) : p = Present(q, order)
  BY DEF Presentations
<1> HIDE DEF q, n
<1>3. /\ order \in [1..n -> 1..n]
      /\ \A j, k \in 1..n : order[j] = order[k] => j = k
      /\ \A k \in 1..n : \E j \in 1..n : order[j] = k
  BY <1>1 DEF Orders, Bijection, Injection, Surjection, IsInjective
<1> DEFINE right == q.choices[q.correct]
<1>4. /\ p.prompt = q.prompt
      /\ p.choices = [j \in 1..n |-> q.choices[order[j]]]
      /\ p.correct = CHOOSE j \in DOMAIN p.choices :
                       /\ p.choices[j] = right
                       /\ \A k \in 1..(j - 1) : p.choices[k] # right
  BY <1>1, <1>2 DEF Present
<1>5. DOMAIN p.choices = 1..n /\ \A j \in 1..n : p.choices[j] = q.choices[order[j]]
  BY <1>4
<1>6. ASSUME NEW j \in 1..n, NEW k \in 1..n, j # k
      PROVE  Trim(p.choices[j]) # Trim(p.choices[k])
  <2>1. order[j] \in 1..n /\ order[k] \in 1..n /\ order[j] # order[k]
    BY <1>3, <1>6
  <2>2. Trim(q.choices[order[j]]) # Trim(q.choices[order[k]])
    BY <1>1, <2>1
  <2> QED BY <1>5, <2>2
<1>7. PICK c \in 1..n : order[c] = q.correct
  BY <1>1, <1>3
<1>8. p.choices[c] = right /\ \A k \in 1..n : k # c => p.choices[k] # right
  BY <1>5, <1>6, <1>7
<1>9. p.correct \in 1..n /\ p.choices[p.correct] = right
  <2>1. \A k \in 1..(c - 1) : p.choices[k] # right
    BY <1>1, <1>8
  <2>2. \E j \in DOMAIN p.choices : /\ p.choices[j] = right
                                    /\ \A k \in 1..(j - 1) : p.choices[k] # right
    BY <1>5, <1>8, <2>1
  <2> QED BY <1>4, <1>5, <2>2
<1>10. ToSet(p.choices) = ToSet(q.choices)
  <2>1. ToSet(p.choices) = {p.choices[j] : j \in 1..n}
    BY <1>5 DEF ToSet
  <2>2. ToSet(q.choices) = {q.choices[j] : j \in 1..n}
    BY <1>1 DEF ToSet
  <2>3. ASSUME NEW x \in ToSet(p.choices) PROVE x \in ToSet(q.choices)
    <3>1. PICK j \in 1..n : x = p.choices[j]
      BY <2>1
    <3>2. x = q.choices[order[j]] /\ order[j] \in 1..n
      BY <1>3, <1>5, <3>1
    <3> QED BY <2>2, <3>2
  <2>4. ASSUME NEW x \in ToSet(q.choices) PROVE x \in ToSet(p.choices)
    <3>1. PICK k \in 1..n : x = q.choices[k]
      BY <2>2
    <3>2. PICK j \in 1..n : order[j] = k
      BY <1>3
    <3>3. x = p.choices[j]
      BY <1>5, <3>1, <3>2
    <3> QED BY <2>1, <3>3
  <2> QED BY <2>3, <2>4
<1>11. SameQuestion(q, p)
  BY <1>4, <1>9, <1>10 DEF SameQuestion
<1>12. 1 \in DOMAIN p.choices /\ p.correct \in DOMAIN p.choices
  BY <1>1, <1>5, <1>9
<1>13. SameQuestion(quiz.questions[i], p)
  BY <1>11 DEF q
<1> QED BY <1>5, <1>6, <1>12, <1>13

\* A paper is drawn from the bank: which question stands where.
LEMMA PaperDrawn ==
    ASSUME NEW quiz \in Quiz, Valid(quiz), NEW p \in Papers(quiz)
    PROVE  \E f \in [DOMAIN p -> DOMAIN quiz.questions] :
             /\ \A j, k \in DOMAIN p : f[j] = f[k] => j = k
             /\ \A k \in DOMAIN p : p[k] \in Presentations(quiz, f[k])
<1> DEFINE n == Len(quiz.questions)
           m == Asked(quiz)
<1>1. n \in Nat /\ DOMAIN quiz.questions = 1..n
  BY QuizQuestions
<1>2. m \in Nat /\ m <= n
  BY <1>1, MaxQuestionsAssumption DEF Valid, Asked
<1>3. DOMAIN p = 1..m
  BY PaperLength
<1>4. PICK drawn \in Orders(quiz.shuffle_questions, n) :
        \A k \in 1..m : p[k] \in Presentations(quiz, drawn[k])
  BY DEF Papers
<1> HIDE DEF n, m
<1>5. /\ drawn \in [1..n -> 1..n]
      /\ \A j, k \in 1..n : drawn[j] = drawn[k] => j = k
  BY <1>1 DEF Orders, Bijection, Injection, Surjection, IsInjective
<1>6. 1..m \subseteq 1..n
  BY <1>1, <1>2
<1> DEFINE f == [k \in 1..m |-> drawn[k]]
<1>7. f \in [1..m -> 1..n] /\ \A k \in 1..m : f[k] = drawn[k]
  BY <1>5, <1>6
<1> HIDE DEF f
<1>8. \A j, k \in 1..m : f[j] = f[k] => j = k
  BY <1>5, <1>6, <1>7
<1> QED BY <1>1, <1>3, <1>4, <1>7, <1>8

\* What PresentedQuestion says, of every question of a paper.
LEMMA PaperQuestion ==
    ASSUME NEW quiz \in Quiz, Valid(quiz), NEW p \in Papers(quiz), NEW k \in DOMAIN p
    PROVE  /\ 1 \in DOMAIN p[k].choices
           /\ p[k].correct \in DOMAIN p[k].choices
           /\ \A i, j \in DOMAIN p[k].choices :
                i # j => Trim(p[k].choices[i]) # Trim(p[k].choices[j])
<1>1. PICK f \in [DOMAIN p -> DOMAIN quiz.questions] :
        \A x \in DOMAIN p : p[x] \in Presentations(quiz, f[x])
  BY PaperDrawn
<1>2. f[k] \in DOMAIN quiz.questions /\ p[k] \in Presentations(quiz, f[k])
  BY <1>1
<1> QED BY <1>2, PresentedQuestion

LEMMA ScoreIsMark ==
    ASSUME NEW n \in Nat \ {0}, NEW p, DOMAIN p = 1..n, Len(p) = n, NEW given, NEW t
    PROVE  Score(p, given, t) \in Mark
<1> DEFINE c == Cardinality({i \in DOMAIN p : given[i] = p[i].correct})
<1>1. c \in Nat
  <2>1. IsFiniteSet(1..n)
    BY FS_Interval
  <2> QED BY <2>1, FS_Subset, FS_CardinalityType
<1>2. Score(p, given, t) = [correct |-> c, total |-> n, percent |-> (c * 100) \div n,
                            passed |-> c * 100 >= t * n]
  BY DEF Score
<1> HIDE DEF c
<1>3. (c * 100) \div n \in Nat
  BY <1>1
<1>4. (c * 100 >= t * n) \in BOOLEAN
  OBVIOUS
<1> QED BY <1>1, <1>2, <1>3, <1>4 DEF Mark

-----------------------------------------------------------------------------
\* How far an exam is, and that every answer given was on the screen.
ExamInv ==
    /\ bank \in Quiz /\ Valid(bank)
    /\ paper = <<>> => basis = None /\ answers = <<>> /\ selected = 1 /\ result = None
    /\ paper # <<>> => basis \in Quiz /\ Valid(basis) /\ paper \in Papers(basis)
    /\ answers \in Seq(Nat)
    /\ Open => Len(answers) < Len(paper) /\ selected \in Nat
    /\ result # None => /\ Len(answers) = Len(paper)
                        /\ result = Score(paper, answers, basis.threshold)
    /\ AnswersOnScreen

LEMMA BeginStep == ExamInv /\ BeginExam => ExamInv'
<1> SUFFICES ASSUME ExamInv, BeginExam PROVE ExamInv'
  OBVIOUS
<1>1. /\ bank \in Quiz /\ Valid(bank) /\ paper' \in Papers(bank) /\ basis' = bank
      /\ answers = <<>> /\ selected = 1 /\ result = None
      /\ UNCHANGED <<bank, selected, answers, result>>
  BY DEF ExamInv, BeginExam
<1>2. Len(paper') \in Nat \ {0} /\ DOMAIN paper' = 1..Len(paper')
  BY <1>1, PaperLength
<1>3. 1 \in DOMAIN paper'[1].choices
  BY <1>1, <1>2, PaperQuestion
<1>4. answers' = <<>> /\ Len(answers') = 0 /\ answers' \in Seq(Nat) /\ DOMAIN answers' = {}
  BY <1>1
<1>5. AnswersOnScreen'
  BY <1>1, <1>3, <1>4 DEF AnswersOnScreen, Shown
<1>6. Len(answers') < Len(paper')
  BY <1>2, <1>4
<1>7. paper' # <<>>
  BY <1>2
<1> QED BY <1>1, <1>4, <1>5, <1>6, <1>7 DEF ExamInv

LEMMA AnswerStep == ExamInv /\ (Enter \/ EnterLast) => ExamInv'
<1> SUFFICES ASSUME ExamInv, Enter \/ EnterLast PROVE ExamInv'
  OBVIOUS
<1> DEFINE n == Len(answers)
<1>1. /\ paper # <<>> /\ result = None
      /\ bank \in Quiz /\ Valid(bank)
      /\ basis \in Quiz /\ Valid(basis) /\ paper \in Papers(basis)
      /\ answers \in Seq(Nat) /\ n < Len(paper) /\ selected \in Nat
      /\ UNCHANGED <<bank, basis, paper>>
      /\ answers' = Append(answers, selected)
  BY DEF ExamInv, Enter, EnterLast, Open
<1>2. Len(paper) \in Nat \ {0} /\ DOMAIN paper = 1..Len(paper)
  BY <1>1, PaperLength
<1>3. \A i \in DOMAIN answers : answers[i] \in DOMAIN paper[i].choices
  BY <1>1 DEF ExamInv, AnswersOnScreen
<1>4. selected \in DOMAIN paper[n + 1].choices
  BY <1>1 DEF ExamInv, AnswersOnScreen, Open, Shown
<1>5. /\ n \in Nat /\ Len(answers') = n + 1 /\ answers' \in Seq(Nat)
      /\ DOMAIN answers' = 1..(n + 1) /\ DOMAIN answers = 1..n
      /\ answers'[n + 1] = selected /\ \A i \in 1..n : answers'[i] = answers[i]
  BY <1>1
<1> HIDE DEF n
<1>6. \A i \in DOMAIN answers' : answers'[i] \in DOMAIN paper'[i].choices
  <2> SUFFICES ASSUME NEW i \in 1..(n + 1) PROVE answers'[i] \in DOMAIN paper[i].choices
    BY <1>1, <1>5
  <2>1. CASE i = n + 1
    BY <1>4, <1>5, <2>1
  <2>2. CASE i \in 1..n
    BY <1>3, <1>5, <2>2
  <2> QED BY <1>5, <2>1, <2>2
<1>7. CASE Enter
  <2>1. n + 1 < Len(paper) /\ selected' = 1 /\ result' = None
    BY <1>1, <1>7 DEF Enter, n
  <2>2. Len(answers') + 1 \in DOMAIN paper
    BY <1>2, <1>5, <2>1
  <2>3. 1 \in DOMAIN paper[Len(answers') + 1].choices
    BY <1>1, <2>2, PaperQuestion
  <2>4. AnswersOnScreen'
    BY <1>1, <1>6, <2>1, <2>3 DEF AnswersOnScreen, Shown
  <2>5. Len(answers') < Len(paper')
    BY <1>1, <1>5, <2>1
  <2> QED BY <1>1, <1>5, <2>1, <2>4, <2>5 DEF ExamInv
<1>8. CASE EnterLast
  <2>1. n + 1 = Len(paper) /\ result' = Score(paper, answers', basis.threshold)
    BY <1>8 DEF EnterLast, n
  <2>2. result' \in Mark
    BY <1>2, <2>1, ScoreIsMark
  <2>3. result' # None /\ ~Open'
    BY <2>2, NoExamAssumption DEF Open
  <2>4. AnswersOnScreen'
    BY <1>6, <2>3 DEF AnswersOnScreen
  <2> QED BY <1>1, <1>5, <2>1, <2>3, <2>4 DEF ExamInv
<1> QED BY <1>7, <1>8

LEMMA ExamStep == ExamInv /\ [Next]_vars => ExamInv'
<1> SUFFICES ASSUME ExamInv, [Next]_vars PROVE ExamInv'
  OBVIOUS
<1>1. CASE Edit
  BY <1>1, EditKeepsQuiz DEF ExamInv, exam, AnswersOnScreen, Open, Shown
<1>2. ASSUME NEW i \in 1..MaxChoices, Select(i) PROVE ExamInv'
  BY <1>2, MaxQuestionsAssumption DEF Select, ExamInv, AnswersOnScreen, Open, Shown
<1>3. CASE Quit
  BY <1>3 DEF Quit, ExamInv, AnswersOnScreen, Open
<1>4. CASE UNCHANGED vars
  BY <1>4 DEF vars, exam, ExamInv, AnswersOnScreen, Open, Shown
<1> QED BY <1>1, <1>2, <1>3, <1>4, BeginStep, AnswerStep DEF Next

LEMMA ExamInvariant == Spec => []ExamInv
<1>1. Init => ExamInv
  BY DEF Init, ExamInv, AnswersOnScreen, Open
<1> QED BY <1>1, ExamStep, PTL DEF Spec

\* What is saved is a valid quiz, and an open exam stands on a question of it.
THEOREM ExamTypes == Spec => []TypeOK
<1>1. ExamInv => TypeOK
  <2> SUFFICES ASSUME ExamInv PROVE TypeOK
    OBVIOUS
  <2>1. ASSUME paper # <<>>
        PROVE  /\ basis # None /\ Valid(basis) /\ Len(paper) = Asked(basis)
               /\ Len(paper) \in Nat \ {0} /\ DOMAIN paper = 1..Len(paper)
    BY <2>1, PaperLength, NoExamAssumption DEF ExamInv
  <2>2. result # None => result \in Mark
    <3> SUFFICES ASSUME result # None PROVE result \in Mark
      OBVIOUS
    <3>1. paper # <<>> /\ result = Score(paper, answers, basis.threshold)
      BY DEF ExamInv
    <3> QED BY <2>1, <3>1, ScoreIsMark
  <2> QED BY <2>1, <2>2 DEF ExamInv, TypeOK
<1> QED BY <1>1, ExamInvariant, PTL

\* Every answer was on the screen when it was given, whatever number of choices
\* the questions have (run and submit_answer in ssh-exam-tui.rs).
THEOREM AnswersOnScreenHolds == Spec => []AnswersOnScreen
<1>1. ExamInv => AnswersOnScreen
  BY DEF ExamInv
<1> QED BY <1>1, ExamInvariant, PTL

\* No shuffle mixes up questions, choices and right answers, for any bank
\* that validate lets through (Quiz::prepare).
THEOREM PaperIsFairHolds == Spec => []PaperIsFair
<1>1. ExamInv => PaperIsFair
  <2> SUFFICES ASSUME ExamInv, paper # <<>>
               PROVE  \E f \in [DOMAIN paper -> DOMAIN basis.questions] :
                        /\ IsInjective(f)
                        /\ \A k \in DOMAIN paper :
                             SameQuestion(basis.questions[f[k]], paper[k])
    BY DEF PaperIsFair
  <2>1. basis \in Quiz /\ Valid(basis) /\ paper \in Papers(basis)
    BY DEF ExamInv
  <2>2. PICK f \in [DOMAIN paper -> DOMAIN basis.questions] :
          /\ \A j, k \in DOMAIN paper : f[j] = f[k] => j = k
          /\ \A k \in DOMAIN paper : paper[k] \in Presentations(basis, f[k])
    BY <2>1, PaperDrawn
  <2>3. IsInjective(f)
    BY <2>2 DEF IsInjective
  <2>4. ASSUME NEW k \in DOMAIN paper
        PROVE  SameQuestion(basis.questions[f[k]], paper[k])
    <3>1. f[k] \in DOMAIN basis.questions /\ paper[k] \in Presentations(basis, f[k])
      BY <2>2
    <3> QED BY <2>1, <3>1, PresentedQuestion
  <2> QED BY <2>3, <2>4
<1> QED BY <1>1, ExamInvariant, PTL

\* No choice reads like the right one and is marked wrong (Quiz::validate and
\* PreparedQuiz::score).
THEOREM MarkedByTextHolds == Spec => []MarkedByText
<1>1. ExamInv => MarkedByText
  <2> SUFFICES ASSUME ExamInv, result # None
               PROVE  result.correct = Cardinality({i \in DOMAIN paper :
                        Trim(paper[i].choices[answers[i]])
                          = Trim(paper[i].choices[paper[i].correct])})
    BY DEF MarkedByText
  <2>1. /\ paper # <<>> /\ basis \in Quiz /\ Valid(basis) /\ paper \in Papers(basis)
        /\ answers \in Seq(Nat) /\ Len(answers) = Len(paper)
        /\ result = Score(paper, answers, basis.threshold)
        /\ \A i \in DOMAIN answers : answers[i] \in DOMAIN paper[i].choices
    BY DEF ExamInv, AnswersOnScreen
  <2>2. DOMAIN answers = DOMAIN paper
    BY <2>1, PaperLength
  <2>3. ASSUME NEW i \in DOMAIN paper
        PROVE  answers[i] = paper[i].correct <=>
                 Trim(paper[i].choices[answers[i]]) = Trim(paper[i].choices[paper[i].correct])
    <3>1. answers[i] \in DOMAIN paper[i].choices
      BY <2>1, <2>2
    <3>2. /\ paper[i].correct \in DOMAIN paper[i].choices
          /\ \A j, k \in DOMAIN paper[i].choices :
               j # k => Trim(paper[i].choices[j]) # Trim(paper[i].choices[k])
      BY <2>1, PaperQuestion
    <3> QED BY <3>1, <3>2
  <2>4. result.correct = Cardinality({i \in DOMAIN paper : answers[i] = paper[i].correct})
    BY <2>1 DEF Score
  <2>5. {i \in DOMAIN paper : answers[i] = paper[i].correct}
          = {i \in DOMAIN paper :
               Trim(paper[i].choices[answers[i]]) = Trim(paper[i].choices[paper[i].correct])}
    BY <2>3
  <2> QED BY <2>4, <2>5
<1> QED BY <1>1, ExamInvariant, PTL
=============================================================================
