SPECIFICATION Spec
CONSTANTS
    None = None
    yes = yes
    no = no
    maybe = maybe
    yes_blank = yes_blank
    Questions <- Candidates
    Trim <- Trimmed
    Thresholds = {60}
    Shuffles = {TRUE, FALSE}
    MaxQuestions = 2
    MaxChoices = 3
INVARIANTS
    TypeOK
    AnswersOnScreen
    PaperIsFair
    MarkedByText
    PassedIffPercent
