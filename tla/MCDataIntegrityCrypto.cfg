CONSTANTS
  Subjects <- MCSubjects
  MaxTime = 2
SPECIFICATION Spec
INVARIANT TypeOK
INVARIANT BlameIsTrue
INVARIANT PassedMeansBound
INVARIANT DatesJudgedAlike
