CONSTANTS
    Width = 3
    Visits = 20
    Modules <- Programs
    TermErrors <- EmitErrors
    TermCrashes <- EmitCrashes
    TermReadsJunk <- EmitReadsJunk
    TermMayFail <- MayFail
    NameCrashes <- NameNeverEnds
    ImportErrors <- ImportErrorsOf
    ImportCrashes <- ImportFailsFor
    ArgumentsOf <- Arguments
    AnswersTo <- Answers
    SolveAnswers <- Solutions
    MaxAnswers = 5
SPECIFICATION Spec
INVARIANTS TypeOK LoopTargets BlocksAreWhole RightTypes CallsAsWritten CompilesOrReports IllFormedIsRejected ListedInOrder DistinctSymbols
PROPERTIES FollowsSource EverythingEnds
