CONSTANTS
    Answers <- FewAnswers
    Notes <- FewNotes
    Prompts <- FewPrompts
    MaxAnswers = 2
    NoId = NoId
SPECIFICATION Spec
INVARIANTS TypeOK UpstreamAccepts RepliesComeBack CacheMarksKept
