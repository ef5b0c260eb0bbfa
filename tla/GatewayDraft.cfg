SPECIFICATION DraftSpec
CONSTANTS
    MaxDrafts = 2
    MaxRevision = 2
    MaxFunds = 2
    MaxEvents = 2
INVARIANT RetryNeverReplays HandoffNeverDenied ExecutesWhatWasSubmitted
CONSTRAINT OneStory
CHECK_DEADLOCK FALSE
