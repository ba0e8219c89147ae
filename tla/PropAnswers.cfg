SPECIFICATION Spec
CONSTANTS Requests <- MCRequests
          Reading <- ReadText
INVARIANTS PropTypeOK BodyIsUnderstood AnswersTheAsked ResponsesLeaveNoTrace
CHECK_DEADLOCK FALSE
