SPECIFICATION Spec
CONSTANTS Requests <- MCIncluded
          Reading <- ReadText
INVARIANTS IncludeIsAnswered
CHECK_DEADLOCK FALSE
