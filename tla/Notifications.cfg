\* An administrator and a user, two roles, two handlers with three calls, a search,
\* and two slots for calls of Notify, which come without end, over a queue of one.
CONSTANTS
  Users = {"admin", "user"}
  Roles = {"defence", "judge"}
  Defence = "defence"
  Handlers = {1, 2}
  MaxCalls = 3
  Admins = {"admin"}
  Events = {1, 2}
  QueueSize = 1
SPECIFICATION MCSpec
INVARIANTS LogMatchesRoles AnswerFitsRoles NobodyForgotten StopFlushes
PROPERTY StopEnds
\* Of the roles everything stops when the calls are made.
CHECK_DEADLOCK FALSE
