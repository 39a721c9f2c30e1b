CONSTANTS
  t1 = t1
  t2 = t2
  hello = hello
  rude = rude
  fine = fine
  look = look
  mail = mail
  Thread <- BothThreads
  Scope <- ScopeVal
  Question = {hello, rude}
  Refused = {rude}
  Answer = {fine}
  Tool = {look, mail}
  ToolsOf <- ToolsVal
  CallSets <- CallSetsVal
  Route <- RouteVal
  DefaultRoute = "chat"
  Window = 3
  Limit = 5
  MaxAsked = 2
  MaxMade = 4
  Refusal = Refusal
  Degraded = Degraded
  Silent = Silent
  None = None

SPECIFICATION Spec

INVARIANTS
  TypeOK
  CallsAreAnswered
  ExecutedOnce
  AnswerFitsView

PROPERTY RunsEnd

CHECK_DEADLOCK FALSE
