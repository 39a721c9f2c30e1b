CONSTANTS
  t1 = t1
  t2 = t2
  hello = hello
  rude = rude
  fine = fine
  look = look
  mail = mail
  Thread <- OneThread
  Scope <- OneScope
  Question = {hello}
  Refused = {}
  Answer = {fine}
  Tool = {look}
  ToolsOf <- ToolsVal
  CallSets <- OneCall
  Route = {"chat"}
  DefaultRoute = "chat"
  Window = 3
  Limit = 4
  MaxAsked = 3
  MaxMade = 6
  Refusal = Refusal
  Degraded = Degraded
  Silent = Silent
  None = None

SPECIFICATION Spec

INVARIANT HitIsAnswered

CHECK_DEADLOCK FALSE
