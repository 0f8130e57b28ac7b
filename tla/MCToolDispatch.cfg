SPECIFICATION Spec
CONSTANTS
  e1 = e1  e2 = e2
  c1 = c1  c2 = c2  c3 = c3  c4 = c4
  k1 = k1  a1 = a1  a2 = a2
  Executors <- TwoExecutors
  Calls <- FourCalls
  Keys <- OneKey
  Args <- TwoArgs
  NoKey = NoKey
  NoArgs = NoArgs
  NoCall = NoCall
  Legacy = Legacy
  KeyOf <- KeyOfFour
  ArgsOf <- ArgsOfFour
  Asking <- AskingFour
  MaxErasures = 1
INVARIANTS EffectBound AnswersGenuine NoLeakedIntent
PROPERTIES AbandonedStaysClosed
