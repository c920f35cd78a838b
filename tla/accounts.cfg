\* Two requests of two browsers at a time, three refresh tokens, one link of each kind.
SPECIFICATION Spec
CONSTANTS
  q1 = q1
  q2 = q2
  b1 = b1
  b2 = b2
  t1 = t1
  t2 = t2
  t3 = t3
  l1 = l1
  l2 = l2
  Null = Null
  Requests = {q1, q2}
  Browsers = {b1, b2}
  Tokens = {t1, t2, t3}
  Links = {l1, l2}
  Scenarios <- Everyday
  Tabs = {"one", "many"}
SYMMETRY Symmetry
INVARIANTS
  OneLivePerSignIn
  SignOutIsFinal
  NoSpuriousSignOut
  SuspensionTakesEffect
  LinkSpentOnce
\* Tokens run out.
CHECK_DEADLOCK FALSE
