\* Two lists ask for the author of one content, which is deleted between the two questions.
SPECIFICATION Spec
CONSTANTS
  ana = ana
  bob = bob
  act = act
  msg = msg
  Accounts = {ana, bob}
  Contents = {act}
  AuthorOf <- OneAuthor
  Posts = {p1}
  Lists = {l1, l2}
  Reviews = {}
  NULL = NULL
  MaxLookups = 1
CHECK_DEADLOCK FALSE
PROPERTIES AuthorKept
