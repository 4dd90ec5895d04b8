\* Two workers, three requests, one change of an account made by hand.
SPECIFICATION Spec
CONSTANTS
  off = off
  stu = stu
  new = new
  bare = bare
  e1 = e1
  E1 = E1
  e2 = e2
  e3 = e3
  tok = tok
  own = own
  anon = anon
  toOff = toOff
  toStu = toStu
  Users = {1, 2, 3, 4, 5}
  Nobody = 0
  Workers = {w1, w2}
  Uids = {off, stu, new, bare}
  NoUid = NoUid
  Emails = {e1, E1, e2, e3}
  NoEmail = NoEmail
  EmailOf <- SubjectEmail
  Lower <- LowerCase
  Like <- Alike
  Names = {n1}
  NoName = NoName
  Reports = {own, anon}
  ContextOf <- ReportFacts
  Tokens = {tok}
  NoToken = NoToken
  ReportOf <- TokenReport
  Notices = {toOff, toStu}
  RecipientOf <- Recipients
  Seeded <- Made
  Requests <- People
  MaxRequests = 3
  MaxEdits = 1
INVARIANTS TypeOK OneAccountPerIdentity ActsAsItself UsesCounted
SYMMETRY Symmetry
CHECK_DEADLOCK FALSE
