SPECIFICATION IdentitySpec
CONSTANTS
  Servers = {s1, s2}
  Users = {u1, u2, u3}
  Emails = {e1, e2, e3}
  Invitations = {i1}
  MaxCalls = 5
  Nobody = Nobody
  Clients = {c1, c2}
  MaxAttempts = 2
  Passwords = {p1, p2}
  MaxSecret = 2
  MaxStep = 2
  MaxSet = 2
  MaxRequests = 3
SYMMETRY MCSymmetry
INVARIANTS AlwaysAnAdmin OneFounder OneAccountPerInvitation NoRequestStuck GuessesBounded CodesWorkOnce
CHECK_DEADLOCK FALSE
